----------------------------- MODULE CheckProofs -----------------------------
(***************************************************************************)
(* What the checks of the audited verifier let through, for every receipt  *)
(* and every registry.  First, a block of checks passes only when each of  *)
(* its checks does, and otherwise gives a reason of the fixed set.  Then   *)
(* what each check asks: a verdict passes if and only if its condition     *)
(* holds, in whatever order the conditions are evaluated.  Last, the seven *)
(* blocks together are compared with Admissible, in both directions.       *)
(***************************************************************************)
EXTENDS Admission, WellFoundedInduction, SequenceTheorems, FiniteSetTheorems, TLAPS

\* Every non-empty set of naturals has a least element.
LEMMA LeastNatural ==
  ASSUME NEW S \in SUBSET Nat, S # {}
  PROVE  \E m \in S : \A j \in S : m <= j
<1>1. \E m \in S : \A j \in S : <<j, m>> \notin OpToRel(<, Nat)
  BY NatLessThanWellFounded, WFMin
<1>2. PICK m \in S : \A j \in S : <<j, m>> \notin OpToRel(<, Nat)
  BY <1>1
<1>3. ASSUME NEW j \in S PROVE ~(j < m)
  <2>1. <<j, m>> \in Nat \X Nat
    OBVIOUS
  <2>2. j < m => <<j, m>> \in OpToRel(<, Nat)
    BY <2>1, Zenon DEF OpToRel
  <2>3. QED
    BY <1>2, <2>2, Zenon
<1>4. \A j \in S : j \in Nat /\ m \in Nat
  OBVIOUS
<1>5. QED
  BY <1>3, <1>4

\* FirstFailure, whose definition binds its argument for TLC's sake.
LEMMA FirstFailureIsFirstFailing ==
  ASSUME NEW checks
  PROVE  FirstFailure(checks) = FirstFailing(checks)
BY DEF FirstFailure

\* A block passes exactly when all of its checks do; otherwise its reason is
\* the one of a check that fails.
LEMMA FirstFailureResult ==
  ASSUME NEW n \in Nat, NEW checks, DOMAIN checks = 1..n
  PROVE  \/ FirstFailure(checks) = Ok /\ \A i \in 1..n : checks[i] = Ok
         \/ \E i \in 1..n : checks[i] # Ok /\ FirstFailure(checks) = checks[i]
<1> DEFINE failing == {i \in 1..n : checks[i] # Ok}
<1>1. CASE failing = {}
  BY <1>1, FirstFailureIsFirstFailing DEF FirstFailing
<1>2. CASE failing # {}
  <2>1. failing \in SUBSET Nat
    OBVIOUS
  <2>2. PICK m \in failing : \A j \in failing : m <= j
    BY <1>2, <2>1, LeastNatural
  <2>3. \A j \in DOMAIN checks : j < m => checks[j] = Ok
    BY <2>2
  <2>4. PICK i \in DOMAIN checks :
          /\ checks[i] # Ok
          /\ FirstFailing(checks) = checks[i]
    BY <2>2, <2>3 DEF FirstFailing
  <2>5. QED
    BY <2>4, FirstFailureIsFirstFailing
<1>3. QED
  BY <1>1, <1>2

\* So a block passes if and only if each of its checks does.
LEMMA FirstFailureExact ==
  ASSUME NEW n \in Nat, NEW checks, DOMAIN checks = 1..n
  PROVE  FirstFailure(checks) = Ok <=> \A i \in 1..n : checks[i] = Ok
<1>1. (\A i \in 1..n : checks[i] = Ok) => FirstFailure(checks) = Ok
  BY FirstFailureIsFirstFailing DEF FirstFailing
<1>2. FirstFailure(checks) = Ok => \A i \in 1..n : checks[i] = Ok
  BY FirstFailureResult
<1>3. QED
  BY <1>1, <1>2

\* A block of checks with reasons of the fixed set has such a reason itself.
LEMMA FirstFailureReason ==
  ASSUME NEW n \in Nat, NEW checks, DOMAIN checks = 1..n,
         \A i \in 1..n : checks[i] \in AuditReasonIds
  PROVE  FirstFailure(checks) \in AuditReasonIds
<1>1. Ok \in AuditReasonIds
  BY DEF AuditReasonIds
<1>2. QED
  BY <1>1, FirstFailureResult

\* A block of two checks: it passes when both do, and keeps to the fixed reasons.
\* (The same for the other lengths a block of the verifier has.)
LEMMA FirstFailure2 ==
  ASSUME NEW c1, NEW c2
  PROVE  LET checks == <<c1, c2>>
         IN  /\ FirstFailure(checks) = Ok
                  <=> c1 = Ok /\ c2 = Ok
             /\ {c1, c2} \subseteq AuditReasonIds
                  => FirstFailure(checks) \in AuditReasonIds
<1> DEFINE checks == <<c1, c2>>
<1>1. DOMAIN checks = 1..2
  OBVIOUS
<1>2. checks[1] = c1 /\ checks[2] = c2
  OBVIOUS
<1>3. {c1, c2} \subseteq AuditReasonIds => \A i \in 1..2 : checks[i] \in AuditReasonIds
  OBVIOUS
<1> HIDE DEF checks
<1>4. FirstFailure(checks) = Ok <=> \A i \in 1..2 : checks[i] = Ok
  BY <1>1, FirstFailureExact
<1>5. {c1, c2} \subseteq AuditReasonIds => FirstFailure(checks) \in AuditReasonIds
  BY <1>1, <1>3, FirstFailureReason
<1>6. QED
  BY <1>2, <1>4, <1>5 DEF checks

\* A block of three checks.
LEMMA FirstFailure3 ==
  ASSUME NEW c1, NEW c2, NEW c3
  PROVE  LET checks == <<c1, c2, c3>>
         IN  /\ FirstFailure(checks) = Ok
                  <=> c1 = Ok /\ c2 = Ok /\ c3 = Ok
             /\ {c1, c2, c3} \subseteq AuditReasonIds
                  => FirstFailure(checks) \in AuditReasonIds
<1> DEFINE checks == <<c1, c2, c3>>
<1>1. DOMAIN checks = 1..3
  OBVIOUS
<1>2. checks[1] = c1 /\ checks[2] = c2 /\ checks[3] = c3
  OBVIOUS
<1>3. {c1, c2, c3} \subseteq AuditReasonIds => \A i \in 1..3 : checks[i] \in AuditReasonIds
  OBVIOUS
<1> HIDE DEF checks
<1>4. FirstFailure(checks) = Ok <=> \A i \in 1..3 : checks[i] = Ok
  BY <1>1, FirstFailureExact
<1>5. {c1, c2, c3} \subseteq AuditReasonIds => FirstFailure(checks) \in AuditReasonIds
  BY <1>1, <1>3, FirstFailureReason
<1>6. QED
  BY <1>2, <1>4, <1>5 DEF checks

\* A block of four checks.
LEMMA FirstFailure4 ==
  ASSUME NEW c1, NEW c2, NEW c3, NEW c4
  PROVE  LET checks == <<c1, c2, c3, c4>>
         IN  /\ FirstFailure(checks) = Ok
                  <=> c1 = Ok /\ c2 = Ok /\ c3 = Ok /\ c4 = Ok
             /\ {c1, c2, c3, c4} \subseteq AuditReasonIds
                  => FirstFailure(checks) \in AuditReasonIds
<1> DEFINE checks == <<c1, c2, c3, c4>>
<1>1. DOMAIN checks = 1..4
  OBVIOUS
<1>2. checks[1] = c1 /\ checks[2] = c2 /\ checks[3] = c3 /\ checks[4] = c4
  OBVIOUS
<1>3. {c1, c2, c3, c4} \subseteq AuditReasonIds => \A i \in 1..4 : checks[i] \in AuditReasonIds
  OBVIOUS
<1> HIDE DEF checks
<1>4. FirstFailure(checks) = Ok <=> \A i \in 1..4 : checks[i] = Ok
  BY <1>1, FirstFailureExact
<1>5. {c1, c2, c3, c4} \subseteq AuditReasonIds => FirstFailure(checks) \in AuditReasonIds
  BY <1>1, <1>3, FirstFailureReason
<1>6. QED
  BY <1>2, <1>4, <1>5 DEF checks

\* A block of five checks.
LEMMA FirstFailure5 ==
  ASSUME NEW c1, NEW c2, NEW c3, NEW c4, NEW c5
  PROVE  LET checks == <<c1, c2, c3, c4, c5>>
         IN  /\ FirstFailure(checks) = Ok
                  <=> c1 = Ok /\ c2 = Ok /\ c3 = Ok /\ c4 = Ok /\ c5 = Ok
             /\ {c1, c2, c3, c4, c5} \subseteq AuditReasonIds
                  => FirstFailure(checks) \in AuditReasonIds
<1> DEFINE checks == <<c1, c2, c3, c4, c5>>
<1>1. DOMAIN checks = 1..5
  OBVIOUS
<1>2. checks[1] = c1 /\ checks[2] = c2 /\ checks[3] = c3 /\ checks[4] = c4 /\
      checks[5] = c5
  OBVIOUS
<1>3. {c1, c2, c3, c4, c5} \subseteq AuditReasonIds => \A i \in 1..5 : checks[i] \in AuditReasonIds
  OBVIOUS
<1> HIDE DEF checks
<1>4. FirstFailure(checks) = Ok <=> \A i \in 1..5 : checks[i] = Ok
  BY <1>1, FirstFailureExact
<1>5. {c1, c2, c3, c4, c5} \subseteq AuditReasonIds => FirstFailure(checks) \in AuditReasonIds
  BY <1>1, <1>3, FirstFailureReason
<1>6. QED
  BY <1>2, <1>4, <1>5 DEF checks

\* A block of six checks.
LEMMA FirstFailure6 ==
  ASSUME NEW c1, NEW c2, NEW c3, NEW c4, NEW c5, NEW c6
  PROVE  LET checks == <<c1, c2, c3, c4, c5, c6>>
         IN  /\ FirstFailure(checks) = Ok
                  <=> c1 = Ok /\ c2 = Ok /\ c3 = Ok /\ c4 = Ok /\ c5 = Ok /\ c6 = Ok
             /\ {c1, c2, c3, c4, c5, c6} \subseteq AuditReasonIds
                  => FirstFailure(checks) \in AuditReasonIds
<1> DEFINE checks == <<c1, c2, c3, c4, c5, c6>>
<1>1. DOMAIN checks = 1..6
  OBVIOUS
<1>2. checks[1] = c1 /\ checks[2] = c2 /\ checks[3] = c3 /\ checks[4] = c4 /\
      checks[5] = c5 /\ checks[6] = c6
  OBVIOUS
<1>3. {c1, c2, c3, c4, c5, c6} \subseteq AuditReasonIds => \A i \in 1..6 : checks[i] \in AuditReasonIds
  OBVIOUS
<1> HIDE DEF checks
<1>4. FirstFailure(checks) = Ok <=> \A i \in 1..6 : checks[i] = Ok
  BY <1>1, FirstFailureExact
<1>5. {c1, c2, c3, c4, c5, c6} \subseteq AuditReasonIds => FirstFailure(checks) \in AuditReasonIds
  BY <1>1, <1>3, FirstFailureReason
<1>6. QED
  BY <1>2, <1>4, <1>5 DEF checks

\* A block of seven checks.
LEMMA FirstFailure7 ==
  ASSUME NEW c1, NEW c2, NEW c3, NEW c4, NEW c5, NEW c6,
         NEW c7
  PROVE  LET checks == <<c1, c2, c3, c4, c5, c6, c7>>
         IN  /\ FirstFailure(checks) = Ok
                  <=> c1 = Ok /\ c2 = Ok /\ c3 = Ok /\ c4 = Ok /\ c5 = Ok /\
                     c6 = Ok /\ c7 = Ok
             /\ {c1, c2, c3, c4, c5, c6, c7} \subseteq AuditReasonIds
                  => FirstFailure(checks) \in AuditReasonIds
<1> DEFINE checks == <<c1, c2, c3, c4, c5, c6, c7>>
<1>1. DOMAIN checks = 1..7
  OBVIOUS
<1>2. checks[1] = c1 /\ checks[2] = c2 /\ checks[3] = c3 /\ checks[4] = c4 /\
      checks[5] = c5 /\ checks[6] = c6 /\ checks[7] = c7
  OBVIOUS
<1>3. {c1, c2, c3, c4, c5, c6, c7} \subseteq AuditReasonIds => \A i \in 1..7 : checks[i] \in AuditReasonIds
  OBVIOUS
<1> HIDE DEF checks
<1>4. FirstFailure(checks) = Ok <=> \A i \in 1..7 : checks[i] = Ok
  BY <1>1, FirstFailureExact
<1>5. {c1, c2, c3, c4, c5, c6, c7} \subseteq AuditReasonIds => FirstFailure(checks) \in AuditReasonIds
  BY <1>1, <1>3, FirstFailureReason
<1>6. QED
  BY <1>2, <1>4, <1>5 DEF checks

\* A block of eight checks.
LEMMA FirstFailure8 ==
  ASSUME NEW c1, NEW c2, NEW c3, NEW c4, NEW c5, NEW c6,
         NEW c7, NEW c8
  PROVE  LET checks == <<c1, c2, c3, c4, c5, c6, c7, c8>>
         IN  /\ FirstFailure(checks) = Ok
                  <=> c1 = Ok /\ c2 = Ok /\ c3 = Ok /\ c4 = Ok /\ c5 = Ok /\
                     c6 = Ok /\ c7 = Ok /\ c8 = Ok
             /\ {c1, c2, c3, c4, c5, c6, c7, c8} \subseteq AuditReasonIds
                  => FirstFailure(checks) \in AuditReasonIds
<1> DEFINE checks == <<c1, c2, c3, c4, c5, c6, c7, c8>>
<1>1. DOMAIN checks = 1..8
  OBVIOUS
<1>2. checks[1] = c1 /\ checks[2] = c2 /\ checks[3] = c3 /\ checks[4] = c4 /\
      checks[5] = c5 /\ checks[6] = c6 /\ checks[7] = c7 /\ checks[8] = c8
  OBVIOUS
<1>3. {c1, c2, c3, c4, c5, c6, c7, c8} \subseteq AuditReasonIds => \A i \in 1..8 : checks[i] \in AuditReasonIds
  OBVIOUS
<1> HIDE DEF checks
<1>4. FirstFailure(checks) = Ok <=> \A i \in 1..8 : checks[i] = Ok
  BY <1>1, FirstFailureExact
<1>5. {c1, c2, c3, c4, c5, c6, c7, c8} \subseteq AuditReasonIds => FirstFailure(checks) \in AuditReasonIds
  BY <1>1, <1>3, FirstFailureReason
<1>6. QED
  BY <1>2, <1>4, <1>5 DEF checks

\* A block of nine checks.
LEMMA FirstFailure9 ==
  ASSUME NEW c1, NEW c2, NEW c3, NEW c4, NEW c5, NEW c6,
         NEW c7, NEW c8, NEW c9
  PROVE  LET checks == <<c1, c2, c3, c4, c5, c6, c7, c8, c9>>
         IN  /\ FirstFailure(checks) = Ok
                  <=> c1 = Ok /\ c2 = Ok /\ c3 = Ok /\ c4 = Ok /\ c5 = Ok /\
                     c6 = Ok /\ c7 = Ok /\ c8 = Ok /\ c9 = Ok
             /\ {c1, c2, c3, c4, c5, c6, c7, c8, c9} \subseteq AuditReasonIds
                  => FirstFailure(checks) \in AuditReasonIds
<1> DEFINE checks == <<c1, c2, c3, c4, c5, c6, c7, c8, c9>>
<1>1. DOMAIN checks = 1..9
  OBVIOUS
<1>2. checks[1] = c1 /\ checks[2] = c2 /\ checks[3] = c3 /\ checks[4] = c4 /\
      checks[5] = c5 /\ checks[6] = c6 /\ checks[7] = c7 /\ checks[8] = c8 /\
      checks[9] = c9
  OBVIOUS
<1>3. {c1, c2, c3, c4, c5, c6, c7, c8, c9} \subseteq AuditReasonIds => \A i \in 1..9 : checks[i] \in AuditReasonIds
  OBVIOUS
<1> HIDE DEF checks
<1>4. FirstFailure(checks) = Ok <=> \A i \in 1..9 : checks[i] = Ok
  BY <1>1, FirstFailureExact
<1>5. {c1, c2, c3, c4, c5, c6, c7, c8, c9} \subseteq AuditReasonIds => FirstFailure(checks) \in AuditReasonIds
  BY <1>1, <1>3, FirstFailureReason
<1>6. QED
  BY <1>2, <1>4, <1>5 DEF checks

\* A block of twelve checks.
LEMMA FirstFailure12 ==
  ASSUME NEW c1, NEW c2, NEW c3, NEW c4, NEW c5, NEW c6,
         NEW c7, NEW c8, NEW c9, NEW c10, NEW c11, NEW c12
  PROVE  LET checks == <<c1, c2, c3, c4, c5, c6, c7, c8, c9, c10, c11, c12>>
         IN  /\ FirstFailure(checks) = Ok
                  <=> c1 = Ok /\ c2 = Ok /\ c3 = Ok /\ c4 = Ok /\ c5 = Ok /\
                     c6 = Ok /\ c7 = Ok /\ c8 = Ok /\ c9 = Ok /\ c10 = Ok /\
                     c11 = Ok /\ c12 = Ok
             /\ {c1, c2, c3, c4, c5, c6, c7, c8, c9, c10, c11, c12} \subseteq AuditReasonIds
                  => FirstFailure(checks) \in AuditReasonIds
<1> DEFINE checks == <<c1, c2, c3, c4, c5, c6, c7, c8, c9, c10, c11, c12>>
<1>1. DOMAIN checks = 1..12
  OBVIOUS
<1>2. checks[1] = c1 /\ checks[2] = c2 /\ checks[3] = c3 /\ checks[4] = c4 /\
      checks[5] = c5 /\ checks[6] = c6 /\ checks[7] = c7 /\ checks[8] = c8 /\
      checks[9] = c9 /\ checks[10] = c10 /\ checks[11] = c11 /\ checks[12] = c12
  OBVIOUS
<1>3. {c1, c2, c3, c4, c5, c6, c7, c8, c9, c10, c11, c12} \subseteq AuditReasonIds => \A i \in 1..12 : checks[i] \in AuditReasonIds
  OBVIOUS
<1> HIDE DEF checks
<1>4. FirstFailure(checks) = Ok <=> \A i \in 1..12 : checks[i] = Ok
  BY <1>1, FirstFailureExact
<1>5. {c1, c2, c3, c4, c5, c6, c7, c8, c9, c10, c11, c12} \subseteq AuditReasonIds => FirstFailure(checks) \in AuditReasonIds
  BY <1>1, <1>3, FirstFailureReason
<1>6. QED
  BY <1>2, <1>4, <1>5 DEF checks

\* Whatever a message says, _classify_error gives a reason of the fixed set.
LEMMA ClassifyReason ==
  ASSUME NEW words
  PROVE  Classify(words) \in FailureReasons
<1> DEFINE hits == {i \in DOMAIN Classification : Classification[i].words \cap words # {}}
<1>1. CASE hits = {}
  BY <1>1 DEF Classify, FailureReasons, AuditReasonIds, Ok
<1>2. CASE hits # {}
  <2>1. DOMAIN Classification = 1..9
    BY DEF Classification
  <2>2. \A i \in 1..9 : Classification[i].reason \in FailureReasons
    BY DEF Classification, FailureReasons, AuditReasonIds, Ok
  <2>3. hits \in SUBSET Nat
    BY <2>1
  <2>4. \E m \in hits : \A j \in hits : m <= j
    BY <1>2, <2>3, LeastNatural
  <2>5. QED
    BY <1>2, <2>1, <2>2, <2>4 DEF Classify
<1>3. QED
  BY <1>1, <1>2

\* A single check.
LEMMA SingleCheckReason ==
  /\ Ok \in AuditReasonIds
  /\ \A words : Classify(words) \in AuditReasonIds /\ Classify(words) # Ok
  /\ "V4_CONTRACT_INVALID" \in AuditReasonIds
BY ClassifyReason DEF FailureReasons, AuditReasonIds

-----------------------------------------------------------------------------
(* Every verdict is a reason of the fixed set *)

\* A block with one check per element of a listing.
LEMMA ListingReason ==
  ASSUME NEW list, IsListing(list), NEW checks, DOMAIN checks = DOMAIN list,
         \A i \in DOMAIN list : checks[i] \in AuditReasonIds
  PROVE  FirstFailure(checks) \in AuditReasonIds
BY FirstFailureReason DEF IsListing

\* The artifact window check keeps to the fixed reasons.
LEMMA FreshnessReason ==
  ASSUME NEW now, NEW not_before, NEW not_after
  PROVE  FreshnessVerdict(now, not_before, not_after) \in AuditReasonIds
BY SingleCheckReason, FirstFailure2 DEF FreshnessVerdict, Demand, Require

\* So does the lookup of a key.
LEMMA FindKeyReason ==
  ASSUME NEW g, NEW role, NEW key, NEW algorithm, NEW now, NEW not_before, NEW not_after
  PROVE  FindKeyVerdict(g, role, key, algorithm, now, not_before, not_after)
           \in AuditReasonIds
BY SingleCheckReason, FirstFailure3 DEF FindKeyVerdict, Demand, Require

\* So does loading a registry, and rebuilding it within its budget.
LEMMA LoadRegistryReason ==
  ASSUME NEW g, IsListing(g.entries)
  PROVE  LoadRegistryVerdict(g) \in AuditReasonIds
<1> DEFINE perEntry == [i \in DOMAIN g.entries |-> RegistryEntryVerdict(g.entries, i)]
<1>1. \A i \in DOMAIN g.entries : RegistryEntryVerdict(g.entries, i) \in AuditReasonIds
  BY SingleCheckReason, FirstFailure5 DEF RegistryEntryVerdict, Demand, Require
<1>2. FirstFailure(perEntry) \in AuditReasonIds
  BY <1>1, ListingReason
<1>3. QED
  BY <1>2, SingleCheckReason, FirstFailure3 DEF LoadRegistryVerdict, Demand, Require

\* The rebuilding of the registry a caller passed.
LEMMA RegistryBudgetReason ==
  ASSUME NEW g, IsListing(g.entries)
  PROVE  RegistryBudgetVerdict(g) \in AuditReasonIds
BY LoadRegistryReason, SingleCheckReason, FirstFailure4
DEF RegistryBudgetVerdict, Demand, WithinBudget, Require

\* Both loops of verify_signature_bundle keep to the fixed reasons.
LEMMA BundleReason ==
  ASSUME NEW now, NEW bundle, IsListing(bundle.signatures), NEW artifact, NEW expected_hash, NEW g,
         NEW not_before, NEW not_after, NEW accepted
  PROVE  BundleVerdict(bundle, artifact, expected_hash, g, now, not_before, not_after, accepted)
           \in AuditReasonIds
<1> DEFINE entries  == DOMAIN bundle.signatures
           Entry(i) == BundleEntryVerdict(bundle, i, expected_hash, DomainTag(artifact))
           Found(i) == FindKeyVerdict(g, artifact, bundle.signatures[i].key,
                                      bundle.signatures[i].algorithm, now,
                                      not_before, not_after)
           Verified(i) == Demand(bundle.signatures[i].algorithm \in accepted, {"signature"})
<1>1. BundleShapeVerdict(bundle) \in AuditReasonIds
  BY SingleCheckReason, FirstFailure4 DEF BundleShapeVerdict, Demand, Require
<1>2. \A i \in entries : Entry(i) \in AuditReasonIds
  BY SingleCheckReason, FirstFailure7 DEF BundleEntryVerdict, Demand, Require
<1>3. FirstFailure([i \in entries |-> Entry(i)]) \in AuditReasonIds
  BY <1>2, ListingReason
<1>4. \A i \in entries : FirstFailure(<<Found(i), Verified(i)>>) \in AuditReasonIds
  BY FindKeyReason, SingleCheckReason, FirstFailure2 DEF Demand, Require
<1>5. FirstFailure([i \in entries |-> FirstFailure(<<Found(i), Verified(i)>>)])
        \in AuditReasonIds
  BY <1>4, ListingReason
<1>6. QED
  BY <1>1, <1>3, <1>5, SingleCheckReason, FirstFailure5 DEF BundleVerdict, Demand, Require

\* So does the preparation of a bundle.
LEMMA PrepareReason ==
  ASSUME NEW now, NEW bundle, IsListing(bundle.signatures), NEW artifact, NEW g,
         NEW not_before, NEW not_after
  PROVE  PrepareVerdict(bundle, artifact, g, now, not_before, not_after) \in AuditReasonIds
<1> DEFINE Text(i) == Demand("signature" \notin bundle.signatures[i].faults, {"signature"})
<1>1. FirstFailure([i \in DOMAIN bundle.signatures |-> Text(i)]) \in AuditReasonIds
  BY SingleCheckReason, ListingReason DEF Demand, Require
<1>2. QED
  BY <1>1, BundleReason, FirstFailure2 DEF PrepareVerdict

\* So do the header checks of a component verdict.
LEMMA ComponentPayloadReason ==
  ASSUME NEW c
  PROVE  ComponentPayloadVerdict(c) \in AuditReasonIds
<1>1. ComponentHeaderVerdict(c) \in AuditReasonIds
  BY SingleCheckReason, FirstFailure9 DEF ComponentHeaderVerdict, Demand, Require
<1>2. ComponentFieldsVerdict(c) \in AuditReasonIds
  BY SingleCheckReason, FirstFailure7 DEF ComponentFieldsVerdict, Demand, Require
<1>3. QED
  BY <1>1, <1>2, FirstFailure2 DEF ComponentPayloadVerdict

\* So does its envelope.
LEMMA ComponentEnvelopeReason ==
  ASSUME NEW now, NEW c, IsListing(c.signature_bundle.signatures), NEW g, NEW accepted
  PROVE  ComponentEnvelopeVerdict(c, g, now, accepted) \in AuditReasonIds
BY ComponentPayloadReason, BundleReason, SingleCheckReason, FirstFailure5
DEF ComponentEnvelopeVerdict, ComponentContextVerdict, SignedHashVerdict,
    ComponentRegistryVerdict, Demand, Require

\* So do the summaries a receipt holds of its component bundles.
LEMMA SignatureResultsReason ==
  ASSUME NEW results, IsListing(results)
  PROVE  SignatureResultsVerdict(results) \in AuditReasonIds
<1> DEFINE algorithms(i) == results[i].algorithms
           Checks(i) == <<
             Demand(results[i].component_id \in ComponentIds, {"signature"}),
             Demand(\A j \in 1..(i - 1) : results[j].component_id # results[i].component_id,
                    {"signature"}),
             Demand(results[i].verified, {"signature"}),
             Demand(/\ \A k, l \in DOMAIN algorithms(i) :
                         algorithms(i)[k] = algorithms(i)[l] => k = l
                    /\ RequiredAlgorithms \subseteq ToSet(algorithms(i))
                    /\ ToSet(algorithms(i)) \subseteq Algorithms,
                    {"signature", "algorithm"}) >>
<1>1. \A i \in DOMAIN results : FirstFailure(Checks(i)) \in AuditReasonIds
  BY SingleCheckReason, FirstFailure4 DEF Demand, Require
<1>2. FirstFailure([i \in DOMAIN results |-> FirstFailure(Checks(i))]) \in AuditReasonIds
  <2> HIDE DEF Checks
  <2> QED
    BY <1>1, ListingReason
<1>3. QED
  BY <1>2, SingleCheckReason, FirstFailure2 DEF SignatureResultsVerdict, Demand, Require

\* So does the list of verdicts as a receipt carries it.
LEMMA ReceiptListReason ==
  ASSUME NEW list, IsListing(list)
  PROVE  ReceiptListVerdict(list) \in AuditReasonIds
<1> DEFINE Checks(i) == <<
             Demand(list[i].component_id \in ComponentIds, {}),
             Demand(\A j \in 1..(i - 1) : list[j].component_id # list[i].component_id, {}),
             Demand("contract_version" \notin list[i].faults, {"contract"}),
             Demand("schema_version" \notin list[i].faults, {"schema"}),
             Demand(list[i].context_hash = ExpectedContextHash, {"context"}),
             Demand(list[i].decision \in Decisions, {}) >>
<1>1. \A i \in DOMAIN list : FirstFailure(Checks(i)) \in AuditReasonIds
  BY SingleCheckReason, FirstFailure6 DEF Demand, Require
<1>2. FirstFailure([i \in DOMAIN list |-> FirstFailure(Checks(i))]) \in AuditReasonIds
  <2> HIDE DEF Checks
  <2> QED
    BY <1>1, ListingReason
<1>3. QED
  BY <1>2, SingleCheckReason, FirstFailure2 DEF ReceiptListVerdict, Demand, Require

\* So do the semantic checks of a receipt.
LEMMA ReceiptSemanticsReason ==
  ASSUME NEW r, HoldsListings(r)
  PROVE  ReceiptSemanticsVerdict(r) \in AuditReasonIds
BY ReceiptListReason, SignatureResultsReason, SingleCheckReason, FirstFailure8
DEF ReceiptSemanticsVerdict, HoldsListings, Demand, Require

\* So does the list of component verdicts.
LEMMA ComponentListReason ==
  ASSUME NEW now, NEW r, HoldsListings(r), NEW g, NEW tokens
  PROVE  ComponentListVerdict(r.component_verdicts, g, now, tokens) \in AuditReasonIds
<1> DEFINE verdicts == r.component_verdicts
           Envelope(i) == ComponentEnvelopeVerdict(verdicts[i], g, now,
                            Accepted(verdicts[i].component_id, Remaining(tokens, verdicts, i)))
           Once(i) == Demand(\A j \in 1..(i - 1) :
                               verdicts[j].component_id # verdicts[i].component_id, {})
<1>1. \A i \in DOMAIN verdicts : Envelope(i) \in AuditReasonIds
  BY ComponentEnvelopeReason DEF HoldsListings
<1>2. \A i \in DOMAIN verdicts : Once(i) \in AuditReasonIds
  BY SingleCheckReason DEF Demand, Require
<1>3. \A i \in DOMAIN verdicts : FirstFailure(<<Envelope(i), Once(i)>>) \in AuditReasonIds
  <2> HIDE DEF Envelope, Once
  <2> QED
    BY <1>1, <1>2, FirstFailure2
<1>4. FirstFailure([i \in DOMAIN verdicts |-> FirstFailure(<<Envelope(i), Once(i)>>)])
        \in AuditReasonIds
  <2> HIDE DEF Envelope, Once
  <2> QED
    BY <1>3, ListingReason DEF HoldsListings
<1>5. QED
  BY <1>4, SingleCheckReason, FirstFailure2 DEF ComponentListVerdict, Demand, Require

\* So does the envelope of the receipt.
LEMMA ReceiptEnvelopeReason ==
  ASSUME NEW now, NEW r, HoldsListings(r), NEW g, NEW tokens
  PROVE  ReceiptEnvelopeVerdict(r, g, now, tokens) \in AuditReasonIds
<1>1. IsListing(r.signature_bundle.signatures)
  BY DEF HoldsListings
<1>2. BundleVerdict(r.signature_bundle, Orchestrator, "own", g, now, r.not_before, r.not_after,
                    Accepted(Orchestrator, tokens)) \in AuditReasonIds
  BY <1>1, BundleReason
<1>3. ReceiptSemanticsVerdict(r) \in AuditReasonIds
  BY ReceiptSemanticsReason
<1>4. \A condition, words : Demand(condition, words) \in AuditReasonIds
  BY SingleCheckReason DEF Demand, Require
<1>5. QED
  BY <1>2, <1>3, <1>4, FirstFailure12, SMTT(30) DEF ReceiptEnvelopeVerdict, SignedHashVerdict

-----------------------------------------------------------------------------
(* The blocks of the audited verifier *)

\* The budgets of the six bundles keep to the fixed reasons.
LEMMA BundleBudgetsReason ==
  ASSUME NEW r, HoldsListings(r)
  PROVE  BundleBudgetsVerdict(r) \in AuditReasonIds
<1> DEFINE verdicts == r.component_verdicts
           Sized(bundle) == WithinBudget(Len(bundle.signatures) \in 2..3)
           Known(i) == Demand(/\ verdicts[i].component_id \in ComponentIds
                              /\ \A j \in 1..(i - 1) :
                                   verdicts[j].component_id # verdicts[i].component_id, {})
           Checks(i) == <<Known(i), Sized(verdicts[i].signature_bundle)>>
<1>1. \A i \in DOMAIN verdicts : FirstFailure(Checks(i)) \in AuditReasonIds
  BY SingleCheckReason, FirstFailure2 DEF Demand, WithinBudget, Require
<1>2. FirstFailure([i \in DOMAIN verdicts |-> FirstFailure(Checks(i))]) \in AuditReasonIds
  <2> HIDE DEF Checks
  <2> QED
    BY <1>1, ListingReason DEF HoldsListings
<1> DEFINE Count == WithinBudget(Len(verdicts) = Len(Components))
           Listed == FirstFailure([i \in DOMAIN verdicts |-> FirstFailure(Checks(i))])
           OfReceipt == Sized(r.signature_bundle)
<1>3. {Count, OfReceipt} \subseteq AuditReasonIds
  BY SingleCheckReason DEF WithinBudget, Require
<1>4. BundleBudgetsVerdict(r) = FirstFailure(<<Count, Listed, OfReceipt>>)
  BY DEF BundleBudgetsVerdict
<1> HIDE DEF Count, Listed, OfReceipt
<1>5. Listed \in AuditReasonIds
  BY <1>2 DEF Listed
<1>6. QED
  BY <1>3, <1>4, <1>5, FirstFailure3

\* So does the first try block of the verifier,
LEMMA SnapshotReason ==
  ASSUME NEW r, HoldsListings(r), NEW g, IsListing(g.entries)
  PROVE  SnapshotVerdict(r, g) \in AuditReasonIds
BY BundleBudgetsReason, RegistryBudgetReason, SingleCheckReason, FirstFailure5
DEF SnapshotVerdict, GraphVerdict, RegistryFloorVerdict, Demand, WithinBudget, Require

\* its four binding checks,
LEMMA BindingReason ==
  ASSUME NEW r
  PROVE  BindingVerdict(r) \in AuditReasonIds
<1>1. {"V4_REQUEST_MISMATCH", "V4_DOWNGRADE_REJECTED", "V4_CONTRACT_INVALID",
       "V4_CONTEXT_MISMATCH", "V4_POLICY_INVALID", Ok} \subseteq AuditReasonIds
  BY DEF AuditReasonIds
<1>2. QED
  BY <1>1, FirstFailure5 DEF BindingVerdict, Require

\* the header checks,
LEMMA HeaderReason ==
  ASSUME NEW r, NEW g
  PROVE  HeaderVerdict(r, g) \in AuditReasonIds
BY SingleCheckReason, FirstFailure4 DEF HeaderVerdict, Demand, Require

\* one iteration of the component loop,
LEMMA PrepareComponentReason ==
  ASSUME NEW c, IsListing(c.signature_bundle.signatures), NEW g
  PROVE  PrepareComponentVerdict(c, g) \in AuditReasonIds
BY ComponentPayloadReason, FreshnessReason, PrepareReason, SingleCheckReason, FirstFailure5
DEF PrepareComponentVerdict, ComponentContextVerdict, ComponentRegistryVerdict,
    Demand, Require

\* the checks on the callback plan,
LEMMA PlanReason ==
  ASSUME NEW plan, NEW words
  PROVE  PlanVerdict(plan, words) \in AuditReasonIds
BY SingleCheckReason, FirstFailure3
DEF PlanVerdict, PlanBudgetVerdict, Demand, WithinBudget, Require

\* the preparation of the receipt,
LEMMA PrepareReceiptReason ==
  ASSUME NEW r, HoldsListings(r), NEW g, NEW plan
  PROVE  PrepareReceiptVerdict(r, g, plan) \in AuditReasonIds
<1>1. IsListing(r.signature_bundle.signatures)
  BY DEF HoldsListings
<1>2. PrepareVerdict(r.signature_bundle, Orchestrator, g, VerificationTime, r.not_before, r.not_after)
        \in AuditReasonIds
  BY <1>1, PrepareReason
<1>3. QED
  BY <1>2, FreshnessReason, PlanReason, FirstFailure3 DEF PrepareReceiptVerdict

\* the payload block,
LEMMA PayloadReason ==
  ASSUME NEW r, HoldsListings(r)
  PROVE  PayloadVerdict(r) \in AuditReasonIds
<1> DEFINE verdicts == r.component_verdicts
           Signed(i) == SignedHashVerdict(verdicts[i])
<1>1. \A i \in DOMAIN verdicts : Signed(i) \in AuditReasonIds
  BY SingleCheckReason DEF SignedHashVerdict, Demand, Require
<1>2. FirstFailure([i \in DOMAIN verdicts |-> Signed(i)]) \in AuditReasonIds
  <2> HIDE DEF Signed
  <2> QED
    BY <1>1, ListingReason DEF HoldsListings
<1>3. QED
  BY <1>2, ReceiptSemanticsReason, SingleCheckReason, FirstFailure6
  DEF PayloadVerdict, ByteBudgetVerdict, SignedHashVerdict, Demand, WithinBudget, Require

\* the dry run,
LEMMA DryRunReason ==
  ASSUME NEW r, HoldsListings(r), NEW g, NEW plan
  PROVE  DryRunVerdict(r, g, plan) \in AuditReasonIds
BY PlanReason, ComponentListReason, ReceiptEnvelopeReason, SingleCheckReason, FirstFailure4
DEF DryRunVerdict, Demand, Require

\* and the final validation.
LEMMA FinalReason ==
  ASSUME NEW r, HoldsListings(r), NEW g, NEW plan
  PROVE  FinalVerdict(r, g, plan) \in AuditReasonIds
BY ComponentListReason, ReceiptEnvelopeReason, SingleCheckReason, FirstFailure4
DEF FinalVerdict, Demand, Require

-----------------------------------------------------------------------------
(* What a block that passes has established *)

\* A check passes exactly when its condition holds.
LEMMA CheckPasses ==
  ASSUME NEW condition \in BOOLEAN
  PROVE  /\ \A words : Demand(condition, words) = Ok <=> condition
         /\ WithinBudget(condition) = Ok <=> condition
<1>1. "V4_CONTRACT_INVALID" # Ok
  BY DEF Ok
<1>2. QED
  BY <1>1, SingleCheckReason DEF Demand, WithinBudget, Require

\* A loop over a listing passes exactly when every iteration does.
LEMMA ListingPasses ==
  ASSUME NEW list, IsListing(list), NEW checks, DOMAIN checks = DOMAIN list
  PROVE  FirstFailure(checks) = Ok <=> \A i \in DOMAIN list : checks[i] = Ok
BY FirstFailureExact DEF IsListing

\* The budgets: every bundle belongs to a component of its own.
LEMMA BundleBudgetsPass ==
  ASSUME NEW r, HoldsListings(r), BundleBudgetsVerdict(r) = Ok
  PROVE  LET verdicts == r.component_verdicts
         IN  /\ Len(verdicts) = Len(Components)
             /\ \A i \in DOMAIN verdicts :
                  /\ verdicts[i].component_id \in ComponentIds
                  /\ \A j \in 1..(i - 1) : verdicts[j].component_id # verdicts[i].component_id
<1> DEFINE verdicts == r.component_verdicts
           Sized(bundle) == WithinBudget(Len(bundle.signatures) \in 2..3)
           IsKnown(i) == /\ verdicts[i].component_id \in ComponentIds
                         /\ \A j \in 1..(i - 1) :
                              verdicts[j].component_id # verdicts[i].component_id
           Known(i) == Demand(IsKnown(i), {})
           Each == [i \in DOMAIN verdicts |->
                      FirstFailure(<<Known(i), Sized(verdicts[i].signature_bundle)>>)]
           Count == WithinBudget(Len(verdicts) = Len(Components))
           Listed == FirstFailure(Each)
           OfReceipt == Sized(r.signature_bundle)
<1>1. Count = Ok /\ Listed = Ok
  <2>1. FirstFailure(<<Count, Listed, OfReceipt>>) = Ok
    BY DEF BundleBudgetsVerdict
  <2> HIDE DEF Count, Listed, OfReceipt
  <2>2. QED
    BY <2>1, FirstFailure3
<1>2. \A i \in DOMAIN verdicts : Each[i] = Ok
  <2>1. IsListing(verdicts)
    BY DEF HoldsListings
  <2>2. DOMAIN Each = DOMAIN verdicts
    OBVIOUS
  <2> HIDE DEF Each, verdicts
  <2>3. QED
    BY <1>1, <2>1, <2>2, ListingPasses
<1>3. \A i \in DOMAIN verdicts : Known(i) = Ok
  <2> SUFFICES ASSUME NEW i \in DOMAIN verdicts PROVE Known(i) = Ok
    OBVIOUS
  <2>1. FirstFailure(<<Known(i), Sized(verdicts[i].signature_bundle)>>) = Ok
    BY <1>2
  <2> HIDE DEF Known, Sized
  <2>2. QED
    BY <2>1, FirstFailure2
<1>4. \A i \in DOMAIN verdicts : IsKnown(i)
  BY <1>3, CheckPasses
<1>5. Len(verdicts) = Len(Components)
  BY <1>1, CheckPasses
<1>6. QED
  BY <1>4, <1>5

\* The first loop over a bundle: only algorithms of the policy.
LEMMA BundlePasses ==
  ASSUME NEW now, NEW bundle, IsListing(bundle.signatures), NEW artifact, NEW expected_hash, NEW g,
         NEW not_before, NEW not_after, NEW accepted,
         BundleVerdict(bundle, artifact, expected_hash, g, now, not_before, not_after, accepted) = Ok
  PROVE  AlgorithmsOf(bundle) \subseteq Algorithms
<1> DEFINE entries  == DOMAIN bundle.signatures
           Entry(i) == BundleEntryVerdict(bundle, i, expected_hash, DomainTag(artifact))
           Each == [i \in entries |-> Entry(i)]
<1>1. FirstFailure(Each) = Ok
  BY FirstFailure5 DEF BundleVerdict
<1>2. \A i \in entries : Each[i] = Ok
  <2>1. DOMAIN Each = DOMAIN bundle.signatures
    OBVIOUS
  <2> HIDE DEF Each
  <2>2. QED
    BY <1>1, <2>1, ListingPasses
<1>3. \A i \in entries : Demand(bundle.signatures[i].algorithm \in Algorithms,
                                 {"signature", "algorithm"}) = Ok
  <2> SUFFICES ASSUME NEW i \in entries, BundleEntryVerdict(bundle, i, expected_hash,
                                                           DomainTag(artifact)) = Ok
               PROVE  Demand(bundle.signatures[i].algorithm \in Algorithms,
                             {"signature", "algorithm"}) = Ok
    BY <1>2
  <2>1. QED
    BY FirstFailure7 DEF BundleEntryVerdict
<1>4. ASSUME NEW i \in entries PROVE bundle.signatures[i].algorithm \in Algorithms
  <2> DEFINE supported == bundle.signatures[i].algorithm \in Algorithms
  <2>1. supported \in BOOLEAN /\ Demand(supported, {"signature", "algorithm"}) = Ok
    BY <1>3
  <2> HIDE DEF supported
  <2>2. supported
    BY <2>1, CheckPasses
  <2>3. QED
    BY <2>2 DEF supported
<1>5. QED
  BY <1>4 DEF AlgorithmsOf

\* A bundle that is prepared plans algorithms of the policy only;
LEMMA PreparePasses ==
  ASSUME NEW now, NEW bundle, IsListing(bundle.signatures), NEW artifact, NEW g,
         NEW not_before, NEW not_after,
         PrepareVerdict(bundle, artifact, g, now, not_before, not_after) = Ok
  PROVE  AlgorithmsOf(bundle) \subseteq Algorithms
<1>1. BundleVerdict(bundle, artifact, bundle.signatures[1].signed_payload_hash,
                    g, now, not_before, not_after, Algorithms) = Ok
  BY FirstFailure2 DEF PrepareVerdict
<1>2. QED
  BY <1>1, BundlePasses

\* so does the bundle of a component verdict,
LEMMA PrepareComponentPasses ==
  ASSUME NEW c, IsListing(c.signature_bundle.signatures), NEW g,
         PrepareComponentVerdict(c, g) = Ok
  PROVE  AlgorithmsOf(c.signature_bundle) \subseteq Algorithms
<1>1. PrepareVerdict(c.signature_bundle, c.component_id, g, VerificationTime, c.not_before, c.not_after) = Ok
  BY FirstFailure5 DEF PrepareComponentVerdict
<1>2. QED
  BY <1>1, PreparePasses

\* and the bundle of the receipt.
LEMMA PrepareReceiptPasses ==
  ASSUME NEW r, HoldsListings(r), NEW g, NEW plan, PrepareReceiptVerdict(r, g, plan) = Ok
  PROVE  AlgorithmsOf(r.signature_bundle) \subseteq Algorithms
<1>1. PrepareVerdict(r.signature_bundle, Orchestrator, g, VerificationTime, r.not_before, r.not_after) = Ok
  BY FirstFailure3 DEF PrepareReceiptVerdict
<1>2. QED
  BY <1>1, PreparePasses DEF HoldsListings

\* The plan that is run is one the call budgets admit.
LEMMA PlanPasses ==
  ASSUME NEW plan, NEW words, PlanVerdict(plan, words) = Ok
  PROVE  /\ {t[1] : t \in plan} = Artifacts
         /\ Cardinality(plan) <= MaxVerificationCalls
         /\ Cardinality({t \in plan : t[2] \in PqcAlgorithms}) <= MaxPqcCalls
<1> DEFINE covers == {t[1] : t \in plan} = Artifacts
           fits == /\ Cardinality(plan) <= MaxVerificationCalls
                   /\ Cardinality({t \in plan : t[2] \in PqcAlgorithms}) <= MaxPqcCalls
           Covering == Demand(covers, words)
           Bundled  == Demand(\A a \in Artifacts : Cardinality({t \in plan : t[1] = a}) \in 2..3,
                              words \cup {"signature"})
           Budgeted == WithinBudget(fits)
<1>1. Covering = Ok /\ Budgeted = Ok
  <2>1. FirstFailure(<<Covering, Bundled, Budgeted>>) = Ok
    BY DEF PlanVerdict, PlanBudgetVerdict
  <2> HIDE DEF Covering, Bundled, Budgeted
  <2>2. QED
    BY <2>1, FirstFailure3
<1>2. covers /\ fits
  BY <1>1, CheckPasses
<1>3. QED
  BY <1>2

\* The first try block passes only within the budgets of the six bundles,
LEMMA SnapshotPasses ==
  ASSUME NEW r, NEW g, SnapshotVerdict(r, g) = Ok
  PROVE  BundleBudgetsVerdict(r) = Ok
BY FirstFailure5 DEF SnapshotVerdict

\* and the dry run only with a plan that is complete and within budget.
LEMMA DryRunPasses ==
  ASSUME NEW r, NEW g, NEW plan, DryRunVerdict(r, g, plan) = Ok
  PROVE  PlanVerdict(plan, {}) = Ok
BY FirstFailure4 DEF DryRunVerdict

\* The first verdict of a component is its only one.
LEMMA BundleOfComponent ==
  ASSUME NEW r, HoldsListings(r), BundleBudgetsVerdict(r) = Ok,
         NEW i \in DOMAIN r.component_verdicts
  PROVE  LET c == r.component_verdicts[i]
         IN  c.component_id \in ComponentIds /\ BundleOf(r, c.component_id) = c.signature_bundle
<1> DEFINE verdicts == r.component_verdicts
           id == verdicts[i].component_id
           I  == {j \in 1..Len(verdicts) : verdicts[j].component_id = id}
<1>1. DOMAIN verdicts = 1..Len(verdicts) /\ Len(verdicts) \in Nat
  BY DEF HoldsListings, IsListing
<1>2. /\ id \in ComponentIds
      /\ \A j, k \in DOMAIN verdicts :
           verdicts[j].component_id = verdicts[k].component_id => j = k
  <2>1. \A k \in DOMAIN verdicts :
          /\ verdicts[k].component_id \in ComponentIds
          /\ \A j \in 1..(k - 1) : verdicts[j].component_id # verdicts[k].component_id
    BY BundleBudgetsPass
  <2>2. \A j, k \in 1..Len(verdicts) : j < k => j \in 1..(k - 1)
    BY <1>1
  <2>3. \A j, k \in 1..Len(verdicts) :
          verdicts[j].component_id = verdicts[k].component_id => ~(j < k)
    BY <1>1, <2>1, <2>2
  <2>4. QED
    BY <1>1, <2>1, <2>3
<1>3. I = {i}
  BY <1>1, <1>2
<1>4. SelectInSeq(verdicts, LAMBDA v : v.component_id = id) = i
  <2>1. Min({i}) = i
    BY <1>1 DEF Min
  <2>2. QED
    BY <1>3, <2>1 DEF SelectInSeq
<1>5. id # Orchestrator
  BY <1>2, ComponentsAssumption DEF ComponentIds, Orchestrator
<1>6. QED
  BY <1>2, <1>4, <1>5 DEF BundleOf, ComponentBundle

-----------------------------------------------------------------------------
(* What the checks ask *)

\* A check is its condition: all the classifier adds is a reason, never V4_VERIFY_OK.
LEMMA NoReasonIsOk == \A words : Classify(words) # Ok /\ "V4_CONTRACT_INVALID" # Ok
BY SingleCheckReason DEF Ok

\* A listing is empty when its length is zero.
LEMMA EmptyListing ==
  ASSUME NEW list, IsListing(list)
  PROVE  list = <<>> <=> Len(list) = 0
BY DEF IsListing

\* The header fields of a component verdict.
LEMMA ComponentPayloadExact ==
  ASSUME NEW c, c.faults \subseteq VerdictFaults
  PROVE  ComponentPayloadVerdict(c) = Ok <=> c.faults = {} /\ c.decision \in Decisions
<1>1. ComponentHeaderVerdict(c) = Ok <=>
        /\ "fields" \notin c.faults /\ "contract_version" \notin c.faults
        /\ "schema_version" \notin c.faults /\ "canonicalization_profile" \notin c.faults
        /\ "signature_policy" \notin c.faults /\ "fail_closed" \notin c.faults
        /\ c.decision \in Decisions
        /\ "metadata_type" \notin c.faults /\ "metadata" \notin c.faults
  BY NoReasonIsOk, FirstFailure9 DEF ComponentHeaderVerdict, Demand, Require
<1>2. ComponentFieldsVerdict(c) = Ok <=>
        /\ "request_id" \notin c.faults /\ "freshness_nonce" \notin c.faults
        /\ "not_before" \notin c.faults /\ "not_after" \notin c.faults
        /\ "reason_ids" \notin c.faults /\ "evidence_hash" \notin c.faults
        /\ "evidence_families" \notin c.faults
  BY NoReasonIsOk, FirstFailure7 DEF ComponentFieldsVerdict, Demand, Require
<1>3. ComponentPayloadVerdict(c) = Ok <=>
        ComponentHeaderVerdict(c) = Ok /\ ComponentFieldsVerdict(c) = Ok
  BY FirstFailure2 DEF ComponentPayloadVerdict
<1>4. QED
  BY <1>1, <1>2, <1>3 DEF VerdictFaults

\* What one entry of a bundle says of itself.
LEMMA EntryExact ==
  ASSUME NEW bundle, NEW i, NEW expected_hash, NEW expected_domain
  PROVE  LET entry == bundle.signatures[i]
         IN  BundleEntryVerdict(bundle, i, expected_hash, expected_domain) = Ok <=>
               /\ "fields" \notin entry.faults
               /\ entry.algorithm \in Algorithms
               /\ "profile" \notin entry.faults
               /\ \A j \in 1..(i - 1) : bundle.signatures[j].algorithm # entry.algorithm
               /\ \A j \in 1..(i - 1) : bundle.signatures[j].key # entry.key
               /\ entry.signed_payload_hash = expected_hash
               /\ entry.domain = expected_domain
BY NoReasonIsOk, FirstFailure7 DEF BundleEntryVerdict, Demand, Require

\* The window of an artifact.
LEMMA FreshnessExact ==
  ASSUME NEW now, NEW not_before, NEW not_after
  PROVE  FreshnessVerdict(now, not_before, not_after) = Ok <=>
           /\ not_before < not_after
           /\ not_before <= now /\ now <= not_after
BY NoReasonIsOk, FirstFailure2 DEF FreshnessVerdict, Demand, Require

\* No two keys of a registry have the same identity.
Distinct(g) ==
  \A i, j \in DOMAIN g.entries : KeyIdentity(g.entries[i]) = KeyIdentity(g.entries[j]) => i = j

\* load_key_registry.
KeyStands(entry) ==
  /\ entry.role \in SupportedRoles /\ entry.algorithm \in Algorithms
  /\ entry.not_before < entry.not_after /\ entry.status \in {"active", "revoked"}

\* A registry loads exactly when its entries stand and no two share an identity.
LEMMA LoadRegistryExact ==
  ASSUME NEW g, IsListing(g.entries)
  PROVE  LoadRegistryVerdict(g) = Ok
           <=> /\ g.schema = "shield.key_registry.v1" /\ g.entries # <<>>
               /\ \A i \in DOMAIN g.entries : KeyStands(g.entries[i])
               /\ Distinct(g)
<1> DEFINE entries == g.entries
           Entry(i) == RegistryEntryVerdict(entries, i)
           Each == [i \in DOMAIN entries |-> Entry(i)]
           New(i) == \A j \in 1..(i - 1) : KeyIdentity(entries[j]) # KeyIdentity(entries[i])
<1>1. DOMAIN entries = 1..Len(entries) /\ Len(entries) \in Nat
  BY DEF IsListing
<1>2. \A i \in DOMAIN entries : Entry(i) = Ok <=> KeyStands(entries[i]) /\ New(i)
  BY NoReasonIsOk, FirstFailure5 DEF RegistryEntryVerdict, Demand, Require, KeyStands
<1>3. FirstFailure(Each) = Ok <=> \A i \in DOMAIN entries : KeyStands(entries[i]) /\ New(i)
  <2>1. FirstFailure(Each) = Ok <=> \A i \in DOMAIN entries : Each[i] = Ok
    <3>1. DOMAIN Each = DOMAIN entries
      OBVIOUS
    <3> HIDE DEF Each
    <3>2. QED
      BY <3>1, ListingPasses
  <2>2. QED
    BY <1>2, <2>1
<1>4. LoadRegistryVerdict(g) = Ok <=>
        /\ g.schema = "shield.key_registry.v1" /\ g.entries # <<>>
        /\ FirstFailure(Each) = Ok
  BY NoReasonIsOk, FirstFailure3 DEF LoadRegistryVerdict, Demand, Require
<1>5. (\A i \in DOMAIN entries : New(i)) <=> Distinct(g)
  <2>1. \A i, j \in 1..Len(entries) : j \in 1..(i - 1) <=> j < i
    BY <1>1
  <2>2. \A i \in 1..Len(entries) : 1..(i - 1) \subseteq 1..Len(entries)
    BY <1>1
  <2>3. \A i, j \in 1..Len(entries) : i = j \/ i < j \/ j < i
    BY <1>1
  <2> DEFINE Same(i, j) == KeyIdentity(entries[j]) = KeyIdentity(entries[i])
  <2>4. \A i, j : Same(i, j) <=> Same(j, i)
    OBVIOUS
  <2>5. Distinct(g) <=> \A i, j \in 1..Len(entries) : Same(i, j) => i = j
    BY <1>1 DEF Distinct
  <2>6. \A i : New(i) <=> \A j \in 1..(i - 1) : ~Same(i, j)
    OBVIOUS
  <2> HIDE DEF Same, New
  <2>7. (\A i \in 1..Len(entries) : New(i))
          <=> \A i, j \in 1..Len(entries) : j < i => ~Same(i, j)
    BY <2>1, <2>2, <2>6
  <2>8. \A i \in 1..Len(entries) : ~(i < i)
    BY <1>1
  <2>9. QED
    BY <1>1, <2>3, <2>4, <2>5, <2>7, <2>8
<1>6. QED
  BY <1>3, <1>4, <1>5

\* The registry a caller passes, rebuilt within its budget and held to the floor.
LEMMA RegistryExact ==
  ASSUME NEW g, IsListing(g.entries)
  PROVE  RegistryBudgetVerdict(g) = Ok /\ RegistryFloorVerdict(g, MinimumRegistryVersion) = Ok
           <=> WellFormedRegistry(g)
<1> DEFINE entries == g.entries
<1>1. DOMAIN entries = 1..Len(entries) /\ Len(entries) \in Nat
  BY DEF IsListing
<1>2. RegistryBudgetVerdict(g) = Ok <=>
        /\ g.entries # <<>> /\ Len(g.entries) <= MaxRegistryEntries
        /\ g.schema = "shield.key_registry.v1" /\ LoadRegistryVerdict(g) = Ok
  BY NoReasonIsOk, FirstFailure4 DEF RegistryBudgetVerdict, Demand, WithinBudget, Require
<1>3. RegistryFloorVerdict(g, MinimumRegistryVersion) = Ok
        <=> g.registry_version >= MinimumRegistryVersion
  BY NoReasonIsOk DEF RegistryFloorVerdict, Demand, Require
<1>4. (\A i \in DOMAIN entries : KeyStands(entries[i])) <=> \A e \in ToSet(entries) : KeyStands(e)
  BY DEF ToSet
<1>5. entries # <<>> /\ Len(entries) <= MaxRegistryEntries
        <=> Len(entries) \in 1..MaxRegistryEntries
  <2>1. entries # <<>> <=> Len(entries) # 0
    BY <1>1, EmptyListing DEF IsListing
  <2>2. QED
    BY <1>1, <2>1, LimitsAssumption
<1>6. QED
  BY <1>2, <1>3, <1>4, <1>5, LoadRegistryExact DEF WellFormedRegistry, Distinct, KeyStands

\* In a registry without doubles the first key of an identity is its only one.
LEMMA KeyIndexFinds ==
  ASSUME NEW g, IsListing(g.entries), Distinct(g), NEW role, NEW key, NEW algorithm
  PROVE  LET found == KeyIndex(g, role, key, algorithm)
             Is(i) == KeyIdentity(g.entries[i]) = <<role, key, algorithm>>
         IN  \/ found = 0 /\ \A i \in DOMAIN g.entries : ~Is(i)
             \/ /\ found \in DOMAIN g.entries /\ found # 0
                /\ \A i \in DOMAIN g.entries : Is(i) <=> i = found
<1> DEFINE Is(i) == KeyIdentity(g.entries[i]) = <<role, key, algorithm>>
           I == {i \in 1..Len(g.entries) : Is(i)}
<1>1. DOMAIN g.entries = 1..Len(g.entries) /\ Len(g.entries) \in Nat
  BY DEF IsListing
<1>2. KeyIndex(g, role, key, algorithm) = IF I # {} THEN Min(I) ELSE 0
  BY DEF KeyIndex, SelectInSeq
<1>3. ASSUME NEW i \in I PROVE I = {i} /\ Min(I) = i /\ i # 0
  <2>1. \A j \in I : j = i
    BY <1>1 DEF Distinct
  <2>2. I = {i}
    BY <2>1
  <2>3. i \in Nat /\ i # 0
    BY <1>1
  <2>4. Min({i}) = i
    BY <2>3 DEF Min
  <2>5. QED
    BY <2>2, <2>3, <2>4
<1>4. CASE I = {}
  BY <1>1, <1>2, <1>4
<1>5. CASE I # {}
  <2>1. PICK i \in I : TRUE
    BY <1>5
  <2>2. I = {i} /\ KeyIndex(g, role, key, algorithm) = i /\ i # 0 /\ i \in DOMAIN g.entries
    BY <1>1, <1>2, <1>3, <2>1
  <2>3. \A j \in DOMAIN g.entries : Is(j) <=> j = i
    BY <1>1, <2>2
  <2>4. QED
    BY <2>2, <2>3
<1>6. QED
  BY <1>4, <1>5

\* The lookup of a key for an artifact that is in force now: it succeeds exactly
\* when the registry trusts the key for all of the artifact's life.
LEMMA FindKeyExact ==
  ASSUME NEW now \in Nat, NEW g, IsListing(g.entries), Distinct(g),
         \A i \in DOMAIN g.entries : IsInterval(g.entries[i]),
         NEW artifact, NEW entry, NEW not_before \in Nat, NEW not_after \in Nat,
         not_before < not_after,
         not_before <= now, now <= not_after
  PROVE  FindKeyVerdict(g, artifact, entry.key, entry.algorithm, now,
                        not_before, not_after) = Ok
           <=> TrustedFor(g, artifact, entry, not_before, not_after)
<1> DEFINE found == KeyIndex(g, artifact, entry.key, entry.algorithm)
           Is(i) == KeyIdentity(g.entries[i]) = <<artifact, entry.key, entry.algorithm>>
           k == g.entries[found]
           Covers(e) == e.not_before <= not_before /\ not_after <= e.not_after
           Looked(e) == /\ e.status = "active"
                        /\ e.not_before <= now /\ now <= e.not_after
                        /\ (e.not_before <= not_before /\ not_before <= e.not_after)
                        /\ e.not_before <= not_after /\ not_after <= e.not_after
<1>1. FindKeyVerdict(g, artifact, entry.key, entry.algorithm, now,
                     not_before, not_after) = Ok
        <=> found # 0 /\ Looked(k)
  BY NoReasonIsOk, FirstFailure3 DEF FindKeyVerdict, Demand, Require
<1>2. TrustedFor(g, artifact, entry, not_before, not_after) <=>
        \E i \in DOMAIN g.entries :
          Is(i) /\ g.entries[i].status = "active" /\ Covers(g.entries[i])
  BY DEF TrustedFor, ToSet
<1>3. ASSUME NEW i \in DOMAIN g.entries
      PROVE  Looked(g.entries[i]) <=> g.entries[i].status = "active" /\ Covers(g.entries[i])
  <2> DEFINE from == g.entries[i].not_before
             to   == g.entries[i].not_after
  <2>1. from \in Nat /\ to \in Nat /\ now \in Nat
    BY DEF IsInterval
  <2> HIDE DEF from, to
  <2>2. /\ from <= now /\ now <= to
        /\ (from <= not_before /\ not_before <= to)
        /\ from <= not_after /\ not_after <= to
        <=> from <= not_before /\ not_after <= to
    BY <2>1
  <2>3. QED
    BY <2>2 DEF from, to
<1>4. \/ found = 0 /\ \A i \in DOMAIN g.entries : ~Is(i)
      \/ /\ found \in DOMAIN g.entries /\ found # 0
         /\ \A i \in DOMAIN g.entries : Is(i) <=> i = found
  BY KeyIndexFinds
<1> HIDE DEF found, Is, Looked, Covers
<1>5. CASE found = 0 /\ \A i \in DOMAIN g.entries : ~Is(i)
  BY <1>1, <1>2, <1>5
<1>6. CASE /\ found \in DOMAIN g.entries /\ found # 0
           /\ \A i \in DOMAIN g.entries : Is(i) <=> i = found
  BY <1>1, <1>2, <1>3, <1>6
<1>7. QED
  BY <1>4, <1>5, <1>6

\* What verify_signature_bundle asks of a bundle, entry by entry.
Verifies(bundle, artifact, expected_hash, g, now, not_before, not_after, accepted) ==
  LET entry(i) == bundle.signatures[i]
  IN  /\ bundle.faults = {} /\ bundle.signatures # <<>>
      /\ \A i \in DOMAIN bundle.signatures :
           BundleEntryVerdict(bundle, i, expected_hash, DomainTag(artifact)) = Ok
      /\ InPolicyOrder(bundle)
      /\ RequiredAlgorithms \subseteq AlgorithmsOf(bundle)
      /\ \A i \in DOMAIN bundle.signatures :
           /\ FindKeyVerdict(g, artifact, entry(i).key, entry(i).algorithm, now,
                             not_before, not_after) = Ok
           /\ entry(i).algorithm \in accepted

\* Both loops of verify_signature_bundle.
LEMMA BundleExact ==
  ASSUME NEW bundle, IsListing(bundle.signatures), HasKnownFaults(bundle), NEW artifact,
         NEW expected_hash, NEW g, NEW now, NEW not_before, NEW not_after, NEW accepted
  PROVE  BundleVerdict(bundle, artifact, expected_hash, g, now, not_before, not_after, accepted)
           = Ok
         <=> Verifies(bundle, artifact, expected_hash, g, now, not_before, not_after, accepted)
<1> DEFINE entries  == DOMAIN bundle.signatures
           entry(i) == bundle.signatures[i]
           Entry(i) == BundleEntryVerdict(bundle, i, expected_hash, DomainTag(artifact))
           Found(i) == FindKeyVerdict(g, artifact, entry(i).key, entry(i).algorithm,
                                      now, not_before, not_after)
           Verified(i) == Demand(entry(i).algorithm \in accepted, {"signature"})
           First  == [i \in entries |-> Entry(i)]
           Second == [i \in entries |-> FirstFailure(<<Found(i), Verified(i)>>)]
<1>1. BundleShapeVerdict(bundle) = Ok <=> bundle.faults = {} /\ bundle.signatures # <<>>
  <2>1. BundleShapeVerdict(bundle) = Ok <=>
          /\ "fields" \notin bundle.faults /\ "schema" \notin bundle.faults
          /\ "policy" \notin bundle.faults /\ bundle.signatures # <<>>
    BY NoReasonIsOk, FirstFailure4 DEF BundleShapeVerdict, Demand, Require
  <2>2. QED
    BY <2>1 DEF HasKnownFaults, BundleFaults
<1>2. FirstFailure(First) = Ok <=> \A i \in entries : Entry(i) = Ok
  <2>1. DOMAIN First = entries /\ \A i \in entries : First[i] = Entry(i)
    OBVIOUS
  <2> HIDE DEF First, Entry
  <2>2. QED
    BY <2>1, ListingPasses
<1>3. \A i \in entries : FirstFailure(<<Found(i), Verified(i)>>) = Ok
                          <=> Found(i) = Ok /\ entry(i).algorithm \in accepted
  <2>1. \A i : Verified(i) = Ok <=> entry(i).algorithm \in accepted
    BY NoReasonIsOk DEF Demand, Require
  <2> HIDE DEF Found, Verified
  <2>2. QED
    BY <2>1, FirstFailure2
<1>4. FirstFailure(Second) = Ok
        <=> \A i \in entries : Found(i) = Ok /\ entry(i).algorithm \in accepted
  <2>1. /\ DOMAIN Second = entries
        /\ \A i \in entries : Second[i] = FirstFailure(<<Found(i), Verified(i)>>)
    OBVIOUS
  <2> HIDE DEF Second, Found, Verified
  <2>2. FirstFailure(Second) = Ok <=> \A i \in entries : Second[i] = Ok
    BY <2>1, ListingPasses
  <2>3. QED
    BY <1>3, <2>1, <2>2, Zenon
<1> DEFINE Ordered  == Demand(InPolicyOrder(bundle), {"signature", "algorithm", "policy"})
           Required == Demand(RequiredAlgorithms \subseteq AlgorithmsOf(bundle),
                              {"signature", "policy"})
<1>5. /\ Ordered = Ok <=> InPolicyOrder(bundle)
      /\ Required = Ok <=> RequiredAlgorithms \subseteq AlgorithmsOf(bundle)
  BY NoReasonIsOk DEF Demand, Require
<1>6. BundleVerdict(bundle, artifact, expected_hash, g, now, not_before, not_after, accepted)
        = FirstFailure(<<BundleShapeVerdict(bundle), FirstFailure(First), Ordered, Required,
                         FirstFailure(Second)>>)
  BY DEF BundleVerdict
<1> HIDE DEF First, Second, Ordered, Required, Entry, Found
<1>7. BundleVerdict(bundle, artifact, expected_hash, g, now, not_before, not_after, accepted) = Ok
        <=> /\ BundleShapeVerdict(bundle) = Ok /\ FirstFailure(First) = Ok /\ Ordered = Ok
            /\ Required = Ok /\ FirstFailure(Second) = Ok
  BY <1>6, FirstFailure5
<1>8. BundleVerdict(bundle, artifact, expected_hash, g, now, not_before, not_after, accepted) = Ok
        <=> /\ bundle.faults = {} /\ bundle.signatures # <<>>
            /\ \A i \in entries : Entry(i) = Ok
            /\ InPolicyOrder(bundle)
            /\ RequiredAlgorithms \subseteq AlgorithmsOf(bundle)
            /\ \A i \in entries : Found(i) = Ok /\ entry(i).algorithm \in accepted
  BY <1>1, <1>2, <1>4, <1>5, <1>7, Zenon
<1>9. QED
  BY <1>8, Zenon DEF Verifies, Entry, Found

\* The algorithms of a bundle, one entry after the other.
Suite(bundle) == [i \in DOMAIN bundle.signatures |-> bundle.signatures[i].algorithm]

PolicySuites == {<<"classical-ed25519", "ml-dsa">>, <<"classical-ed25519", "ml-dsa", "fn-dsa">>}

\* Two or three entries in policy order that hold the required algorithms are the
\* required ones and then, at most, the optional one.
LEMMA PolicyOrderExact ==
  ASSUME NEW bundle, IsListing(bundle.signatures), Len(bundle.signatures) \in 2..3,
         \A i \in DOMAIN bundle.signatures : bundle.signatures[i].algorithm \in Algorithms,
         InPolicyOrder(bundle), RequiredAlgorithms \subseteq AlgorithmsOf(bundle)
  PROVE  Suite(bundle) \in PolicySuites
<1> DEFINE n == Len(bundle.signatures)
           a(i) == bundle.signatures[i].algorithm
           s == Suite(bundle)
<1>1. DOMAIN bundle.signatures = 1..n /\ n \in {2, 3}
  BY DEF IsListing
<1>2. s = [i \in 1..n |-> a(i)]
  BY <1>1 DEF Suite
<1>3. \A i \in 1..n : a(i) \in {"classical-ed25519", "ml-dsa", "fn-dsa"}
  BY <1>1 DEF Algorithms
<1>4. \A i, j \in 1..n : i < j => AlgorithmRank(a(i)) < AlgorithmRank(a(j))
  BY <1>1 DEF InPolicyOrder
<1>5. PICK c \in 1..n : a(c) = "classical-ed25519"
  BY <1>1 DEF RequiredAlgorithms, AlgorithmsOf
<1>6. PICK m \in 1..n : a(m) = "ml-dsa"
  BY <1>1 DEF RequiredAlgorithms, AlgorithmsOf
<1>7. /\ AlgorithmRank("classical-ed25519") = 0 /\ AlgorithmRank("ml-dsa") = 1
      /\ AlgorithmRank("fn-dsa") = 2
  BY DEF AlgorithmRank
<1> HIDE DEF a
<1>8. \A i \in 1..n : AlgorithmRank(a(i)) \in 0..2
  BY <1>3, <1>7
<1>9. \A i \in 1..n : ~(i < c)
  BY <1>1, <1>4, <1>5, <1>7, <1>8
<1>10. c = 1
  <2>1. 1 \in 1..n
    BY <1>1
  <2>2. QED
    BY <1>9, <2>1
<1>11. m = 2
  <2>1. m # 1
    BY <1>5, <1>6, <1>10
  <2>2. 2 \in 1..n
    <3>1. n = 2 \/ n = 3
      BY <1>1
    <3> HIDE DEF n
    <3>2. QED
      BY <3>1
  <2>3. ASSUME 2 < m PROVE FALSE
    <3>1. AlgorithmRank(a(1)) = 0 /\ AlgorithmRank(a(2)) \in 0..2 /\ AlgorithmRank(a(m)) = 1
      BY <1>5, <1>6, <1>7, <1>8, <1>10, <2>2
    <3>2. 1 \in 1..n /\ 2 \in 1..n /\ m \in 1..n /\ 1 < 2
      BY <1>10, <2>2
    <3>3. AlgorithmRank(a(1)) < AlgorithmRank(a(2)) /\ AlgorithmRank(a(2)) < AlgorithmRank(a(m))
      BY <1>4, <2>3, <3>2
    <3> HIDE DEF n
    <3>4. QED
      BY <3>1, <3>3
  <2>4. QED
    BY <2>1, <2>3
<1>12. CASE n = 2
  <2>1. s = <<a(1), a(2)>>
    BY <1>2, <1>12
  <2>2. QED
    BY <1>5, <1>6, <1>10, <1>11, <2>1 DEF PolicySuites
<1>13. CASE n = 3
  <2>1. s = <<a(1), a(2), a(3)>>
    BY <1>2, <1>13
  <2>2. a(3) = "fn-dsa"
    <3>1. AlgorithmRank(a(2)) < AlgorithmRank(a(3)) /\ AlgorithmRank(a(2)) = 1
      BY <1>4, <1>6, <1>7, <1>11, <1>13
    <3>2. a(3) \in {"classical-ed25519", "ml-dsa", "fn-dsa"}
      BY <1>3, <1>13
    <3>3. QED
      BY <1>7, <3>1, <3>2
  <2>3. QED
    BY <1>5, <1>6, <1>10, <1>11, <2>1, <2>2 DEF PolicySuites
<1>14. QED
  BY <1>1, <1>12, <1>13

\* Such a suite is complete, in policy order, and names no algorithm twice.
LEMMA SuiteExact ==
  ASSUME NEW bundle, IsListing(bundle.signatures), Suite(bundle) \in PolicySuites
  PROVE  /\ Len(bundle.signatures) \in 2..3
         /\ \A i \in DOMAIN bundle.signatures : bundle.signatures[i].algorithm \in Algorithms
         /\ \A i, j \in DOMAIN bundle.signatures :
              bundle.signatures[i].algorithm = bundle.signatures[j].algorithm => i = j
         /\ InPolicyOrder(bundle) /\ RequiredAlgorithms \subseteq AlgorithmsOf(bundle)
<1> DEFINE n == Len(bundle.signatures)
           a(i) == bundle.signatures[i].algorithm
           s == Suite(bundle)
<1>1. DOMAIN bundle.signatures = 1..n /\ n \in Nat
  BY DEF IsListing
<1>2. DOMAIN s = 1..n /\ \A i \in 1..n : s[i] = a(i)
  BY <1>1 DEF Suite
<1>3. /\ AlgorithmRank("classical-ed25519") = 0 /\ AlgorithmRank("ml-dsa") = 1
      /\ AlgorithmRank("fn-dsa") = 2
  BY DEF AlgorithmRank
<1>4. \/ n = 2 /\ s[1] = "classical-ed25519" /\ s[2] = "ml-dsa"
      \/ n = 3 /\ s[1] = "classical-ed25519" /\ s[2] = "ml-dsa" /\ s[3] = "fn-dsa"
  <2>1. CASE s = <<"classical-ed25519", "ml-dsa">>
    <3>1. DOMAIN s = 1..2 /\ s[1] = "classical-ed25519" /\ s[2] = "ml-dsa"
      BY <2>1
    <3>2. n = 2
      BY <1>1, <1>2, <3>1
    <3>3. QED
      BY <3>1, <3>2
  <2>2. CASE s = <<"classical-ed25519", "ml-dsa", "fn-dsa">>
    <3>1. /\ DOMAIN s = 1..3
          /\ s[1] = "classical-ed25519" /\ s[2] = "ml-dsa" /\ s[3] = "fn-dsa"
      BY <2>2
    <3>2. n = 3
      BY <1>1, <1>2, <3>1
    <3>3. QED
      BY <3>1, <3>2
  <2>3. QED
    BY <2>1, <2>2 DEF PolicySuites
<1> HIDE DEF s, n, a
<1>5. \A i \in 1..n :
        \/ i = 1 /\ s[i] = "classical-ed25519"
        \/ i = 2 /\ s[i] = "ml-dsa"
        \/ i = 3 /\ s[i] = "fn-dsa"
  <2>1. n = 2 \/ n = 3
    BY <1>4, Zenon
  <2>2. \A i \in 1..n : i = 1 \/ i = 2 \/ (i = 3 /\ n = 3)
    BY <2>1
  <2>3. n = 3 => n # 2
    OBVIOUS
  <2>4. s[1] = "classical-ed25519" /\ s[2] = "ml-dsa" /\ (n = 3 => s[3] = "fn-dsa")
    BY <1>4, <2>3, Zenon
  <2>5. QED
    BY <2>2, <2>4, Zenon
<1>6. \A i \in 1..n :
        \/ i = 1 /\ a(i) = "classical-ed25519" /\ AlgorithmRank(a(i)) = 0
        \/ i = 2 /\ a(i) = "ml-dsa" /\ AlgorithmRank(a(i)) = 1
        \/ i = 3 /\ a(i) = "fn-dsa" /\ AlgorithmRank(a(i)) = 2
  BY <1>2, <1>3, <1>5, Zenon
<1>7. n \in 2..3 /\ 1 \in 1..n /\ 2 \in 1..n
  BY <1>4
<1>8. \A i \in 1..n : a(i) \in Algorithms
  BY <1>6 DEF Algorithms
<1>9. \A i, j \in 1..n : a(i) = a(j) => i = j
  BY <1>6
<1>10. \A i, j \in 1..n : i < j => AlgorithmRank(a(i)) < AlgorithmRank(a(j))
  BY <1>6
<1>11. RequiredAlgorithms \subseteq AlgorithmsOf(bundle)
  <2>1. a(1) = "classical-ed25519" /\ a(2) = "ml-dsa"
    BY <1>6, <1>7
  <2>2. QED
    BY <1>1, <1>7, <2>1 DEF RequiredAlgorithms, AlgorithmsOf, a
<1>12. DOMAIN bundle.signatures = 1..n
  BY <1>1
<1>13. InPolicyOrder(bundle)
  BY <1>10, <1>12, Zenon DEF InPolicyOrder, a
<1>14. QED
  BY <1>7, <1>8, <1>9, <1>11, <1>12, <1>13, Zenon DEF n, a

\* A list that is scanned for an earlier double has none: no two of its values agree.
LEMMA DistinctExact ==
  ASSUME NEW n \in Nat, NEW s
  PROVE  (\A i \in 1..n : \A j \in 1..(i - 1) : s[j] # s[i])
           <=> \A i, j \in 1..n : s[i] = s[j] => i = j
<1>1. \A i, j \in 1..n : j \in 1..(i - 1) <=> j < i
  OBVIOUS
<1>2. \A i \in 1..n : 1..(i - 1) \subseteq 1..n
  OBVIOUS
<1>3. \A i, j \in 1..n : i = j \/ i < j \/ j < i
  OBVIOUS
<1>4. \A i \in 1..n : ~(i < i)
  OBVIOUS
<1>5. QED
  BY <1>1, <1>2, <1>3, <1>4

\* Every entry of a bundle stands for itself exactly when none has a fault, all are
\* of the policy, and no two share an algorithm or a key.
LEMMA EntriesExact ==
  ASSUME NEW bundle, IsListing(bundle.signatures), HasKnownFaults(bundle), NEW artifact
  PROVE  LET entries  == DOMAIN bundle.signatures
             entry(i) == bundle.signatures[i]
         IN  /\ \A i \in entries : "signature" \notin entry(i).faults
             /\ \A i \in entries : BundleEntryVerdict(bundle, i, "own", DomainTag(artifact)) = Ok
             <=>
             /\ \A i \in entries :
                  /\ entry(i).faults = {} /\ entry(i).algorithm \in Algorithms
                  /\ entry(i).signed_payload_hash = "own" /\ entry(i).domain = DomainTag(artifact)
             /\ \A i, j \in entries : entry(i).algorithm = entry(j).algorithm => i = j
             /\ \A i, j \in entries : entry(i).key = entry(j).key => i = j
<1> DEFINE n == Len(bundle.signatures)
           entry(i) == bundle.signatures[i]
           algorithms == [i \in 1..n |-> entry(i).algorithm]
           keys == [i \in 1..n |-> entry(i).key]
           Stands(i) == /\ entry(i).algorithm \in Algorithms
                        /\ entry(i).signed_payload_hash = "own"
                        /\ entry(i).domain = DomainTag(artifact)
           Sound(i) == BundleEntryVerdict(bundle, i, "own", DomainTag(artifact)) = Ok
           Text(i) == "signature" \notin entry(i).faults
           Whole(i) == entry(i).faults = {}
           NewAlgorithm(i) == \A j \in 1..(i - 1) : algorithms[j] # algorithms[i]
           NewKey(i) == \A j \in 1..(i - 1) : keys[j] # keys[i]
<1>1. DOMAIN bundle.signatures = 1..n /\ n \in Nat
  BY DEF IsListing
<1>2. \A i \in 1..n : 1..(i - 1) \subseteq 1..n
  BY <1>1
<1>3. ASSUME NEW i \in 1..n
      PROVE  Text(i) /\ Sound(i) <=> Whole(i) /\ Stands(i) /\ NewAlgorithm(i) /\ NewKey(i)
  <2>1. Sound(i) <=> /\ "fields" \notin entry(i).faults /\ "profile" \notin entry(i).faults
                     /\ Stands(i)
                     /\ \A j \in 1..(i - 1) : entry(j).algorithm # entry(i).algorithm
                     /\ \A j \in 1..(i - 1) : entry(j).key # entry(i).key
    BY EntryExact
  <2>2. Whole(i) <=> /\ "fields" \notin entry(i).faults /\ "profile" \notin entry(i).faults
                     /\ Text(i)
    BY <1>1 DEF HasKnownFaults, EntryFaults
  <2>3. /\ NewAlgorithm(i) <=> \A j \in 1..(i - 1) : entry(j).algorithm # entry(i).algorithm
        /\ NewKey(i) <=> \A j \in 1..(i - 1) : entry(j).key # entry(i).key
    <3>1. \A j \in 1..(i - 1) : j \in 1..n
      BY <1>2, Zenon
    <3>2. /\ \A j \in 1..n : algorithms[j] = entry(j).algorithm
          /\ \A j \in 1..n : keys[j] = entry(j).key
      OBVIOUS
    <3> HIDE DEF algorithms, keys, entry
    <3>3. QED
      BY <3>1, <3>2, Zenon
  <2> HIDE DEF Sound, Whole, Text, Stands, NewAlgorithm, NewKey
  <2>4. QED
    BY <2>1, <2>2, <2>3, Zenon
<1>4. /\ (\A i \in 1..n : NewAlgorithm(i))
           <=> \A i, j \in 1..n : algorithms[i] = algorithms[j] => i = j
      /\ (\A i \in 1..n : NewKey(i)) <=> \A i, j \in 1..n : keys[i] = keys[j] => i = j
  <2> HIDE DEF algorithms, keys
  <2> QED
    BY <1>1, DistinctExact
<1>5. \A i \in 1..n : algorithms[i] = entry(i).algorithm /\ keys[i] = entry(i).key
  OBVIOUS
<1> HIDE DEF algorithms, keys, Sound, Text, Whole, Stands, NewAlgorithm, NewKey
<1>6. (\A i \in 1..n : Text(i)) /\ (\A i \in 1..n : Sound(i))
        <=> /\ \A i \in 1..n : Whole(i) /\ Stands(i)
            /\ \A i \in 1..n : NewAlgorithm(i)
            /\ \A i \in 1..n : NewKey(i)
  BY <1>3, Zenon
<1>7. /\ (\A i, j \in 1..n : algorithms[i] = algorithms[j] => i = j)
           <=> \A i, j \in 1..n : entry(i).algorithm = entry(j).algorithm => i = j
      /\ (\A i, j \in 1..n : keys[i] = keys[j] => i = j)
           <=> \A i, j \in 1..n : entry(i).key = entry(j).key => i = j
  BY <1>5
<1>8. /\ \A i \in 1..n : Text(i)
      /\ \A i \in 1..n : Sound(i)
      <=>
      /\ \A i \in 1..n : Whole(i) /\ Stands(i)
      /\ \A i, j \in 1..n : entry(i).algorithm = entry(j).algorithm => i = j
      /\ \A i, j \in 1..n : entry(i).key = entry(j).key => i = j
  BY <1>4, <1>6, <1>7, Zenon
<1>9. QED
  BY <1>1, <1>8, Zenon DEF Sound, Text, Whole, Stands

\* A registry that was loaded from a caller's: a listing without doubles, of intervals.
Loaded(g) ==
  /\ IsListing(g.entries) /\ Distinct(g)
  /\ \A i \in DOMAIN g.entries : IsInterval(g.entries[i])

\* A bundle within the budget, whose artifact is in force, whose signatures are texts and
\* which verify_signature_bundle accepts.
Clears(bundle, artifact, g, not_before, not_after, accepted) ==
  /\ Len(bundle.signatures) \in 2..3
  /\ FreshnessVerdict(VerificationTime, not_before, not_after) = Ok
  /\ \A i \in DOMAIN bundle.signatures : "signature" \notin bundle.signatures[i].faults
  /\ BundleVerdict(bundle, artifact, "own", g, VerificationTime, not_before, not_after, accepted)
       = Ok

\* Such a bundle is admissible, and the verifier accepted each of its algorithms; and no
\* other bundle is.
LEMMA BundleAdmission ==
  ASSUME NEW bundle, IsListing(bundle.signatures), HasKnownFaults(bundle), NEW artifact,
         NEW g, Loaded(g), NEW not_before \in Nat, NEW not_after \in Nat, NEW accepted
  PROVE  Clears(bundle, artifact, g, not_before, not_after, accepted)
         <=> (/\ AdmissibleBundle(bundle, artifact, g, not_before, not_after)
              /\ AlgorithmsOf(bundle) \subseteq accepted)
<1> DEFINE entries == DOMAIN bundle.signatures
           entry(i) == bundle.signatures[i]
           Sized == Len(bundle.signatures) \in 2..3
           Current == /\ not_before < not_after
                     /\ not_before <= VerificationTime /\ VerificationTime <= not_after
           Texts == \A i \in entries : "signature" \notin entry(i).faults
           Sound == \A i \in entries : BundleEntryVerdict(bundle, i, "own", DomainTag(artifact)) = Ok
           Whole(i) == /\ entry(i).faults = {} /\ entry(i).algorithm \in Algorithms
                       /\ entry(i).signed_payload_hash = "own"
                       /\ entry(i).domain = DomainTag(artifact)
           Stands == \A i \in entries : Whole(i)
           OneAlgorithmEach == \A i, j \in entries : entry(i).algorithm = entry(j).algorithm => i = j
           OneKeyEach == \A i, j \in entries : entry(i).key = entry(j).key => i = j
           Complete == InPolicyOrder(bundle) /\ RequiredAlgorithms \subseteq AlgorithmsOf(bundle)
           Found(i) == FindKeyVerdict(g, artifact, entry(i).key, entry(i).algorithm,
                                      VerificationTime, not_before, not_after) = Ok
           Trusted(i) == TrustedFor(g, artifact, entry(i), not_before, not_after)
           Verified(i) == entry(i).algorithm \in accepted
           InForce == FreshnessVerdict(VerificationTime, not_before, not_after) = Ok
           Accepts == BundleVerdict(bundle, artifact, "own", g, VerificationTime, not_before, not_after, accepted) = Ok
           Suited == Suite(bundle) \in PolicySuites
<1>1. InForce <=> Current
  BY FreshnessExact
<1>2. Accepts <=> /\ bundle.faults = {} /\ bundle.signatures # <<>> /\ Sound /\ Complete
                  /\ \A i \in entries : Found(i) /\ Verified(i)
  <2>1. Accepts <=> Verifies(bundle, artifact, "own", g, VerificationTime, not_before, not_after,
                             accepted)
    BY BundleExact
  <2> HIDE DEF Accepts
  <2>2. QED
    BY <2>1 DEF Verifies
<1>3. Texts /\ Sound <=> Stands /\ OneAlgorithmEach /\ OneKeyEach
  BY EntriesExact
<1>4. Current => \A i \in entries : Found(i) <=> Trusted(i)
  BY FindKeyExact, LimitsAssumption DEF Loaded
<1>5. Sized /\ Stands /\ Complete => Suited
  BY PolicyOrderExact
<1>6. Suited => Sized /\ OneAlgorithmEach /\ Complete /\ \A i \in entries : entry(i).algorithm \in Algorithms
  BY SuiteExact
<1>7. Sized => bundle.signatures # <<>>
  <2>1. Sized => Len(bundle.signatures) # 0
    OBVIOUS
  <2>2. QED
    BY <2>1, EmptyListing
<1>8. AlgorithmsOf(bundle) \subseteq accepted <=> \A i \in entries : Verified(i)
  BY DEF AlgorithmsOf
<1>9. AdmissibleBundle(bundle, artifact, g, not_before, not_after)
        <=> /\ bundle.faults = {} /\ Suited /\ OneKeyEach /\ Current
            /\ \A i \in entries : /\ entry(i).faults = {} /\ entry(i).signed_payload_hash = "own"
                                  /\ entry(i).domain = DomainTag(artifact) /\ Trusted(i)
  BY DEF AdmissibleBundle, Suite, PolicySuites, ToSet
<1> HIDE DEF Sized, Current, Texts, Sound, OneAlgorithmEach, OneKeyEach, Complete, Found, Trusted,
             Verified, InForce, Accepts, Suited, entry, entries
<1>10. Sized /\ InForce /\ Texts /\ Accepts
         <=> /\ AdmissibleBundle(bundle, artifact, g, not_before, not_after)
             /\ AlgorithmsOf(bundle) \subseteq accepted
  BY <1>1, <1>2, <1>3, <1>4, <1>5, <1>6, <1>7, <1>8, <1>9, Zenon
<1>11. QED
  BY <1>10, Zenon DEF Clears, Sized, InForce, Texts, Accepts, entries, entry

\* The preparation of a bundle takes the first entry's hash for the expected one.
LEMMA PrepareExact ==
  ASSUME NEW bundle, IsListing(bundle.signatures), NEW artifact, NEW g,
         NEW not_before, NEW not_after
  PROVE  PrepareVerdict(bundle, artifact, g, VerificationTime, not_before, not_after) = Ok
           <=> /\ \A i \in DOMAIN bundle.signatures :
                    "signature" \notin bundle.signatures[i].faults
               /\ BundleVerdict(bundle, artifact, bundle.signatures[1].signed_payload_hash,
                                g, VerificationTime, not_before, not_after, Algorithms) = Ok
<1> DEFINE Text(i) == "signature" \notin bundle.signatures[i].faults
           Checked(i) == Demand(Text(i), {"signature"})
           Each == [i \in DOMAIN bundle.signatures |-> Checked(i)]
           Accepts == BundleVerdict(bundle, artifact, bundle.signatures[1].signed_payload_hash,
                                    g, VerificationTime, not_before, not_after, Algorithms)
<1>1. PrepareVerdict(bundle, artifact, g, VerificationTime, not_before, not_after)
        = FirstFailure(<<FirstFailure(Each), Accepts>>)
  BY DEF PrepareVerdict
<1>2. \A i : Checked(i) = Ok <=> Text(i)
  BY NoReasonIsOk DEF Demand, Require
<1>3. DOMAIN Each = DOMAIN bundle.signatures
      /\ \A i \in DOMAIN bundle.signatures : Each[i] = Checked(i)
  OBVIOUS
<1> HIDE DEF Each, Accepts, Checked, Text
<1>4. FirstFailure(Each) = Ok <=> \A i \in DOMAIN bundle.signatures : Each[i] = Ok
  BY <1>3, ListingPasses
<1>5. PrepareVerdict(bundle, artifact, g, VerificationTime, not_before, not_after) = Ok
        <=> FirstFailure(Each) = Ok /\ Accepts = Ok
  BY <1>1, FirstFailure2
<1>6. QED
  BY <1>2, <1>3, <1>4, <1>5, Zenon DEF Accepts, Text

\* An admissible bundle is prepared: its first entry's hash is its artifact's own.
LEMMA PrepareAdmits ==
  ASSUME NEW bundle, IsListing(bundle.signatures), HasKnownFaults(bundle), NEW artifact,
         NEW g, Loaded(g), NEW not_before \in Nat, NEW not_after \in Nat,
         AdmissibleBundle(bundle, artifact, g, not_before, not_after)
  PROVE  PrepareVerdict(bundle, artifact, g, VerificationTime, not_before, not_after) = Ok
<1>1. AlgorithmsOf(bundle) \subseteq Algorithms
  <2>1. Suite(bundle) \in PolicySuites
    BY DEF AdmissibleBundle, Suite, PolicySuites
  <2>2. \A i \in DOMAIN bundle.signatures : bundle.signatures[i].algorithm \in Algorithms
    BY <2>1, SuiteExact
  <2>3. QED
    BY <2>2 DEF AlgorithmsOf
<1>2. /\ Len(bundle.signatures) \in 2..3
      /\ \A i \in DOMAIN bundle.signatures : "signature" \notin bundle.signatures[i].faults
      /\ BundleVerdict(bundle, artifact, "own", g, VerificationTime, not_before, not_after,
                       Algorithms) = Ok
  <2>1. Clears(bundle, artifact, g, not_before, not_after, Algorithms)
    BY <1>1, BundleAdmission
  <2>2. QED
    BY <2>1, Zenon DEF Clears
<1>3. 1 \in DOMAIN bundle.signatures
  BY <1>2 DEF IsListing
<1>4. bundle.signatures[1].signed_payload_hash = "own"
  BY <1>3 DEF AdmissibleBundle, ToSet
<1>5. QED
  BY <1>2, <1>4, PrepareExact

\* The budgets: one verdict per component, and two or three signatures per bundle.
LEMMA BundleBudgetsExact ==
  ASSUME NEW r, HoldsListings(r)
  PROVE  LET verdicts == r.component_verdicts
         IN  BundleBudgetsVerdict(r) = Ok <=>
               /\ Len(verdicts) = Len(Components)
               /\ \A i \in DOMAIN verdicts :
                    /\ verdicts[i].component_id \in ComponentIds
                    /\ \A j \in 1..(i - 1) :
                         verdicts[j].component_id # verdicts[i].component_id
                    /\ Len(verdicts[i].signature_bundle.signatures) \in 2..3
               /\ Len(r.signature_bundle.signatures) \in 2..3
<1> DEFINE verdicts == r.component_verdicts
           TwoOrThree(bundle) == Len(bundle.signatures) \in 2..3
           Sized(bundle) == WithinBudget(TwoOrThree(bundle))
           IsKnown(i) == /\ verdicts[i].component_id \in ComponentIds
                         /\ \A j \in 1..(i - 1) :
                              verdicts[j].component_id # verdicts[i].component_id
           Known(i) == Demand(IsKnown(i), {})
           Each == [i \in DOMAIN verdicts |->
                      FirstFailure(<<Known(i), Sized(verdicts[i].signature_bundle)>>)]
           Count == WithinBudget(Len(verdicts) = Len(Components))
           OfReceipt == Sized(r.signature_bundle)
<1>1. BundleBudgetsVerdict(r) = FirstFailure(<<Count, FirstFailure(Each), OfReceipt>>)
  BY DEF BundleBudgetsVerdict
<1>2. /\ Count = Ok <=> Len(verdicts) = Len(Components)
      /\ \A bundle : Sized(bundle) = Ok <=> TwoOrThree(bundle)
      /\ \A i : Known(i) = Ok <=> IsKnown(i)
  BY NoReasonIsOk DEF Demand, WithinBudget, Require
<1>3. /\ IsListing(verdicts) /\ DOMAIN Each = DOMAIN verdicts
      /\ \A i \in DOMAIN verdicts :
           Each[i] = FirstFailure(<<Known(i), Sized(verdicts[i].signature_bundle)>>)
  BY DEF HoldsListings
<1> HIDE DEF verdicts, Each, Count, Sized, Known, IsKnown, TwoOrThree
<1>4. FirstFailure(Each) = Ok
        <=> \A i \in DOMAIN verdicts : IsKnown(i) /\ TwoOrThree(verdicts[i].signature_bundle)
  <2>1. FirstFailure(Each) = Ok <=> \A i \in DOMAIN verdicts : Each[i] = Ok
    BY <1>3, ListingPasses
  <2>2. \A i \in DOMAIN verdicts :
          Each[i] = Ok <=> Known(i) = Ok /\ Sized(verdicts[i].signature_bundle) = Ok
    BY <1>3, FirstFailure2
  <2>3. QED
    BY <1>2, <2>1, <2>2, Zenon
<1>5. BundleBudgetsVerdict(r) = Ok
        <=> Count = Ok /\ FirstFailure(Each) = Ok /\ OfReceipt = Ok
  BY <1>1, FirstFailure3
<1>6. QED
  BY <1>2, <1>4, <1>5, Zenon DEF verdicts, IsKnown, TwoOrThree

\* As many verdicts as components: they are all of known components and none has a
\* double, if and only if every component has its verdict.
LEMMA ComponentsOnce ==
  ASSUME NEW verdicts, IsListing(verdicts), Len(verdicts) = Len(Components)
  PROVE  (\A i \in DOMAIN verdicts :
            /\ verdicts[i].component_id \in ComponentIds
            /\ \A j \in 1..(i - 1) : verdicts[j].component_id # verdicts[i].component_id)
         <=> {c.component_id : c \in ToSet(verdicts)} = ComponentIds
<1> DEFINE n == Len(Components)
           id == [i \in 1..n |-> verdicts[i].component_id]
           named == [i \in 1..n |-> Components[i]]
           ids == {c.component_id : c \in ToSet(verdicts)}
<1>1. n \in Nat /\ DOMAIN verdicts = 1..n /\ DOMAIN Components = 1..n
  BY ComponentsAssumption DEF IsListing
<1>2. IsFiniteSet(1..n) /\ Cardinality(1..n) = n
  <2> HIDE DEF n
  <2>1. 0 \in Int /\ 1 \in Int /\ n \in Int /\ (1 > n => n = 0) /\ n - 1 + 1 = n
    BY <1>1
  <2>2. /\ IsFiniteSet(1..n)
        /\ Cardinality(1..n) = IF 1 > n THEN 0 ELSE n - 1 + 1
    BY <2>1, FS_Interval
  <2>3. QED
    BY <2>1, <2>2
<1>3. named \in Surjection(1..n, ComponentIds) /\ named \in Injection(1..n, ComponentIds)
  BY <1>1, ComponentsAssumption DEF ComponentIds, Surjection, Injection, IsInjective
<1>4. IsFiniteSet(ComponentIds) /\ Cardinality(ComponentIds) = n
  BY <1>2, <1>3, FS_Surjection
<1>5. ids = {id[i] : i \in 1..n}
  BY <1>1 DEF ToSet
<1>6. (\A i \in 1..n : \A j \in 1..(i - 1) : id[j] # id[i])
        <=> \A i, j \in 1..n : id[i] = id[j] => i = j
  <2> HIDE DEF id, n
  <2> QED
    BY <1>1, DistinctExact
<1>7. ASSUME \A i \in 1..n : id[i] \in ComponentIds,
             \A i, j \in 1..n : id[i] = id[j] => i = j
      PROVE  ids = ComponentIds
  <2>1. id \in Injection(1..n, ComponentIds)
    BY <1>7 DEF Injection, IsInjective
  <2>2. id \in Surjection(1..n, ComponentIds)
    BY <1>2, <1>4, <2>1, FS_Injection
  <2>3. \A x \in ComponentIds : \E i \in 1..n : id[i] = x
    BY <2>2 DEF Surjection
  <2> HIDE DEF id, ids
  <2>4. QED
    BY <1>5, <1>7, <2>3
<1>8. ASSUME ids = ComponentIds
      PROVE  /\ \A i \in 1..n : id[i] \in ComponentIds
             /\ \A i, j \in 1..n : id[i] = id[j] => i = j
  <2>1. id \in Surjection(1..n, ComponentIds)
    BY <1>5, <1>8 DEF Surjection
  <2>2. id \in Injection(1..n, ComponentIds)
    BY <1>2, <1>4, <2>1, FS_Surjection
  <2>3. QED
    BY <1>5, <1>8, <2>2 DEF Injection, IsInjective
<1>9. (\A i \in 1..n : id[i] \in ComponentIds /\ \A j \in 1..(i - 1) : id[j] # id[i])
        <=> ids = ComponentIds
  <2> HIDE DEF id, ids, n
  <2> QED
    BY <1>6, <1>7, <1>8, Zenon
<1>10. \A i \in 1..n : /\ id[i] = verdicts[i].component_id
                       /\ \A j \in 1..(i - 1) : id[j] = verdicts[j].component_id
  <2>1. \A i \in 1..n : 1..(i - 1) \subseteq 1..n
    BY <1>1
  <2>2. QED
    BY <2>1
<1> HIDE DEF id, n
<1>11. QED
  BY <1>1, <1>9, <1>10

-----------------------------------------------------------------------------
(* What the blocks ask *)

\* The first try block.
LEMMA SnapshotExact ==
  ASSUME NEW r, NEW g, IsListing(g.entries)
  PROVE  SnapshotVerdict(r, g) = Ok
           <=> /\ "graph" \notin r.faults /\ "fields" \notin r.faults
               /\ BundleBudgetsVerdict(r) = Ok /\ WellFormedRegistry(g)
<1> DEFINE Shaped == Demand("fields" \notin r.faults, {"field", "schema"})
<1>1. /\ GraphVerdict(r) = Ok <=> "graph" \notin r.faults
      /\ Shaped = Ok <=> "fields" \notin r.faults
  BY NoReasonIsOk DEF GraphVerdict, Demand, WithinBudget, Require
<1>2. SnapshotVerdict(r, g)
        = FirstFailure(<<GraphVerdict(r), Shaped, BundleBudgetsVerdict(r),
                         RegistryBudgetVerdict(g),
                         RegistryFloorVerdict(g, MinimumRegistryVersion)>>)
  BY DEF SnapshotVerdict
<1> HIDE DEF Shaped
<1>3. SnapshotVerdict(r, g) = Ok
        <=> /\ GraphVerdict(r) = Ok /\ Shaped = Ok /\ BundleBudgetsVerdict(r) = Ok
            /\ RegistryBudgetVerdict(g) = Ok
            /\ RegistryFloorVerdict(g, MinimumRegistryVersion) = Ok
  BY <1>2, FirstFailure5
<1>4. QED
  BY <1>1, <1>3, RegistryExact, Zenon

\* The bindings.
LEMMA BindingExact ==
  ASSUME NEW r
  PROVE  BindingVerdict(r) = Ok
           <=> /\ r.request_id = ExpectedRequestId /\ r.schema_version = "shield.receipt.v2"
               /\ r.context_hash = ExpectedContextHash /\ r.signature_policy = "policy.v1"
<1>1. /\ "V4_REQUEST_MISMATCH" # Ok /\ "V4_DOWNGRADE_REJECTED" # Ok
      /\ "V4_CONTRACT_INVALID" # Ok /\ "V4_CONTEXT_MISMATCH" # Ok /\ "V4_POLICY_INVALID" # Ok
  BY DEF Ok
<1>2. QED
  BY <1>1, FirstFailure5 DEF BindingVerdict, Require

\* The header.
LEMMA HeaderExact ==
  ASSUME NEW r, NEW g
  PROVE  HeaderVerdict(r, g) = Ok
           <=> /\ "contract_version" \notin r.faults /\ "canonicalization_profile" \notin r.faults
               /\ "fail_closed" \notin r.faults /\ r.key_registry_version = g.registry_version
BY NoReasonIsOk, FirstFailure4 DEF HeaderVerdict, Demand, Require

\* The body of the component loop.
LEMMA PrepareComponentExact ==
  ASSUME NEW c, NEW g
  PROVE  PrepareComponentVerdict(c, g) = Ok
           <=> /\ ComponentPayloadVerdict(c) = Ok /\ c.context_hash = ExpectedContextHash
               /\ c.key_registry_version = g.registry_version
               /\ FreshnessVerdict(VerificationTime, c.not_before, c.not_after) = Ok
               /\ PrepareVerdict(c.signature_bundle, c.component_id, g, VerificationTime, c.not_before,
                                 c.not_after) = Ok
BY NoReasonIsOk, FirstFailure5
DEF PrepareComponentVerdict, ComponentContextVerdict, ComponentRegistryVerdict, Demand, Require

\* The plan.
LEMMA PlanExact ==
  ASSUME NEW plan, NEW words
  PROVE  PlanVerdict(plan, words) = Ok
           <=> /\ {t[1] : t \in plan} = Artifacts
               /\ \A a \in Artifacts : Cardinality({t \in plan : t[1] = a}) \in 2..3
               /\ Cardinality(plan) <= MaxVerificationCalls
               /\ Cardinality({t \in plan : t[2] \in PqcAlgorithms}) <= MaxPqcCalls
BY NoReasonIsOk, FirstFailure3
DEF PlanVerdict, PlanBudgetVerdict, Demand, WithinBudget, Require

\* The preparation of the receipt.
LEMMA PrepareReceiptExact ==
  ASSUME NEW r, NEW g, NEW plan
  PROVE  PrepareReceiptVerdict(r, g, plan) = Ok
           <=> /\ FreshnessVerdict(VerificationTime, r.not_before, r.not_after) = Ok
               /\ PrepareVerdict(r.signature_bundle, Orchestrator, g, VerificationTime, r.not_before,
                                 r.not_after) = Ok
               /\ PlanVerdict(plan, {"hash"}) = Ok
BY FirstFailure3 DEF PrepareReceiptVerdict

\* What _validate_component_verdicts_for_receipt asks of a verdict by itself.
Fits(verdict) ==
  /\ verdict.component_id \in ComponentIds
  /\ "contract_version" \notin verdict.faults /\ "schema_version" \notin verdict.faults
  /\ verdict.context_hash = ExpectedContextHash
  /\ verdict.decision \in Decisions

\* The list of verdicts of a receipt.
LEMMA ReceiptListExact ==
  ASSUME NEW list, IsListing(list)
  PROVE  ReceiptListVerdict(list) = Ok
           <=> /\ Len(list) = Len(Components)
               /\ \A i \in DOMAIN list : Fits(list[i])
               /\ \A i \in DOMAIN list :
                    \A j \in 1..(i - 1) : list[j].component_id # list[i].component_id
<1> DEFINE IsNew(i) == \A j \in 1..(i - 1) : list[j].component_id # list[i].component_id
           Checked(i) == FirstFailure(<<
             Demand(list[i].component_id \in ComponentIds, {}),
             Demand(IsNew(i), {}),
             Demand("contract_version" \notin list[i].faults, {"contract"}),
             Demand("schema_version" \notin list[i].faults, {"schema"}),
             Demand(list[i].context_hash = ExpectedContextHash, {"context"}),
             Demand(list[i].decision \in Decisions, {}) >>)
           Each == [i \in DOMAIN list |-> Checked(i)]
           Count == Demand(Len(list) = Len(Components), {})
<1>1. ReceiptListVerdict(list) = FirstFailure(<<Count, FirstFailure(Each)>>)
  BY DEF ReceiptListVerdict
<1>2. Count = Ok <=> Len(list) = Len(Components)
  BY NoReasonIsOk DEF Demand, Require
<1>3. \A i : Checked(i) = Ok <=> Fits(list[i]) /\ IsNew(i)
  BY NoReasonIsOk, FirstFailure6 DEF Demand, Require, Fits
<1>4. DOMAIN Each = DOMAIN list /\ \A i \in DOMAIN list : Each[i] = Checked(i)
  OBVIOUS
<1> HIDE DEF IsNew, Checked, Each, Count
<1>5. FirstFailure(Each) = Ok <=> \A i \in DOMAIN list : Each[i] = Ok
  BY <1>4, ListingPasses
<1>6. ReceiptListVerdict(list) = Ok <=> Count = Ok /\ FirstFailure(Each) = Ok
  BY <1>1, FirstFailure2
<1>7. ReceiptListVerdict(list) = Ok
        <=> /\ Len(list) = Len(Components)
            /\ \A i \in DOMAIN list : Fits(list[i])
            /\ \A i \in DOMAIN list : IsNew(i)
  BY <1>2, <1>3, <1>4, <1>5, <1>6, Zenon
<1>8. QED
  BY <1>7, Zenon DEF IsNew

\* The semantics of a receipt.
LEMMA SemanticsExact ==
  ASSUME NEW r
  PROVE  ReceiptSemanticsVerdict(r) = Ok
           <=> /\ "freshness_nonce" \notin r.faults /\ "dominant_reason_ids" \notin r.faults
               /\ "adamantineos_handoff" \notin r.faults
               /\ ReceiptListVerdict(r.component_verdicts) = Ok
               /\ SignatureResultsVerdict(r.component_signature_results) = Ok
               /\ r.final_outcome \in FinalOutcomes
               /\ r.final_outcome = ExpectedFinalOutcome(r.component_verdicts)
               /\ r.final_outcome = "ALLOW" \/ ~r.handoff_allowed
BY NoReasonIsOk, FirstFailure8 DEF ReceiptSemanticsVerdict, Demand, Require

\* The payload block.
LEMMA PayloadExact ==
  ASSUME NEW r, IsListing(r.component_verdicts)
  PROVE  PayloadVerdict(r) = Ok
           <=> /\ ReceiptSemanticsVerdict(r) = Ok
               /\ r.component_signature_results = ExpectedSignatureResults(r.component_verdicts)
               /\ "bytes" \notin r.faults
               /\ r.receipt_hash = "own" /\ r.signed_payload_hash = "own"
               /\ \A i \in DOMAIN r.component_verdicts :
                    r.component_verdicts[i].signed_payload_hash = "own"
<1> DEFINE verdicts == r.component_verdicts
           Own(artifact) == artifact.signed_payload_hash = "own"
           Matches == r.component_signature_results = ExpectedSignatureResults(verdicts)
           Matched == Demand(Matches, {})
           Hashed == Demand(r.receipt_hash = "own", {"hash"})
           Each == [i \in DOMAIN verdicts |-> SignedHashVerdict(verdicts[i])]
<1>1. PayloadVerdict(r)
        = FirstFailure(<<ReceiptSemanticsVerdict(r), Matched, ByteBudgetVerdict(r), Hashed,
                         SignedHashVerdict(r), FirstFailure(Each)>>)
  BY DEF PayloadVerdict
<1>2. /\ Matched = Ok <=> Matches
      /\ ByteBudgetVerdict(r) = Ok <=> "bytes" \notin r.faults
      /\ Hashed = Ok <=> r.receipt_hash = "own"
      /\ \A artifact : SignedHashVerdict(artifact) = Ok <=> Own(artifact)
  BY NoReasonIsOk DEF ByteBudgetVerdict, SignedHashVerdict, Demand, WithinBudget, Require
<1>3. /\ DOMAIN Each = DOMAIN verdicts
      /\ \A i \in DOMAIN verdicts : Each[i] = SignedHashVerdict(verdicts[i])
  OBVIOUS
<1> HIDE DEF Matches, Matched, Hashed, Each, Own
<1>4. FirstFailure(Each) = Ok <=> \A i \in DOMAIN verdicts : Each[i] = Ok
  BY <1>3, ListingPasses
<1>5. PayloadVerdict(r) = Ok
        <=> /\ ReceiptSemanticsVerdict(r) = Ok /\ Matched = Ok /\ ByteBudgetVerdict(r) = Ok
            /\ Hashed = Ok /\ SignedHashVerdict(r) = Ok /\ FirstFailure(Each) = Ok
  BY <1>1, FirstFailure6
<1>6. PayloadVerdict(r) = Ok
        <=> /\ ReceiptSemanticsVerdict(r) = Ok /\ Matches /\ "bytes" \notin r.faults
            /\ r.receipt_hash = "own" /\ Own(r) /\ \A i \in DOMAIN verdicts : Own(verdicts[i])
  BY <1>2, <1>3, <1>4, <1>5, Zenon
<1>7. QED
  BY <1>6, Zenon DEF Matches, Own

\* The envelope of a component verdict.
LEMMA ComponentEnvelopeExact ==
  ASSUME NEW c, NEW g, NEW now, NEW accepted
  PROVE  ComponentEnvelopeVerdict(c, g, now, accepted) = Ok
           <=> /\ ComponentPayloadVerdict(c) = Ok /\ c.context_hash = ExpectedContextHash
               /\ c.signed_payload_hash = "own"
               /\ c.key_registry_version = g.registry_version
               /\ BundleVerdict(c.signature_bundle, c.component_id, "own", g, now,
                                c.not_before, c.not_after, accepted) = Ok
<1> DEFINE Envelope == ComponentEnvelopeVerdict(c, g, now, accepted)
           Bundle == BundleVerdict(c.signature_bundle, c.component_id, "own", g, now,
                                   c.not_before, c.not_after, accepted)
<1>1. Envelope = FirstFailure(<<ComponentPayloadVerdict(c), ComponentContextVerdict(c),
                       SignedHashVerdict(c), ComponentRegistryVerdict(c, g), Bundle>>)
  BY DEF ComponentEnvelopeVerdict
<1>2. /\ ComponentContextVerdict(c) = Ok <=> c.context_hash = ExpectedContextHash
      /\ SignedHashVerdict(c) = Ok <=> c.signed_payload_hash = "own"
      /\ ComponentRegistryVerdict(c, g) = Ok <=> c.key_registry_version = g.registry_version
  BY NoReasonIsOk
  DEF ComponentContextVerdict, SignedHashVerdict, ComponentRegistryVerdict, Demand, Require
<1> HIDE DEF Envelope, Bundle
<1>3. Envelope = Ok <=> /\ ComponentPayloadVerdict(c) = Ok /\ ComponentContextVerdict(c) = Ok
                        /\ SignedHashVerdict(c) = Ok /\ ComponentRegistryVerdict(c, g) = Ok
                        /\ Bundle = Ok
  BY <1>1, FirstFailure5
<1>4. QED
  BY <1>2, <1>3, Zenon DEF Envelope, Bundle

\* The bundles of other components leave a component its answers.
LEMMA OthersLeaveAnswers ==
  ASSUME NEW tokens, NEW verdicts, NEW i,
         \A j \in 1..(i - 1) : verdicts[j].component_id # verdicts[i].component_id
  PROVE  LET id == verdicts[i].component_id
         IN  Accepted(id, Remaining(tokens, verdicts, i)) = Accepted(id, tokens)
<1> DEFINE id == verdicts[i].component_id
           Taken(j) == {verdicts[j].component_id} \X AlgorithmsOf(verdicts[j].signature_bundle)
<1>1. ASSUME NEW x, NEW j \in 1..(i - 1) PROVE <<id, x>> \notin Taken(j)
  OBVIOUS
<1>2. \A x : <<id, x>> \in Remaining(tokens, verdicts, i) <=> <<id, x>> \in tokens
  BY <1>1 DEF Remaining
<1>3. QED
  BY <1>2, Zenon DEF Accepted

\* The list of component verdicts.
LEMMA ComponentListExact ==
  ASSUME NEW verdicts, IsListing(verdicts), NEW g, NEW tokens
  PROVE  ComponentListVerdict(verdicts, g, VerificationTime, tokens) = Ok
           <=> /\ Len(verdicts) = Len(Components)
               /\ \A i \in DOMAIN verdicts :
                    LET c == verdicts[i]
                    IN  /\ ComponentPayloadVerdict(c) = Ok /\ c.context_hash = ExpectedContextHash
                        /\ c.signed_payload_hash = "own"
                        /\ c.key_registry_version = g.registry_version
                        /\ BundleVerdict(c.signature_bundle, c.component_id, "own", g,
                                         VerificationTime, c.not_before, c.not_after,
                                         Accepted(c.component_id, tokens)) = Ok
                        /\ \A j \in 1..(i - 1) : verdicts[j].component_id # c.component_id
<1> DEFINE Bundle(c) == BundleVerdict(c.signature_bundle, c.component_id, "own", g,
                                      VerificationTime, c.not_before, c.not_after,
                                      Accepted(c.component_id, tokens))
           Envelope(c) == ComponentEnvelopeVerdict(c, g, VerificationTime, Accepted(c.component_id, tokens))
           Asked(i) == ComponentEnvelopeVerdict(verdicts[i], g, VerificationTime,
                         Accepted(verdicts[i].component_id, Remaining(tokens, verdicts, i)))
           Enveloped(c) == /\ ComponentPayloadVerdict(c) = Ok
                           /\ c.context_hash = ExpectedContextHash
                           /\ c.signed_payload_hash = "own"
                           /\ c.key_registry_version = g.registry_version /\ Bundle(c) = Ok
           IsNew(i) == \A j \in 1..(i - 1) : verdicts[j].component_id # verdicts[i].component_id
           New(i) == Demand(IsNew(i), {})
           Each == [i \in DOMAIN verdicts |-> FirstFailure(<<Asked(i), New(i)>>)]
           Count == Demand(Len(verdicts) = Len(Components), {})
<1>1. ComponentListVerdict(verdicts, g, VerificationTime, tokens) = FirstFailure(<<Count, FirstFailure(Each)>>)
  BY DEF ComponentListVerdict
<1>2. \A c : Envelope(c) = Ok <=> Enveloped(c)
  BY ComponentEnvelopeExact, Zenon
<1>3. /\ \A i : New(i) = Ok <=> IsNew(i)
      /\ Count = Ok <=> Len(verdicts) = Len(Components)
  BY NoReasonIsOk DEF Demand, Require
<1>4. /\ DOMAIN Each = DOMAIN verdicts
      /\ \A i \in DOMAIN verdicts : Each[i] = FirstFailure(<<Asked(i), New(i)>>)
  OBVIOUS
<1>5. \A i : IsNew(i) => Asked(i) = Envelope(verdicts[i])
  BY OthersLeaveAnswers
<1> HIDE DEF Envelope, Enveloped, Asked, IsNew, New, Each, Count
<1>6. FirstFailure(Each) = Ok <=> \A i \in DOMAIN verdicts : Each[i] = Ok
  BY <1>4, ListingPasses
<1>7. \A i \in DOMAIN verdicts : Each[i] = Ok <=> Asked(i) = Ok /\ New(i) = Ok
  BY <1>4, FirstFailure2
<1>8. \A i \in DOMAIN verdicts : Each[i] = Ok <=> Enveloped(verdicts[i]) /\ IsNew(i)
  BY <1>2, <1>3, <1>5, <1>7
<1>9. ComponentListVerdict(verdicts, g, VerificationTime, tokens) = Ok <=> Count = Ok /\ FirstFailure(Each) = Ok
  BY <1>1, FirstFailure2
<1>10. ComponentListVerdict(verdicts, g, VerificationTime, tokens) = Ok
         <=> /\ Len(verdicts) = Len(Components)
             /\ \A i \in DOMAIN verdicts : Enveloped(verdicts[i]) /\ IsNew(i)
  BY <1>3, <1>6, <1>8, <1>9, Zenon
<1>11. QED
  BY <1>10, Zenon DEF Enveloped, IsNew

\* The envelope of the receipt.
LEMMA ReceiptEnvelopeExact ==
  ASSUME NEW now, NEW r, NEW g, NEW tokens
  PROVE  ReceiptEnvelopeVerdict(r, g, now, tokens) = Ok
           <=> /\ "fields" \notin r.faults /\ r.schema_version = "shield.receipt.v2"
               /\ "contract_version" \notin r.faults /\ "fail_closed" \notin r.faults
               /\ "canonicalization_profile" \notin r.faults /\ r.signature_policy = "policy.v1"
               /\ r.context_hash = ExpectedContextHash /\ ReceiptSemanticsVerdict(r) = Ok
               /\ r.receipt_hash = "own" /\ r.signed_payload_hash = "own"
               /\ r.key_registry_version = g.registry_version
               /\ BundleVerdict(r.signature_bundle, Orchestrator, "own", g, now, r.not_before,
                                r.not_after, Accepted(Orchestrator, tokens)) = Ok
BY NoReasonIsOk, FirstFailure12
DEF ReceiptEnvelopeVerdict, SignedHashVerdict, Demand, Require

\* The dry run.
LEMMA DryRunExact ==
  ASSUME NEW r, NEW g, NEW plan
  PROVE  DryRunVerdict(r, g, plan) = Ok
           <=> /\ PlanVerdict(plan, {}) = Ok
               /\ ComponentListVerdict(r.component_verdicts, g, VerificationTime, plan) = Ok
               /\ ReceiptEnvelopeVerdict(r, g, VerificationTime, plan) = Ok
               /\ plan \subseteq Tokens(r)
BY NoReasonIsOk, FirstFailure4 DEF DryRunVerdict, Demand, Require

\* The summaries of the component bundles.
LEMMA SignatureResultsExact ==
  ASSUME NEW results, IsListing(results)
  PROVE  SignatureResultsVerdict(results) = Ok
           <=> /\ Len(results) = Len(Components)
               /\ \A i \in DOMAIN results :
                    LET algorithms == results[i].algorithms
                    IN  /\ results[i].component_id \in ComponentIds
                        /\ \A j \in 1..(i - 1) : results[j].component_id # results[i].component_id
                        /\ results[i].verified
                        /\ \A k, l \in DOMAIN algorithms : algorithms[k] = algorithms[l] => k = l
                        /\ RequiredAlgorithms \subseteq ToSet(algorithms)
                        /\ ToSet(algorithms) \subseteq Algorithms
<1> DEFINE algorithms(i) == results[i].algorithms
           IsKnown(i) == results[i].component_id \in ComponentIds
           IsNew(i) == \A j \in 1..(i - 1) : results[j].component_id # results[i].component_id
           IsVerified(i) == results[i].verified
           IsSuite(i) == /\ \A k, l \in DOMAIN algorithms(i) :
                              algorithms(i)[k] = algorithms(i)[l] => k = l
                         /\ RequiredAlgorithms \subseteq ToSet(algorithms(i))
                         /\ ToSet(algorithms(i)) \subseteq Algorithms
           Checks(i) == <<Demand(IsKnown(i), {"signature"}), Demand(IsNew(i), {"signature"}),
                          Demand(IsVerified(i), {"signature"}),
                          Demand(IsSuite(i), {"signature", "algorithm"})>>
           Each == [i \in DOMAIN results |-> FirstFailure(Checks(i))]
           Count == Demand(Len(results) = Len(Components), {"signature"})
<1>1. SignatureResultsVerdict(results) = FirstFailure(<<Count, FirstFailure(Each)>>)
  BY DEF SignatureResultsVerdict
<1>2. Count = Ok <=> Len(results) = Len(Components)
  BY NoReasonIsOk DEF Demand, Require
<1>3. ASSUME NEW i
      PROVE  FirstFailure(Checks(i)) = Ok <=> IsKnown(i) /\ IsNew(i) /\ IsVerified(i) /\ IsSuite(i)
  <2> HIDE DEF IsKnown, IsNew, IsVerified, IsSuite
  <2> QED
    BY NoReasonIsOk, FirstFailure4 DEF Demand, Require
<1>4. /\ DOMAIN Each = DOMAIN results
      /\ \A i \in DOMAIN results : Each[i] = FirstFailure(Checks(i))
  OBVIOUS
<1> HIDE DEF Each, Count, Checks, IsKnown, IsNew, IsVerified, IsSuite
<1>5. FirstFailure(Each) = Ok <=> \A i \in DOMAIN results : Each[i] = Ok
  BY <1>4, ListingPasses
<1>6. SignatureResultsVerdict(results) = Ok <=> Count = Ok /\ FirstFailure(Each) = Ok
  BY <1>1, FirstFailure2
<1>7. SignatureResultsVerdict(results) = Ok
        <=> /\ Len(results) = Len(Components)
            /\ \A i \in DOMAIN results : IsKnown(i) /\ IsNew(i) /\ IsVerified(i) /\ IsSuite(i)
  BY <1>2, <1>3, <1>4, <1>5, <1>6, Zenon
<1>8. QED
  BY <1>7, Zenon DEF IsKnown, IsNew, IsVerified, IsSuite

-----------------------------------------------------------------------------
(* The blocks together *)

\* A bundle that passes its preparation and the real validator is admissible, and
\* the validator's verifier accepted each of its algorithms; and no other passes.
LEMMA PreparedAdmission ==
  ASSUME NEW bundle, IsListing(bundle.signatures), HasKnownFaults(bundle), NEW artifact,
         NEW g, Loaded(g), NEW not_before \in Nat, NEW not_after \in Nat, NEW accepted
  PROVE  (/\ Len(bundle.signatures) \in 2..3
          /\ FreshnessVerdict(VerificationTime, not_before, not_after) = Ok
          /\ PrepareVerdict(bundle, artifact, g, VerificationTime, not_before, not_after) = Ok
          /\ BundleVerdict(bundle, artifact, "own", g, VerificationTime, not_before, not_after, accepted) = Ok)
         <=> (/\ AdmissibleBundle(bundle, artifact, g, not_before, not_after)
              /\ AlgorithmsOf(bundle) \subseteq accepted)
<1> DEFINE Sized == Len(bundle.signatures) \in 2..3
           InForce == FreshnessVerdict(VerificationTime, not_before, not_after) = Ok
           Texts == \A i \in DOMAIN bundle.signatures :
                      "signature" \notin bundle.signatures[i].faults
           Prepares == PrepareVerdict(bundle, artifact, g, VerificationTime, not_before, not_after) = Ok
           Accepts == BundleVerdict(bundle, artifact, "own", g, VerificationTime, not_before, not_after, accepted) = Ok
           Bundled == AdmissibleBundle(bundle, artifact, g, not_before, not_after)
           Within == AlgorithmsOf(bundle) \subseteq accepted
<1>1. Sized /\ InForce /\ Texts /\ Accepts <=> Bundled /\ Within
  <2>1. Clears(bundle, artifact, g, not_before, not_after, accepted) <=> Bundled /\ Within
    BY BundleAdmission
  <2>2. QED
    BY <2>1, Zenon DEF Clears
<1>2. Prepares => Texts
  <2>1. ASSUME Prepares PROVE Texts
    BY <2>1, PrepareExact
  <2>2. QED
    BY <2>1
<1>3. Bundled => Prepares
  BY PrepareAdmits
<1>4. QED
  BY <1>1, <1>2, <1>3

\* What is known of a component verdict of a receipt before it is checked.
IsComponentVerdict(c) ==
  /\ IsListing(c.signature_bundle.signatures) /\ HasKnownFaults(c.signature_bundle)
  /\ c.faults \subseteq VerdictFaults /\ IsInterval(c)

\* A component verdict passes its preparation and its envelope, hash and context
\* included, exactly when it is admissible and its signatures are accepted.
LEMMA ComponentAdmission ==
  ASSUME NEW c, IsComponentVerdict(c), NEW g, Loaded(g), NEW accepted
  PROVE  (/\ Len(c.signature_bundle.signatures) \in 2..3
          /\ PrepareComponentVerdict(c, g) = Ok
          /\ c.signed_payload_hash = "own"
          /\ BundleVerdict(c.signature_bundle, c.component_id, "own", g, VerificationTime, c.not_before,
                           c.not_after, accepted) = Ok)
         <=> (/\ AdmissibleComponent(c, g)
              /\ AlgorithmsOf(c.signature_bundle) \subseteq accepted)
<1> DEFINE Sized == Len(c.signature_bundle.signatures) \in 2..3
           InForce == FreshnessVerdict(VerificationTime, c.not_before, c.not_after) = Ok
           Prepares == PrepareVerdict(c.signature_bundle, c.component_id, g, VerificationTime, c.not_before,
                                       c.not_after) = Ok
           Accepts == BundleVerdict(c.signature_bundle, c.component_id, "own", g, VerificationTime, c.not_before,
                                    c.not_after, accepted) = Ok
           Bundled == AdmissibleBundle(c.signature_bundle, c.component_id, g, c.not_before,
                                       c.not_after)
           Within == AlgorithmsOf(c.signature_bundle) \subseteq accepted
<1>1. Sized /\ InForce /\ Prepares /\ Accepts <=> Bundled /\ Within
  <2>1. c.not_before \in Nat /\ c.not_after \in Nat
    BY DEF IsComponentVerdict, IsInterval
  <2>2. QED
    BY <2>1, PreparedAdmission DEF IsComponentVerdict
<1>2. PrepareComponentVerdict(c, g) = Ok
        <=> /\ c.faults = {} /\ c.decision \in Decisions /\ c.context_hash = ExpectedContextHash
            /\ c.key_registry_version = g.registry_version /\ InForce /\ Prepares
  BY PrepareComponentExact, ComponentPayloadExact DEF IsComponentVerdict
<1>3. AdmissibleComponent(c, g)
        <=> /\ c.faults = {} /\ c.context_hash = ExpectedContextHash
            /\ c.key_registry_version = g.registry_version /\ c.decision \in Decisions
            /\ c.signed_payload_hash = "own" /\ Bundled
  BY DEF AdmissibleComponent
<1> HIDE DEF Sized, InForce, Prepares, Accepts, Bundled, Within
<1>4. (Sized /\ PrepareComponentVerdict(c, g) = Ok /\ c.signed_payload_hash = "own" /\ Accepts)
        <=> AdmissibleComponent(c, g) /\ Within
  BY <1>1, <1>2, <1>3, Zenon
<1>5. QED
  BY <1>4, Zenon DEF Sized, Accepts, Within

\* Every cheap check of a call, on its receipt, registry and plan.
Passed(r, g, plan) ==
  /\ SnapshotVerdict(r, g) = Ok /\ BindingVerdict(r) = Ok /\ HeaderVerdict(r, g) = Ok
  /\ \A i \in DOMAIN r.component_verdicts :
       PrepareComponentVerdict(r.component_verdicts[i], g) = Ok
  /\ PrepareReceiptVerdict(r, g, plan) = Ok
  /\ PayloadVerdict(r) = Ok
  /\ DryRunVerdict(r, g, plan) = Ok

\* What a caller may pass.
IsInput(r, g) ==
  /\ HoldsListings(r) /\ IsWellTyped(r)
  /\ IsListing(g.entries) /\ \A i \in DOMAIN g.entries : IsInterval(g.entries[i])

\* Its parts, one by one.
LEMMA InputParts ==
  ASSUME NEW r, NEW g, IsInput(r, g)
  PROVE  /\ IsListing(r.component_verdicts)
         /\ \A i \in DOMAIN r.component_verdicts : IsComponentVerdict(r.component_verdicts[i])
         /\ IsListing(r.signature_bundle.signatures) /\ HasKnownFaults(r.signature_bundle)
         /\ r.not_before \in Nat /\ r.not_after \in Nat
         /\ r.faults \subseteq ReceiptFaults
         /\ WellFormedRegistry(g) => Loaded(g)
<1>1. /\ IsListing(r.component_verdicts) /\ IsListing(r.signature_bundle.signatures)
      /\ HasKnownFaults(r.signature_bundle) /\ r.faults \subseteq ReceiptFaults
      /\ r.not_before \in Nat /\ r.not_after \in Nat
  BY DEF IsInput, HoldsListings, IsWellTyped, IsInterval
<1>2. ASSUME NEW i \in DOMAIN r.component_verdicts
      PROVE  IsComponentVerdict(r.component_verdicts[i])
  BY DEF IsInput, HoldsListings, IsWellTyped, IsComponentVerdict
<1>3. WellFormedRegistry(g) => Loaded(g)
  BY DEF IsInput, WellFormedRegistry, Loaded, Distinct
<1>4. QED
  BY <1>1, <1>2, <1>3

\* A receipt is without fault when none of the nine places that look for one finds it.
LEMMA ReceiptFaultFree ==
  ASSUME NEW faults, faults \subseteq ReceiptFaults
  PROVE  faults = {} <=>
           /\ "graph" \notin faults /\ "fields" \notin faults /\ "contract_version" \notin faults
           /\ "canonicalization_profile" \notin faults /\ "fail_closed" \notin faults
           /\ "freshness_nonce" \notin faults /\ "dominant_reason_ids" \notin faults
           /\ "adamantineos_handoff" \notin faults /\ "bytes" \notin faults
BY DEF ReceiptFaults

\* What passes every cheap check is admissible.
LEMMA PassedIsAdmissible ==
  ASSUME NEW r, NEW g, IsInput(r, g), Passed(r, g, Tokens(r))
  PROVE  Admissible(r, g)
<1> DEFINE verdicts == r.component_verdicts
           plan == Tokens(r)
<1>1. /\ SnapshotVerdict(r, g) = Ok /\ BindingVerdict(r) = Ok /\ HeaderVerdict(r, g) = Ok
      /\ \A i \in DOMAIN verdicts : PrepareComponentVerdict(verdicts[i], g) = Ok
      /\ PrepareReceiptVerdict(r, g, plan) = Ok
      /\ PayloadVerdict(r) = Ok /\ DryRunVerdict(r, g, plan) = Ok
  BY DEF Passed
<1> HIDE DEF plan
<1>2. /\ IsListing(verdicts) /\ \A i \in DOMAIN verdicts : IsComponentVerdict(verdicts[i])
      /\ IsListing(r.signature_bundle.signatures) /\ HasKnownFaults(r.signature_bundle)
      /\ r.not_before \in Nat /\ r.not_after \in Nat /\ r.faults \subseteq ReceiptFaults
      /\ IsListing(g.entries) /\ HoldsListings(r)
  BY InputParts DEF IsInput
<1>3. /\ "graph" \notin r.faults /\ "fields" \notin r.faults
      /\ BundleBudgetsVerdict(r) = Ok /\ WellFormedRegistry(g)
  BY <1>1, <1>2, SnapshotExact
<1>4. Loaded(g)
  BY <1>3, InputParts
<1>5. /\ Len(verdicts) = Len(Components)
      /\ \A i \in DOMAIN verdicts :
           /\ verdicts[i].component_id \in ComponentIds
           /\ \A j \in 1..(i - 1) : verdicts[j].component_id # verdicts[i].component_id
           /\ Len(verdicts[i].signature_bundle.signatures) \in 2..3
      /\ Len(r.signature_bundle.signatures) \in 2..3
  BY <1>2, <1>3, BundleBudgetsExact
<1>6. {c.component_id : c \in ToSet(verdicts)} = ComponentIds
  BY <1>2, <1>5, ComponentsOnce
<1>7. /\ r.request_id = ExpectedRequestId /\ r.schema_version = "shield.receipt.v2"
      /\ r.context_hash = ExpectedContextHash /\ r.signature_policy = "policy.v1"
  BY <1>1, BindingExact
<1>8. /\ "contract_version" \notin r.faults /\ "canonicalization_profile" \notin r.faults
      /\ "fail_closed" \notin r.faults /\ r.key_registry_version = g.registry_version
  BY <1>1, HeaderExact
<1>9. /\ FreshnessVerdict(VerificationTime, r.not_before, r.not_after) = Ok
      /\ PrepareVerdict(r.signature_bundle, Orchestrator, g, VerificationTime, r.not_before, r.not_after) = Ok
      /\ PlanVerdict(plan, {"hash"}) = Ok
  BY <1>1, PrepareReceiptExact
<1>10. /\ ReceiptSemanticsVerdict(r) = Ok
       /\ r.component_signature_results = ExpectedSignatureResults(verdicts)
       /\ "bytes" \notin r.faults /\ r.receipt_hash = "own" /\ r.signed_payload_hash = "own"
       /\ \A i \in DOMAIN verdicts : verdicts[i].signed_payload_hash = "own"
  BY <1>1, <1>2, PayloadExact
<1>11. /\ "freshness_nonce" \notin r.faults /\ "dominant_reason_ids" \notin r.faults
       /\ "adamantineos_handoff" \notin r.faults
       /\ r.final_outcome = ExpectedFinalOutcome(verdicts)
       /\ r.final_outcome = "ALLOW" \/ ~r.handoff_allowed
  BY <1>10, SemanticsExact
<1>12. /\ ComponentListVerdict(verdicts, g, VerificationTime, plan) = Ok
       /\ ReceiptEnvelopeVerdict(r, g, VerificationTime, plan) = Ok
  BY <1>1, DryRunExact
<1>13. \A c \in ToSet(verdicts) : AdmissibleComponent(c, g)
  <2> SUFFICES ASSUME NEW i \in DOMAIN verdicts PROVE AdmissibleComponent(verdicts[i], g)
    BY DEF ToSet
  <2> DEFINE c == verdicts[i]
  <2>1. BundleVerdict(c.signature_bundle, c.component_id, "own", g, VerificationTime, c.not_before, c.not_after,
                      Accepted(c.component_id, plan)) = Ok
    BY <1>2, <1>12, ComponentListExact
  <2>2. /\ IsComponentVerdict(c) /\ Len(c.signature_bundle.signatures) \in 2..3
        /\ PrepareComponentVerdict(c, g) = Ok /\ c.signed_payload_hash = "own"
    BY <1>1, <1>2, <1>5, <1>10
  <2> HIDE DEF c
  <2>3. QED
    BY <1>4, <2>1, <2>2, ComponentAdmission DEF c
<1>14. AdmissibleBundle(r.signature_bundle, Orchestrator, g, r.not_before, r.not_after)
  <2>1. BundleVerdict(r.signature_bundle, Orchestrator, "own", g, VerificationTime, r.not_before, r.not_after,
                      Accepted(Orchestrator, plan)) = Ok
    BY <1>12, ReceiptEnvelopeExact
  <2>2. QED
    BY <1>2, <1>4, <1>5, <1>9, <2>1, PreparedAdmission
<1>15. r.faults = {}
  BY <1>2, <1>3, <1>8, <1>10, <1>11, ReceiptFaultFree, Zenon
<1>16. /\ Cardinality(Tokens(r)) <= MaxVerificationCalls
       /\ Cardinality({t \in Tokens(r) : t[2] \in PqcAlgorithms}) <= MaxPqcCalls
  BY <1>9, PlanExact DEF plan
<1>17. r.handoff_allowed => r.final_outcome = "ALLOW"
  BY <1>11
<1>18. QED
  BY <1>3, <1>5, <1>6, <1>7, <1>8, <1>10, <1>11, <1>13, <1>14, <1>15, <1>16, <1>17, Zenon
  DEF Admissible

\* The algorithms of an admissible bundle: two of them, or three.
LEMMA AdmissibleSuite ==
  ASSUME NEW bundle, IsListing(bundle.signatures), NEW artifact, NEW g, NEW not_before,
         NEW not_after, AdmissibleBundle(bundle, artifact, g, not_before, not_after)
  PROVE  /\ Suite(bundle) \in PolicySuites
         /\ Len(bundle.signatures) \in 2..3
         /\ AlgorithmsOf(bundle) \in {RequiredAlgorithms, Algorithms}
<1>1. Suite(bundle) \in PolicySuites
  BY DEF AdmissibleBundle, Suite, PolicySuites
<1>2. Len(bundle.signatures) \in 2..3
  BY <1>1, SuiteExact
<1> DEFINE s == Suite(bundle)
<1>3. AlgorithmsOf(bundle) = {s[i] : i \in DOMAIN s}
  BY DEF AlgorithmsOf, Suite
<1>4. \/ s = <<"classical-ed25519", "ml-dsa">>
      \/ s = <<"classical-ed25519", "ml-dsa", "fn-dsa">>
  BY <1>1 DEF PolicySuites
<1> HIDE DEF s
<1>5. CASE s = <<"classical-ed25519", "ml-dsa">>
  <2>1. DOMAIN s = {1, 2} /\ s[1] = "classical-ed25519" /\ s[2] = "ml-dsa"
    BY <1>5
  <2>2. AlgorithmsOf(bundle) = {s[i] : i \in {1, 2}}
    BY <1>3, <2>1, Zenon
  <2>3. AlgorithmsOf(bundle) = RequiredAlgorithms
    BY <2>1, <2>2 DEF RequiredAlgorithms
  <2>4. QED
    BY <1>1, <1>2, <2>3
<1>6. CASE s = <<"classical-ed25519", "ml-dsa", "fn-dsa">>
  <2>1. /\ DOMAIN s = {1, 2, 3}
        /\ s[1] = "classical-ed25519" /\ s[2] = "ml-dsa" /\ s[3] = "fn-dsa"
    BY <1>6
  <2>2. AlgorithmsOf(bundle) = {s[i] : i \in {1, 2, 3}}
    BY <1>3, <2>1, Zenon
  <2>3. AlgorithmsOf(bundle) = Algorithms
    BY <2>1, <2>2 DEF Algorithms
  <2>4. QED
    BY <1>1, <1>2, <2>3
<1>7. QED
  BY <1>4, <1>5, <1>6

\* In an admissible receipt every artifact has its bundle, within the budgets.
LEMMA AdmissibleBundles ==
  ASSUME NEW r, NEW g, IsInput(r, g), Admissible(r, g)
  PROVE  LET verdicts == r.component_verdicts
         IN  /\ BundleBudgetsVerdict(r) = Ok /\ Loaded(g)
             /\ \A i \in DOMAIN verdicts :
                  /\ verdicts[i].component_id \in ComponentIds
                  /\ \A j \in 1..(i - 1) :
                       verdicts[j].component_id # verdicts[i].component_id
                  /\ BundleOf(r, verdicts[i].component_id) = verdicts[i].signature_bundle
                  /\ Suite(verdicts[i].signature_bundle) \in PolicySuites
             /\ \A a \in ComponentIds : \E i \in DOMAIN verdicts : verdicts[i].component_id = a
             /\ \A a \in Artifacts : AlgorithmsOf(BundleOf(r, a)) \in {RequiredAlgorithms, Algorithms}
<1> DEFINE verdicts == r.component_verdicts
           id(i) == verdicts[i].component_id
           bundle(i) == verdicts[i].signature_bundle
<1>1. /\ IsListing(verdicts) /\ \A i \in DOMAIN verdicts : IsComponentVerdict(verdicts[i])
      /\ IsListing(r.signature_bundle.signatures) /\ HoldsListings(r)
  BY InputParts DEF IsInput
<1>2. /\ WellFormedRegistry(g) /\ Len(verdicts) = Len(Components)
      /\ {c.component_id : c \in ToSet(verdicts)} = ComponentIds
      /\ \A c \in ToSet(verdicts) : AdmissibleComponent(c, g)
      /\ AdmissibleBundle(r.signature_bundle, Orchestrator, g, r.not_before, r.not_after)
  BY DEF Admissible
<1>3. \A i \in DOMAIN verdicts :
        AdmissibleBundle(bundle(i), id(i), g, verdicts[i].not_before, verdicts[i].not_after)
  BY <1>2 DEF AdmissibleComponent, ToSet
<1>4. \A i \in DOMAIN verdicts :
        /\ Suite(bundle(i)) \in PolicySuites /\ Len(bundle(i).signatures) \in 2..3
        /\ AlgorithmsOf(bundle(i)) \in {RequiredAlgorithms, Algorithms}
  BY <1>1, <1>3, AdmissibleSuite DEF IsComponentVerdict
<1>5. /\ Len(r.signature_bundle.signatures) \in 2..3
      /\ AlgorithmsOf(r.signature_bundle) \in {RequiredAlgorithms, Algorithms}
  BY <1>1, <1>2, AdmissibleSuite
<1>6. \A i \in DOMAIN verdicts :
        id(i) \in ComponentIds /\ \A j \in 1..(i - 1) : id(j) # id(i)
  BY <1>1, <1>2, ComponentsOnce
<1>7. BundleBudgetsVerdict(r) = Ok
  BY <1>1, <1>2, <1>4, <1>5, <1>6, BundleBudgetsExact
<1>8. \A i \in DOMAIN verdicts : BundleOf(r, id(i)) = bundle(i)
  BY <1>1, <1>7, BundleOfComponent
<1>9. \A a \in ComponentIds : \E i \in DOMAIN verdicts : id(i) = a
  BY <1>2 DEF ToSet
<1>10. BundleOf(r, Orchestrator) = r.signature_bundle
  BY DEF BundleOf
<1>11. \A a \in Artifacts : AlgorithmsOf(BundleOf(r, a)) \in {RequiredAlgorithms, Algorithms}
  BY <1>4, <1>5, <1>8, <1>9, <1>10 DEF Artifacts
<1>12. Loaded(g)
  BY <1>2, InputParts
<1>13. QED
  BY <1>4, <1>6, <1>7, <1>8, <1>9, <1>11, <1>12, Zenon

\* Two or three callbacks for an artifact whose algorithms are the required ones,
\* or all.
LEMMA TokensOfArtifact ==
  ASSUME NEW a, NEW S, S \in {RequiredAlgorithms, Algorithms}
  PROVE  Cardinality({<<a, x>> : x \in S}) \in 2..3
<1> DEFINE T == {<<a, x>> : x \in S}
           c == <<a, "classical-ed25519">>
           m == <<a, "ml-dsa">>
           f == <<a, "fn-dsa">>
<1>1. c # m /\ c # f /\ m # f
  OBVIOUS
<1>2. IsFiniteSet({c}) /\ Cardinality({c}) = 1
  BY FS_Singleton
<1>3. IsFiniteSet({c} \cup {m}) /\ Cardinality({c} \cup {m}) = 2
  <2>1. m \notin {c}
    BY <1>1
  <2> HIDE DEF c, m
  <2>2. QED
    BY <1>2, <2>1, FS_AddElement
<1>4. Cardinality(({c} \cup {m}) \cup {f}) = 3
  <2>1. f \notin {c} \cup {m}
    BY <1>1
  <2> HIDE DEF c, m, f
  <2>2. QED
    BY <1>3, <2>1, FS_AddElement
<1>5. CASE S = RequiredAlgorithms
  <2>1. T = {c} \cup {m}
    BY <1>5 DEF RequiredAlgorithms
  <2>2. QED
    BY <1>3, <2>1
<1>6. CASE S = Algorithms
  <2>1. T = ({c} \cup {m}) \cup {f}
    BY <1>6 DEF Algorithms
  <2>2. QED
    BY <1>4, <2>1
<1>7. QED
  BY <1>5, <1>6

\* The signatures of an admissible receipt are a plan.
LEMMA PlanAdmits ==
  ASSUME NEW r, NEW g, IsInput(r, g), Admissible(r, g)
  PROVE  \A words : PlanVerdict(Tokens(r), words) = Ok
<1> DEFINE S(a) == AlgorithmsOf(BundleOf(r, a))
           plan == Tokens(r)
<1>1. \A a \in Artifacts : S(a) \in {RequiredAlgorithms, Algorithms}
  BY AdmissibleBundles
<1>2. \A a \in Artifacts : S(a) \subseteq Algorithms /\ "ml-dsa" \in S(a)
  BY <1>1 DEF RequiredAlgorithms, Algorithms
<1> HIDE DEF S
<1>3. \A t : t \in plan <=> t \in Artifacts \X Algorithms /\ t[2] \in S(t[1])
  BY DEF Tokens, S
<1> HIDE DEF plan
<1>4. ASSUME NEW a \in Artifacts
      PROVE  {t \in plan : t[1] = a} = {<<a, x>> : x \in S(a)}
  <2>1. ASSUME NEW t \in plan, t[1] = a PROVE t \in {<<a, x>> : x \in S(a)}
    <3>1. t \in Artifacts \X Algorithms /\ t[2] \in S(a)
      BY <1>3, <2>1
    <3>2. t = <<a, t[2]>>
      BY <2>1, <3>1
    <3>3. QED
      BY <3>1, <3>2
  <2>2. ASSUME NEW x \in S(a) PROVE <<a, x>> \in plan /\ <<a, x>>[1] = a
    <3>1. <<a, x>> \in Artifacts \X Algorithms /\ <<a, x>>[1] = a /\ <<a, x>>[2] = x
      BY <1>2
    <3>2. QED
      BY <1>3, <3>1
  <2>3. QED
    BY <2>1, <2>2
<1>5. \A a \in Artifacts : Cardinality({t \in plan : t[1] = a}) \in 2..3
  BY <1>1, <1>4, TokensOfArtifact
<1>6. {t[1] : t \in plan} = Artifacts
  <2>1. \A t \in plan : t[1] \in Artifacts
    BY <1>3
  <2>2. ASSUME NEW a \in Artifacts PROVE \E t \in plan : t[1] = a
    <3>1. <<a, "ml-dsa">> \in {t \in plan : t[1] = a}
      BY <1>2, <1>4
    <3>2. QED
      BY <3>1
  <2>3. QED
    BY <2>1, <2>2
<1>7. /\ Cardinality(plan) <= MaxVerificationCalls
      /\ Cardinality({t \in plan : t[2] \in PqcAlgorithms}) <= MaxPqcCalls
  BY DEF Admissible, plan
<1>8. QED
  BY <1>5, <1>6, <1>7, PlanExact DEF plan

\* The results an admissible receipt holds are well formed: its own bundles are.
LEMMA ResultsAdmit ==
  ASSUME NEW r, NEW g, IsInput(r, g), Admissible(r, g)
  PROVE  SignatureResultsVerdict(r.component_signature_results) = Ok
<1> DEFINE verdicts == r.component_verdicts
           results == r.component_signature_results
           n == Len(Components)
           bundle(k) == ComponentBundle(verdicts, Components[k])
<1>1. IsListing(results)
  BY DEF IsInput, HoldsListings
<1>2. results = [k \in DOMAIN Components |-> Summary(Components[k], FALSE, bundle(k))]
  BY DEF Admissible, ExpectedSignatureResults
<1>3. /\ DOMAIN Components = 1..n /\ n \in Nat
      /\ \A k, l \in 1..n : Components[k] = Components[l] => k = l
      /\ \A k \in 1..n : Components[k] # Orchestrator /\ Components[k] \in ComponentIds
  BY ComponentsAssumption DEF Orchestrator, ComponentIds
<1>4. DOMAIN results = 1..n /\ Len(results) = n
  <2>1. DOMAIN results = 1..n
    BY <1>2, <1>3
  <2>2. DOMAIN results = 1..Len(results) /\ Len(results) \in Nat
    BY <1>1 DEF IsListing
  <2> HIDE DEF n, results
  <2>3. QED
    BY <1>3, <2>1, <2>2
<1>5. \A k \in 1..n : IsListing(bundle(k).signatures) /\ Suite(bundle(k)) \in PolicySuites
  <2> SUFFICES ASSUME NEW k \in 1..n
               PROVE  IsListing(bundle(k).signatures) /\ Suite(bundle(k)) \in PolicySuites
    OBVIOUS
  <2>1. BundleOf(r, Components[k]) = bundle(k)
    BY <1>3 DEF BundleOf
  <2>2. PICK i \in DOMAIN verdicts : verdicts[i].component_id = Components[k]
    BY <1>3, AdmissibleBundles
  <2>3. /\ BundleOf(r, verdicts[i].component_id) = verdicts[i].signature_bundle
        /\ Suite(verdicts[i].signature_bundle) \in PolicySuites
    BY AdmissibleBundles
  <2>4. IsListing(verdicts[i].signature_bundle.signatures)
    BY DEF IsInput, HoldsListings
  <2>5. QED
    BY <2>1, <2>2, <2>3, <2>4
<1>6. \A k \in 1..n : /\ results[k].component_id = Components[k] /\ results[k].verified
                      /\ results[k].algorithms = Suite(bundle(k))
  BY <1>2, <1>3 DEF Summary, Suite
<1>7. ASSUME NEW b, IsListing(b.signatures), Suite(b) \in PolicySuites
      PROVE  /\ \A k, l \in DOMAIN Suite(b) : Suite(b)[k] = Suite(b)[l] => k = l
             /\ RequiredAlgorithms \subseteq ToSet(Suite(b))
             /\ ToSet(Suite(b)) \subseteq Algorithms
  <2>1. /\ \A i \in DOMAIN b.signatures : b.signatures[i].algorithm \in Algorithms
        /\ \A i, j \in DOMAIN b.signatures :
             b.signatures[i].algorithm = b.signatures[j].algorithm => i = j
        /\ RequiredAlgorithms \subseteq AlgorithmsOf(b)
    BY <1>7, SuiteExact
  <2>2. /\ DOMAIN Suite(b) = DOMAIN b.signatures
        /\ \A i \in DOMAIN b.signatures : Suite(b)[i] = b.signatures[i].algorithm
    BY DEF Suite
  <2>3. ToSet(Suite(b)) = AlgorithmsOf(b)
    BY <2>2 DEF ToSet, AlgorithmsOf
  <2>4. AlgorithmsOf(b) \subseteq Algorithms
    BY <2>1 DEF AlgorithmsOf
  <2>5. QED
    BY <2>1, <2>2, <2>3, <2>4
<1>8. ASSUME NEW i \in 1..n
      PROVE  \A j \in 1..(i - 1) : results[j].component_id # results[i].component_id
  <2>1. \A j \in 1..(i - 1) : j \in 1..n /\ j # i
    BY <1>3
  <2>2. QED
    BY <1>3, <1>6, <2>1
<1> HIDE DEF results, bundle, n
<1>9. \A i \in DOMAIN results :
        LET algorithms == results[i].algorithms
        IN  /\ results[i].component_id \in ComponentIds
            /\ \A j \in 1..(i - 1) : results[j].component_id # results[i].component_id
            /\ results[i].verified
            /\ \A k, l \in DOMAIN algorithms : algorithms[k] = algorithms[l] => k = l
            /\ RequiredAlgorithms \subseteq ToSet(algorithms)
            /\ ToSet(algorithms) \subseteq Algorithms
  BY <1>3, <1>4, <1>5, <1>6, <1>7, <1>8
<1>10. QED
  BY <1>1, <1>4, <1>9, SignatureResultsExact DEF n, results

\* What is admissible passes every cheap check, for the plan of its own signatures.
LEMMA AdmissibleIsPassed ==
  ASSUME NEW r, NEW g, IsInput(r, g), Admissible(r, g)
  PROVE  Passed(r, g, Tokens(r))
<1> DEFINE verdicts == r.component_verdicts
           plan == Tokens(r)
<1>1. /\ IsListing(verdicts) /\ \A i \in DOMAIN verdicts : IsComponentVerdict(verdicts[i])
      /\ IsListing(r.signature_bundle.signatures) /\ HasKnownFaults(r.signature_bundle)
      /\ r.not_before \in Nat /\ r.not_after \in Nat
      /\ IsListing(g.entries) /\ HoldsListings(r)
  BY InputParts DEF IsInput
<1>2. /\ BundleBudgetsVerdict(r) = Ok /\ Loaded(g)
      /\ \A i \in DOMAIN verdicts :
           /\ verdicts[i].component_id \in ComponentIds
           /\ \A j \in 1..(i - 1) : verdicts[j].component_id # verdicts[i].component_id
           /\ BundleOf(r, verdicts[i].component_id) = verdicts[i].signature_bundle
           /\ Suite(verdicts[i].signature_bundle) \in PolicySuites
      /\ \A a \in Artifacts : AlgorithmsOf(BundleOf(r, a)) \in {RequiredAlgorithms, Algorithms}
  BY AdmissibleBundles
<1>3. /\ WellFormedRegistry(g) /\ r.faults = {} /\ r.schema_version = "shield.receipt.v2"
      /\ r.signature_policy = "policy.v1" /\ r.request_id = ExpectedRequestId
      /\ r.context_hash = ExpectedContextHash /\ r.key_registry_version = g.registry_version
      /\ r.receipt_hash = "own" /\ r.signed_payload_hash = "own"
      /\ Len(verdicts) = Len(Components)
      /\ AdmissibleBundle(r.signature_bundle, Orchestrator, g, r.not_before, r.not_after)
      /\ r.component_signature_results = ExpectedSignatureResults(verdicts)
      /\ r.final_outcome = ExpectedFinalOutcome(verdicts)
      /\ r.handoff_allowed => r.final_outcome = "ALLOW"
  BY DEF Admissible
<1>4. \A i \in DOMAIN verdicts : AdmissibleComponent(verdicts[i], g)
  BY DEF Admissible, ToSet
<1>5. \A a \in Artifacts : AlgorithmsOf(BundleOf(r, a)) \subseteq Accepted(a, plan)
  <2> SUFFICES ASSUME NEW a \in Artifacts, NEW x \in AlgorithmsOf(BundleOf(r, a))
               PROVE  x \in Accepted(a, plan)
    OBVIOUS
  <2>1. x \in Algorithms
    BY <1>2 DEF RequiredAlgorithms, Algorithms
  <2>2. <<a, x>> \in Artifacts \X Algorithms /\ <<a, x>>[1] = a /\ <<a, x>>[2] = x
    BY <2>1
  <2>3. <<a, x>> \in plan
    BY <2>2 DEF Tokens
  <2>4. QED
    BY <2>1, <2>3 DEF Accepted
<1> HIDE DEF plan
<1>6. ASSUME NEW i \in DOMAIN verdicts
      PROVE  LET c == verdicts[i]
             IN  /\ PrepareComponentVerdict(c, g) = Ok /\ c.signed_payload_hash = "own"
                 /\ c.context_hash = ExpectedContextHash
                 /\ c.key_registry_version = g.registry_version
                 /\ BundleVerdict(c.signature_bundle, c.component_id, "own", g, VerificationTime, c.not_before,
                                  c.not_after, Accepted(c.component_id, plan)) = Ok
  <2> DEFINE c == verdicts[i]
  <2>1. AlgorithmsOf(c.signature_bundle) \subseteq Accepted(c.component_id, plan)
    BY <1>2, <1>5 DEF Artifacts
  <2>2. IsComponentVerdict(c) /\ AdmissibleComponent(c, g)
    BY <1>1, <1>4
  <2> HIDE DEF c
  <2>3. /\ PrepareComponentVerdict(c, g) = Ok
        /\ BundleVerdict(c.signature_bundle, c.component_id, "own", g, VerificationTime, c.not_before,
                         c.not_after, Accepted(c.component_id, plan)) = Ok
    BY <1>2, <2>1, <2>2, ComponentAdmission
  <2>4. /\ c.signed_payload_hash = "own" /\ c.context_hash = ExpectedContextHash
        /\ c.key_registry_version = g.registry_version
    BY <2>2 DEF AdmissibleComponent
  <2>5. QED
    BY <2>3, <2>4 DEF c
<1>7. /\ FreshnessVerdict(VerificationTime, r.not_before, r.not_after) = Ok
      /\ PrepareVerdict(r.signature_bundle, Orchestrator, g, VerificationTime, r.not_before, r.not_after) = Ok
      /\ BundleVerdict(r.signature_bundle, Orchestrator, "own", g, VerificationTime, r.not_before, r.not_after,
                       Accepted(Orchestrator, plan)) = Ok
  <2>1. AlgorithmsOf(r.signature_bundle) \subseteq Accepted(Orchestrator, plan)
    BY <1>5 DEF Artifacts, BundleOf
  <2>2. /\ Loaded(g)
        /\ AdmissibleBundle(r.signature_bundle, Orchestrator, g, r.not_before, r.not_after)
    BY <1>2, <1>3
  <2> DEFINE bundle == r.signature_bundle
             accepted == Accepted(Orchestrator, plan)
  <2>3. /\ IsListing(bundle.signatures) /\ HasKnownFaults(bundle)
        /\ r.not_before \in Nat /\ r.not_after \in Nat
    BY <1>1
  <2> HIDE DEF bundle, accepted
  <2>4. (/\ Len(bundle.signatures) \in 2..3
         /\ FreshnessVerdict(VerificationTime, r.not_before, r.not_after) = Ok
         /\ PrepareVerdict(bundle, Orchestrator, g, VerificationTime, r.not_before, r.not_after) = Ok
         /\ BundleVerdict(bundle, Orchestrator, "own", g, VerificationTime, r.not_before, r.not_after, accepted)
              = Ok)
        <=> (/\ AdmissibleBundle(bundle, Orchestrator, g, r.not_before, r.not_after)
             /\ AlgorithmsOf(bundle) \subseteq accepted)
    BY <2>2, <2>3, PreparedAdmission
  <2>5. QED
    BY <2>1, <2>2, <2>4 DEF bundle, accepted
<1>8. \A words : PlanVerdict(plan, words) = Ok
  BY PlanAdmits DEF plan
<1>9. SnapshotVerdict(r, g) = Ok
  BY <1>1, <1>2, <1>3, SnapshotExact
<1>10. BindingVerdict(r) = Ok /\ HeaderVerdict(r, g) = Ok
  BY <1>3, BindingExact, HeaderExact
<1>11. PrepareReceiptVerdict(r, g, plan) = Ok
  BY <1>7, <1>8, PrepareReceiptExact
<1>12. ReceiptSemanticsVerdict(r) = Ok
  <2>1. r.final_outcome \in FinalOutcomes
    BY <1>3 DEF ExpectedFinalOutcome, FinalOutcomes
  <2>2. SignatureResultsVerdict(r.component_signature_results) = Ok
    BY ResultsAdmit
  <2>3. "freshness_nonce" \notin r.faults /\ "dominant_reason_ids" \notin r.faults
        /\ "adamantineos_handoff" \notin r.faults
    BY <1>3
  <2>4. r.final_outcome = "ALLOW" \/ ~r.handoff_allowed
    BY <1>3
  <2>5. \A i \in DOMAIN verdicts : Fits(verdicts[i])
    BY <1>2, <1>3, <1>4 DEF AdmissibleComponent, Fits
  <2>6. ReceiptListVerdict(verdicts) = Ok
    BY <1>1, <1>2, <1>3, <2>5, ReceiptListExact
  <2>7. QED
    BY <1>3, <2>1, <2>2, <2>3, <2>4, <2>6, SemanticsExact
<1>13. PayloadVerdict(r) = Ok
  <2>1. "bytes" \notin r.faults
    BY <1>3
  <2>2. QED
    BY <1>1, <1>3, <1>6, <1>12, <2>1, PayloadExact
<1>14. ComponentListVerdict(verdicts, g, VerificationTime, plan) = Ok
  <2>1. \A i \in DOMAIN verdicts : ComponentPayloadVerdict(verdicts[i]) = Ok
    BY <1>6, PrepareComponentExact
  <2>2. \A i \in DOMAIN verdicts :
          \A j \in 1..(i - 1) : verdicts[j].component_id # verdicts[i].component_id
    BY <1>2
  <2>3. QED
    BY <1>1, <1>3, <1>6, <2>1, <2>2, ComponentListExact
<1>15. ReceiptEnvelopeVerdict(r, g, VerificationTime, plan) = Ok
  <2>1. /\ "fields" \notin r.faults /\ "contract_version" \notin r.faults
        /\ "fail_closed" \notin r.faults /\ "canonicalization_profile" \notin r.faults
    BY <1>3
  <2>2. QED
    BY <1>3, <1>7, <1>12, <2>1, ReceiptEnvelopeExact
<1>16. DryRunVerdict(r, g, plan) = Ok
  BY <1>8, <1>14, <1>15, DryRunExact DEF plan
<1>17. QED
  BY <1>6, <1>9, <1>10, <1>11, <1>13, <1>16 DEF Passed, plan

\* The seven blocks of cheap checks, over the plan of a receipt's own signatures, let
\* through exactly the admissible chains, whatever the receipt and the registry hold.
THEOREM CheapChecksAreExact ==
  ASSUME NEW r, NEW g, IsInput(r, g)
  PROVE  Passed(r, g, Tokens(r)) <=> Admissible(r, g)
BY PassedIsAdmissible, AdmissibleIsPassed
=============================================================================
