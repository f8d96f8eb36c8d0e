--------------------------- MODULE RealCryptoProofs ---------------------------
(***************************************************************************)
(* For every set of requests, keys and library states, and any number of   *)
(* changes to an entry: what verifies was issued.  The argument has two    *)
(* halves: the message determines every field it was built of, and an      *)
(* entry always carries a signature some request was issued with.          *)
(***************************************************************************)
EXTENDS RealCryptoProperties, SequenceTheorems, WellFoundedInduction, TLAPS

Outcomes == Errors \cup {Passed}

\* Every non-empty set of naturals has a least element.
LEMMA LeastOfNaturals ==
  ASSUME NEW S \in SUBSET Nat, S # {}
  PROVE  \E m \in S : \A j \in S : m <= j
<1>1. \E m \in S : \A j \in S : <<j, m>> \notin OpToRel(<, Nat)
  BY NatLessThanWellFounded, WFMin
<1>2. PICK m \in S : \A j \in S : <<j, m>> \notin OpToRel(<, Nat)
  BY <1>1
<1>3. ASSUME NEW j \in S PROVE ~(j < m)
  <2>1. <<j, m>> \in Nat \X Nat
    OBVIOUS
  <2>2. j < m => <<j, m>> \in OpToRel(<, Nat)
    BY <2>1, Zenon DEF OpToRel
  <2>3. QED
    BY <1>2, <2>2, Zenon
<1>4. \A j \in S : j \in Nat /\ m \in Nat
  OBVIOUS
<1>5. QED
  BY <1>3, <1>4

\* A block of checks ends in an outcome when each of them does.
LEMMA FirstErrorOutcome ==
  ASSUME NEW checks \in Seq(Outcomes)
  PROVE  FirstError(checks) \in Outcomes
<1> DEFINE failing == {i \in DOMAIN checks : checks[i] # Passed}
<1>0. DOMAIN checks \subseteq Nat /\ \A i \in DOMAIN checks : checks[i] \in Outcomes
  OBVIOUS
<1>1. CASE failing = {}
  BY <1>0, <1>1 DEF FirstError, Outcomes
<1>2. CASE failing # {}
  <2>1. failing \in SUBSET Nat
    BY <1>0
  <2>2. PICK m \in failing : \A j \in failing : m <= j
    BY <1>2, <2>1, LeastOfNaturals
  <2>3. \A j \in DOMAIN checks : j < m => checks[j] = Passed
    BY <1>0, <2>2
  <2>4. PICK i \in DOMAIN checks : FirstError(checks) = checks[i]
    BY <2>2, <2>3 DEF FirstError
  <2>5. QED
    BY <1>0, <2>4
<1>3. QED
  BY <1>1, <1>2

-----------------------------------------------------------------------------
\* Where the lines of a message are.
LEMMA LinesOfMessage ==
  ASSUME NEW S, NEW a \in S, NEW b \in S, NEW c \in S, NEW d \in S,
         NEW lines \in Seq(S), NEW v \in S,
         NEW m, m = <<a, b, c, d>> \o lines \o <<v>>
  PROVE  /\ Len(m) = Len(lines) + 5
         /\ m[1] = a /\ m[2] = b /\ m[3] = c /\ m[4] = d
         /\ \A i \in 1..Len(lines) : m[i + 4] = lines[i]
         /\ m[Len(lines) + 5] = v
<1> DEFINE front == <<a, b, c, d>>
           body  == front \o lines
<1>1. front \in Seq(S) /\ Len(front) = 4 /\ <<v>> \in Seq(S) /\ Len(<<v>>) = 1
  OBVIOUS
<1>2. Len(lines) \in Nat
  BY LenProperties
<1>3. front[1] = a /\ front[2] = b /\ front[3] = c /\ front[4] = d /\ <<v>>[1] = v
  OBVIOUS
<1> HIDE DEF front
<1>4. /\ body \in Seq(S)
      /\ Len(body) = 4 + Len(lines)
      /\ \A i \in 1..4 + Len(lines) :
            body[i] = IF i <= 4 THEN front[i] ELSE lines[i - 4]
  <2>1. /\ body \in Seq(S)
        /\ Len(body) = Len(front) + Len(lines)
        /\ \A i \in 1..Len(front) + Len(lines) :
              body[i] = IF i <= Len(front) THEN front[i] ELSE lines[i - Len(front)]
    BY <1>1, ConcatProperties
  <2>2. QED
    BY <1>1, <2>1
<1> HIDE DEF body
<1>5. m = body \o <<v>>
  BY DEF body, front
<1>6. /\ Len(m) = Len(body) + 1
      /\ \A i \in 1..Len(body) + 1 :
            m[i] = IF i <= Len(body) THEN body[i] ELSE <<v>>[i - Len(body)]
  BY <1>1, <1>4, <1>5, ConcatProperties
<1>7. \A i \in 1..4 : m[i] = front[i]
  BY <1>2, <1>4, <1>6
<1>8. ASSUME NEW i \in 1..Len(lines) PROVE m[i + 4] = lines[i]
  <2>1. m[i + 4] = body[i + 4]
    BY <1>2, <1>4, <1>6
  <2>2. body[i + 4] = lines[(i + 4) - 4]
    BY <1>2, <1>4
  <2>3. (i + 4) - 4 = i
    OBVIOUS
  <2>4. QED
    BY <2>1, <2>2, <2>3
<1>9. m[Len(lines) + 5] = v
  <2>1. Len(lines) + 5 \in 1..Len(body) + 1 /\ ~(Len(lines) + 5 <= Len(body))
    BY <1>2, <1>4
  <2>2. Len(lines) + 5 - Len(body) = 1
    BY <1>2, <1>4
  <2>3. m[Len(lines) + 5] = <<v>>[Len(lines) + 5 - Len(body)]
    BY <1>6, <2>1
  <2>4. QED
    BY <1>3, <2>2, <2>3
<1>10. Len(m) = Len(lines) + 5
  BY <1>2, <1>4, <1>6
<1>11. QED
  BY <1>3, <1>7, <1>8, <1>9, <1>10

\* The message determines every field it binds: a key id may hold line feeds, but
\* it stands between four lines in front and one behind it.
LEMMA MessageBindsEverything ==
  ASSUME NEW x, NEW y, Message(x) = Message(y),
         x.key_id.lines \in Seq(STRING), y.key_id.lines \in Seq(STRING),
         x.key_version \in DOMAIN Decimal, y.key_version \in DOMAIN Decimal
  PROVE  /\ x.domain_tag = y.domain_tag
         /\ x.signed_payload_hash = y.signed_payload_hash
         /\ x.algorithm = y.algorithm
         /\ x.standard_profile = y.standard_profile
         /\ x.key_id.lines = y.key_id.lines
         /\ x.key_version = y.key_version
<1> DEFINE S == STRING
                \cup {x.domain_tag, x.signed_payload_hash, x.algorithm, x.standard_profile}
                \cup {y.domain_tag, y.signed_payload_hash, y.algorithm, y.standard_profile}
<1>1. Decimal[x.key_version] \in STRING /\ Decimal[y.key_version] \in STRING
  BY DecimalIsInjective
<1>2. x.key_id.lines \in Seq(S) /\ y.key_id.lines \in Seq(S)
  OBVIOUS
<1>3. /\ Decimal[x.key_version] \in S /\ Decimal[y.key_version] \in S
      /\ x.domain_tag \in S /\ x.signed_payload_hash \in S
      /\ x.algorithm \in S /\ x.standard_profile \in S
      /\ y.domain_tag \in S /\ y.signed_payload_hash \in S
      /\ y.algorithm \in S /\ y.standard_profile \in S
  BY <1>1
<1> HIDE DEF S
<1>4. /\ Len(Message(x)) = Len(x.key_id.lines) + 5
      /\ Message(x)[1] = x.domain_tag /\ Message(x)[2] = x.signed_payload_hash
      /\ Message(x)[3] = x.algorithm /\ Message(x)[4] = x.standard_profile
      /\ \A i \in 1..Len(x.key_id.lines) : Message(x)[i + 4] = x.key_id.lines[i]
      /\ Message(x)[Len(x.key_id.lines) + 5] = Decimal[x.key_version]
  <2>1. Message(x) = <<x.domain_tag, x.signed_payload_hash, x.algorithm, x.standard_profile>>
                     \o x.key_id.lines \o <<Decimal[x.key_version]>>
    BY DEF Message
  <2> DEFINE a == x.domain_tag
             b == x.signed_payload_hash
             c == x.algorithm
             d == x.standard_profile
             lines == x.key_id.lines
             line == Decimal[x.key_version]
             m == Message(x)
  <2>2. a \in S /\ b \in S /\ c \in S /\ d \in S /\ lines \in Seq(S) /\ line \in S
    BY <1>2, <1>3
  <2>3. m = <<a, b, c, d>> \o lines \o <<line>>
    BY <2>1
  <2> HIDE DEF a, b, c, d, lines, line, m
  <2>4. /\ Len(m) = Len(lines) + 5
        /\ m[1] = a /\ m[2] = b /\ m[3] = c /\ m[4] = d
        /\ \A i \in 1..Len(lines) : m[i + 4] = lines[i]
        /\ m[Len(lines) + 5] = line
    BY <2>2, <2>3, LinesOfMessage
  <2>5. QED
    BY <2>4 DEF a, b, c, d, lines, line, m
<1>5. /\ Len(Message(y)) = Len(y.key_id.lines) + 5
      /\ Message(y)[1] = y.domain_tag /\ Message(y)[2] = y.signed_payload_hash
      /\ Message(y)[3] = y.algorithm /\ Message(y)[4] = y.standard_profile
      /\ \A i \in 1..Len(y.key_id.lines) : Message(y)[i + 4] = y.key_id.lines[i]
      /\ Message(y)[Len(y.key_id.lines) + 5] = Decimal[y.key_version]
  <2>1. Message(y) = <<y.domain_tag, y.signed_payload_hash, y.algorithm, y.standard_profile>>
                     \o y.key_id.lines \o <<Decimal[y.key_version]>>
    BY DEF Message
  <2> DEFINE a == y.domain_tag
             b == y.signed_payload_hash
             c == y.algorithm
             d == y.standard_profile
             lines == y.key_id.lines
             line == Decimal[y.key_version]
             m == Message(y)
  <2>2. a \in S /\ b \in S /\ c \in S /\ d \in S /\ lines \in Seq(S) /\ line \in S
    BY <1>2, <1>3
  <2>3. m = <<a, b, c, d>> \o lines \o <<line>>
    BY <2>1
  <2> HIDE DEF a, b, c, d, lines, line, m
  <2>4. /\ Len(m) = Len(lines) + 5
        /\ m[1] = a /\ m[2] = b /\ m[3] = c /\ m[4] = d
        /\ \A i \in 1..Len(lines) : m[i + 4] = lines[i]
        /\ m[Len(lines) + 5] = line
    BY <2>2, <2>3, LinesOfMessage
  <2>5. QED
    BY <2>4 DEF a, b, c, d, lines, line, m
<1>6. Len(x.key_id.lines) \in Nat /\ Len(y.key_id.lines) \in Nat
  BY <1>2, LenProperties
<1>7. Len(x.key_id.lines) = Len(y.key_id.lines)
  BY <1>4, <1>5, <1>6
<1>8. x.key_id.lines = y.key_id.lines
  <2>1. ASSUME NEW i \in 1..Len(x.key_id.lines)
        PROVE  x.key_id.lines[i] = y.key_id.lines[i]
    BY <1>4, <1>5, <1>7
  <2>2. QED
    BY <1>2, <1>7, <2>1, SeqEqual
<1>9. x.key_version = y.key_version
  BY <1>4, <1>5, <1>7, DecimalIsInjective
<1>10. QED
  BY <1>4, <1>5, <1>8, <1>9

-----------------------------------------------------------------------------
\* Whatever library it meets, a call of the adapter ends in an outcome.
LEMMA MechanismOutcome ==
  ASSUME NEW library
  PROVE  MechanismError(library) \in Outcomes
<1> DEFINE c1 == Demand(library.load # "missing", "unavailable")
           c2 == Demand(library.load # "broken", "error")
           c3 == Demand(library.mechanism # "discovery raises", "error")
           c4 == Demand(library.mechanism = "enabled", "unavailable")
<1>1. c1 \in Outcomes /\ c2 \in Outcomes /\ c3 \in Outcomes /\ c4 \in Outcomes
  BY DEF Demand, Outcomes, Errors
<1>2. MechanismError(library) = FirstError(<<c1, c2, c3, c4>>)
  BY DEF MechanismError
<1> HIDE DEF c1, c2, c3, c4
<1>3. <<c1, c2, c3, c4>> \in Seq(Outcomes)
  BY <1>1
<1>4. QED
  BY <1>2, <1>3, FirstErrorOutcome

\* The lengths of the two texts.
LEMMA LengthOutcome ==
  ASSUME NEW public_key, NEW signature, NEW library
  PROVE  LengthError(public_key, signature, library) \in Outcomes
<1> DEFINE c1 == Demand(library.details \in {"none", "good"}, "error")
           c2 == Demand(\/ library.details = "none"
                        \/ /\ public_key.length = "exact"
                           /\ signature.length \in {"exact"} \cup
                                (IF BackendAlgorithm = "fn-dsa" THEN {"short"} ELSE {}), "error")
<1>1. c1 \in Outcomes /\ c2 \in Outcomes
  BY DEF Demand, Outcomes, Errors
<1>2. LengthError(public_key, signature, library) = FirstError(<<c1, c2>>)
  BY DEF LengthError
<1> HIDE DEF c1, c2
<1>3. <<c1, c2>> \in Seq(Outcomes)
  BY <1>1
<1>4. QED
  BY <1>2, <1>3, FirstErrorOutcome

\* Verification.
LEMMA VerifyOutcome ==
  ASSUME NEW algorithm, NEW public_key, NEW signature, NEW library
  PROVE  VerifyError(algorithm, public_key, signature, library) \in Outcomes
<1> DEFINE c1 == Demand(algorithm = BackendAlgorithm, "unavailable")
           c2 == Demand({"oversized", "malformed"}
                          \cap (public_key.faults \cup signature.faults) = {}, "error")
           c3 == MechanismError(library)
           c4 == LengthError(public_key, signature, library)
           c5 == Demand(library.answer = "honest", "error")
<1>1. c1 \in Outcomes /\ c2 \in Outcomes /\ c5 \in Outcomes
  BY DEF Demand, Outcomes, Errors
<1>2. c3 \in Outcomes /\ c4 \in Outcomes
  BY MechanismOutcome, LengthOutcome
<1>3. VerifyError(algorithm, public_key, signature, library) = FirstError(<<c1, c2, c3, c4, c5>>)
  BY DEF VerifyError
<1> HIDE DEF c1, c2, c3, c4, c5
<1>4. <<c1, c2, c3, c4, c5>> \in Seq(Outcomes)
  BY <1>1, <1>2
<1>5. QED
  BY <1>3, <1>4, FirstErrorOutcome

\* Signing.
LEMMA SignOutcome ==
  ASSUME NEW algorithm, NEW reference, NEW library
  PROVE  SignError(algorithm, reference, library) \in Outcomes
<1> DEFINE c1 == Demand(algorithm = BackendAlgorithm, "unavailable")
           c2 == Demand("blank" \notin reference.faults, "error")
           c3 == Demand("test-only" \notin reference.faults, "material")
           c4 == Demand("unresolved" \notin reference.faults, "error")
           c5 == MechanismError(library)
           c6 == Demand(library.answer = "honest", "error")
<1>1. c1 \in Outcomes /\ c2 \in Outcomes /\ c3 \in Outcomes /\ c4 \in Outcomes /\ c6 \in Outcomes
  BY DEF Demand, Outcomes, Errors
<1>2. c5 \in Outcomes
  BY MechanismOutcome
<1>3. SignError(algorithm, reference, library) = FirstError(<<c1, c2, c3, c4, c5, c6>>)
  BY DEF SignError
<1> HIDE DEF c1, c2, c3, c4, c5, c6
<1>4. <<c1, c2, c3, c4, c5, c6>> \in Seq(Outcomes)
  BY <1>1, <1>2
<1>5. QED
  BY <1>3, <1>4, FirstErrorOutcome

\* The fields of a message.
LEMMA MessageOutcome ==
  ASSUME NEW x
  PROVE  MessageError(x) \in Outcomes
<1> DEFINE c1 == PayloadError(x)
           c2 == Demand("not UTF-8" \notin x.key_id.faults, "encoding")
<1>1. c1 \in Outcomes /\ c2 \in Outcomes
  BY DEF PayloadError, Demand, Outcomes, Errors
<1>2. MessageError(x) = FirstError(<<c1, c2>>)
  BY DEF MessageError
<1> HIDE DEF c1, c2
<1>3. <<c1, c2>> \in Seq(Outcomes)
  BY <1>1
<1>4. QED
  BY <1>2, <1>3, FirstErrorOutcome

\* What is checked before an entry is signed.
LEMMA BuildOutcome ==
  ASSUME NEW request
  PROVE  BuildError(request) \in Outcomes
<1> DEFINE c1 == ProfileError(request)
           c2 == KeyNameError(request)
           c3 == MessageError(request)
           c4 == Demand("blank" \notin request.reference.faults, "error")
           c5 == Demand("test-only" \notin request.reference.faults, "material")
           c6 == SupportError(request)
<1>1. /\ c1 \in Outcomes /\ c2 \in Outcomes /\ c4 \in Outcomes
      /\ c5 \in Outcomes /\ c6 \in Outcomes
  BY DEF ProfileError, KeyNameError, SupportError, Demand, Outcomes, Errors
<1>2. c3 \in Outcomes
  BY MessageOutcome
<1>3. BuildError(request) = FirstError(<<c1, c2, c3, c4, c5, c6>>)
  BY DEF BuildError
<1> HIDE DEF c1, c2, c3, c4, c5, c6
<1>4. <<c1, c2, c3, c4, c5, c6>> \in Seq(Outcomes)
  BY <1>1, <1>2
<1>5. QED
  BY <1>3, <1>4, FirstErrorOutcome

\* What is checked before an entry is verified.
LEMMA EntryOutcome ==
  ASSUME NEW e, NEW key
  PROVE  EntryError(e, key) \in Outcomes
<1> DEFINE c1 == Demand(e.fields = "exact", "error")
           c2 == Demand("oversized" \notin e.signature.faults \cup key.public_key.faults, "error")
           c3 == Demand("test-only" \notin key.key_id.faults \cup key.public_key.faults, "material")
           c4 == Demand("malformed" \notin e.signature.faults \cup key.public_key.faults, "error")
           c5 == ProfileError(e)
           c6 == KeyNameError(e)
           c7 == Demand(KeyMatches(e, key), "error")
           c8 == SupportError(e)
           c9 == MessageError(e)
<1>1. /\ c1 \in Outcomes /\ c2 \in Outcomes /\ c3 \in Outcomes /\ c4 \in Outcomes
      /\ c5 \in Outcomes /\ c6 \in Outcomes /\ c7 \in Outcomes /\ c8 \in Outcomes
  BY DEF ProfileError, KeyNameError, SupportError, Demand, Outcomes, Errors
<1>2. c9 \in Outcomes
  BY MessageOutcome
<1>3. EntryError(e, key) = FirstError(<<c1, c2, c3, c4, c5, c6, c7, c8, c9>>)
  BY DEF EntryError
<1> HIDE DEF c1, c2, c3, c4, c5, c6, c7, c8, c9
<1>4. <<c1, c2, c3, c4, c5, c6, c7, c8, c9>> \in Seq(Outcomes)
  BY <1>1, <1>2
<1>5. QED
  BY <1>3, <1>4, FirstErrorOutcome

\* A verdict is a boolean or an error; the boolean says whether the signature is good.
LEMMA VerdictIsSound ==
  ASSUME NEW e, NEW key, NEW library
  PROVE  /\ Verdict(e, key, library) \in Errors \cup {"True", "False"}
         /\ Verdict(e, key, library) = "True" =>
              SignatureIsGood(key.public_key, Message(e), e.signature)
         /\ Verdict(e, key, library) = "False" =>
              ~SignatureIsGood(key.public_key, Message(e), e.signature)
<1> DEFINE c1 == EntryError(e, key)
           c2 == VerifyError(e.algorithm, key.public_key, e.signature, library)
           error == FirstError(<<c1, c2>>)
<1>1. c1 \in Outcomes /\ c2 \in Outcomes
  BY EntryOutcome, VerifyOutcome
<1>2. Verdict(e, key, library) =
        IF error # Passed THEN error
        ELSE IF SignatureIsGood(key.public_key, Message(e), e.signature) THEN "True" ELSE "False"
  BY DEF Verdict
<1> HIDE DEF c1, c2
<1>3. error \in Outcomes
  <2>1. <<c1, c2>> \in Seq(Outcomes)
    BY <1>1
  <2>2. QED
    BY <2>1, FirstErrorOutcome
<1> HIDE DEF error
<1>4. "True" \notin Outcomes /\ "False" \notin Outcomes
  BY DEF Outcomes, Errors, Passed
<1>5. QED
  BY <1>2, <1>3, <1>4 DEF Outcomes

-----------------------------------------------------------------------------
\* The inductive invariant: besides the types, the signature of the entry is one
\* some request was issued with.  VerifiedWasIssued alone is not inductive: an
\* entry with a signature from nowhere would satisfy it until it is verified.
SignatureWasIssued ==
  entry # None =>
    \E r \in issued : /\ entry.signature.secret = r.reference.secret
                      /\ entry.signature.message = Message(r)

Inductive == TypeOK /\ SignatureWasIssued /\ VerifiedWasIssued

\* The parts of an entry.
LEMMA EntryParts ==
  ASSUME NEW e \in Entries
  PROVE  /\ e.signature \in Signatures
         /\ e.key_id.lines \in Seq(STRING)
         /\ e.key_version \in DOMAIN Decimal
<1>1. e.signature \in Signatures /\ e.key_id \in KeyIds
      /\ e.key_version \in {r.key_version : r \in Requests}
  BY DEF Entries
<1>2. QED
  BY <1>1, RequestsNameKeys DEF KeyIds

\* What is issued is an entry.
LEMMA IssuedIsAnEntry ==
  ASSUME NEW r \in Requests
  PROVE  /\ EntryOf(r) \in Entries
         /\ EntryOf(r).signature.secret = r.reference.secret
         /\ EntryOf(r).signature.message = Message(r)
<1>1. HonestLength \in {"short", "exact", "long"}
  BY DEF HonestLength
<1>2. [secret |-> r.reference.secret, message |-> Message(r),
       length |-> HonestLength, faults |-> {}] \in Signatures
  BY <1>1 DEF Signatures
<1>3. r.key_id \in KeyIds
  BY DEF KeyIds
<1>4. QED
  BY <1>2, <1>3 DEF EntryOf, Entries

\* An entry whose fields are exchanged keeps its signature.
LEMMA FieldsExchanged ==
  ASSUME NEW e \in Entries, NEW f \in FieldExchanged(e)
  PROVE  f \in Entries /\ f.signature = e.signature
<1>1. \/ f = [e EXCEPT !.fields = "other"]
      \/ \E r \in Requests : f = [e EXCEPT !.algorithm = r.algorithm]
      \/ \E r \in Requests : f = [e EXCEPT !.standard_profile = r.standard_profile]
      \/ \E r \in Requests : f = [e EXCEPT !.key_id = r.key_id]
      \/ \E r \in Requests : f = [e EXCEPT !.key_version = r.key_version]
      \/ \E r \in Requests : f = [e EXCEPT !.signed_payload_hash = r.signed_payload_hash]
      \/ \E r \in Requests : f = [e EXCEPT !.domain_tag = r.domain_tag]
  BY Zenon DEF FieldExchanged
<1>2. CASE f = [e EXCEPT !.fields = "other"]
  BY <1>2 DEF Entries
<1>3. CASE \E r \in Requests : f = [e EXCEPT !.algorithm = r.algorithm]
  BY <1>3 DEF Entries
<1>4. CASE \E r \in Requests : f = [e EXCEPT !.standard_profile = r.standard_profile]
  BY <1>4 DEF Entries
<1>5. CASE \E r \in Requests : f = [e EXCEPT !.key_id = r.key_id]
  BY <1>5 DEF Entries, KeyIds
<1>6. CASE \E r \in Requests : f = [e EXCEPT !.key_version = r.key_version]
  BY <1>6 DEF Entries
<1>7. CASE \E r \in Requests : f = [e EXCEPT !.signed_payload_hash = r.signed_payload_hash]
  BY <1>7 DEF Entries
<1>8. CASE \E r \in Requests : f = [e EXCEPT !.domain_tag = r.domain_tag]
  BY <1>8 DEF Entries
<1>9. QED
  BY <1>1, <1>2, <1>3, <1>4, <1>5, <1>6, <1>7, <1>8

\* A signature is exchanged for an issued one, or keeps its secret and message.
LEMMA SignaturesExchanged ==
  ASSUME issued \subseteq Requests, NEW e \in Entries, NEW f \in SignatureExchanged(e)
  PROVE  /\ f \in Entries
         /\ \/ \E r \in issued : f.signature = EntryOf(r).signature
            \/ /\ f.signature.secret = e.signature.secret
               /\ f.signature.message = e.signature.message
<1>1. e.signature \in Signatures
  BY EntryParts
<1>2. ASSUME NEW r \in issued, f = [e EXCEPT !.signature = EntryOf(r).signature]
      PROVE  f \in Entries /\ f.signature = EntryOf(r).signature
  <2>1. EntryOf(r).signature \in Signatures
    BY IssuedIsAnEntry, EntryParts
  <2>2. QED
    BY <1>2, <2>1 DEF Entries
<1>3. ASSUME NEW fault \in {"malformed", "oversized"}, f = [e EXCEPT !.signature.faults = {fault}]
      PROVE  /\ f \in Entries
             /\ f.signature.secret = e.signature.secret
             /\ f.signature.message = e.signature.message
  <2>1. [e.signature EXCEPT !.faults = {fault}] \in Signatures
    BY <1>1 DEF Signatures
  <2>2. f \in Entries /\ f.signature = [e.signature EXCEPT !.faults = {fault}]
    BY <1>3, <2>1 DEF Entries
  <2>3. QED
    BY <1>1, <2>2 DEF Signatures
<1>4. ASSUME f = [e EXCEPT !.signature.length = "long"]
      PROVE  /\ f \in Entries
             /\ f.signature.secret = e.signature.secret
             /\ f.signature.message = e.signature.message
  <2>1. [e.signature EXCEPT !.length = "long"] \in Signatures
    BY <1>1 DEF Signatures
  <2>2. f \in Entries /\ f.signature = [e.signature EXCEPT !.length = "long"]
    BY <1>4, <2>1 DEF Entries
  <2>3. QED
    BY <1>1, <2>2 DEF Signatures
<1>5. \/ \E r \in issued : f = [e EXCEPT !.signature = EntryOf(r).signature]
      \/ \E fault \in {"malformed", "oversized"} : f = [e EXCEPT !.signature.faults = {fault}]
      \/ f = [e EXCEPT !.signature.length = "long"]
  BY Zenon DEF SignatureExchanged
<1>6. QED
  BY <1>2, <1>3, <1>4, <1>5

\* Nothing is issued at first.
LEMMA InitIsInductive == Init => Inductive
BY DEF Init, Inductive, TypeOK, Results, SignatureWasIssued, VerifiedWasIssued

\* An entry that is signed carries the signature of its own request.
LEMMA SignPreserves ==
  ASSUME Inductive, Sign
  PROVE  Inductive'
<1>1. PICK request \in Requests, library \in Libraries :
        LET before == BuildError(request)
            error  == FirstError(<<before,
                        SignError(request.algorithm, request.reference, library)>>)
        IN  /\ last' = [operation |-> "sign", request |-> request, library |-> library,
                        consulted |-> before = Passed, verdict |-> error]
            /\ IF error = Passed
               THEN entry' = EntryOf(request) /\ issued' = issued \cup {request} /\ splices' = 0
               ELSE UNCHANGED <<entry, issued, splices>>
  BY Zenon DEF Sign
<1> DEFINE c1 == BuildError(request)
           c2 == SignError(request.algorithm, request.reference, library)
           error == FirstError(<<c1, c2>>)
<1>2. c1 \in Outcomes /\ c2 \in Outcomes
  BY BuildOutcome, SignOutcome
<1>3. /\ last' = [operation |-> "sign", request |-> request, library |-> library,
                  consulted |-> c1 = Passed, verdict |-> error]
      /\ IF error = Passed
         THEN entry' = EntryOf(request) /\ issued' = issued \cup {request}
         ELSE entry' = entry /\ issued' = issued
  BY <1>1
<1> HIDE DEF c1, c2
<1>4. error \in Outcomes
  <2>1. <<c1, c2>> \in Seq(Outcomes)
    BY <1>2
  <2>2. QED
    BY <2>1, FirstErrorOutcome
<1> HIDE DEF error
<1>5. last' \in Results /\ last'.operation = "sign"
  BY <1>3, <1>4 DEF Results, Outcomes
<1>6. issued' \subseteq Requests /\ entry' \in Entries \cup {None}
  BY <1>3, IssuedIsAnEntry DEF Inductive, TypeOK
<1>7. SignatureWasIssued'
  <2>1. CASE error = Passed
    BY <1>3, <2>1, IssuedIsAnEntry DEF SignatureWasIssued
  <2>2. CASE error # Passed
    BY <1>3, <2>2 DEF Inductive, SignatureWasIssued
  <2>3. QED
    BY <2>1, <2>2
<1>8. VerifiedWasIssued'
  BY <1>5 DEF VerifiedWasIssued
<1>9. QED
  BY <1>5, <1>6, <1>7, <1>8 DEF Inductive, TypeOK

\* Whatever is exchanged, the signature stays one that was issued.
LEMMA SplicePreserves ==
  ASSUME Inductive, Splice
  PROVE  Inductive'
<1>1. /\ entry \in Entries
      /\ issued \subseteq Requests
      /\ entry' \in FieldExchanged(entry) \cup SignatureExchanged(entry)
      /\ last' = [operation |-> "none"]
      /\ issued' = issued
  BY DEF Inductive, TypeOK, Splice
<1>2. PICK r \in issued : /\ entry.signature.secret = r.reference.secret
                          /\ entry.signature.message = Message(r)
  BY DEF Inductive, SignatureWasIssued, Splice
<1>3. CASE entry' \in FieldExchanged(entry)
  BY <1>1, <1>2, <1>3, FieldsExchanged
     DEF Inductive, TypeOK, Results, SignatureWasIssued, VerifiedWasIssued
<1>4. CASE entry' \in SignatureExchanged(entry)
  <2>1. /\ entry' \in Entries
        /\ \E q \in issued : /\ entry'.signature.secret = q.reference.secret
                             /\ entry'.signature.message = Message(q)
    BY <1>1, <1>2, <1>4, SignaturesExchanged, IssuedIsAnEntry
  <2>2. QED
    BY <1>1, <2>1 DEF Inductive, TypeOK, Results, SignatureWasIssued, VerifiedWasIssued
<1>5. QED
  BY <1>1, <1>3, <1>4

\* A signature that is good for the message of an entry was issued for that
\* message, and the message determines the fields.
LEMMA VerifyPreserves ==
  ASSUME Inductive, Verify
  PROVE  Inductive'
<1>1. PICK key \in Keys, library \in Libraries :
        last' = [operation |-> "verify", entry |-> entry, key |-> key, library |-> library,
                 consulted |-> EntryError(entry, key) = Passed,
                 verdict |-> Verdict(entry, key, library)]
  BY Zenon DEF Verify
<1>2. /\ entry \in Entries /\ entry # None
      /\ issued \subseteq Requests
      /\ entry' = entry /\ issued' = issued
  BY DEF Inductive, TypeOK, Verify
<1>3. PICK r \in issued : /\ entry.signature.secret = r.reference.secret
                          /\ entry.signature.message = Message(r)
  BY <1>2 DEF Inductive, SignatureWasIssued
<1>4. /\ last' \in Results
      /\ last'.verdict = Verdict(entry, key, library)
      /\ last'.entry = entry /\ last'.key = key
  BY <1>1, <1>2, VerdictIsSound DEF Results
<1>5. ASSUME Verdict(entry, key, library) = "True"
      PROVE  IsIssueOf(r, entry, key)
  <2>1. entry.signature.secret = key.public_key.secret /\ entry.signature.message = Message(entry)
    BY <1>5, VerdictIsSound DEF SignatureIsGood
  <2>2. Message(entry) = Message(r) /\ key.public_key.secret = r.reference.secret
    BY <1>3, <2>1
  <2>3. /\ entry.key_id.lines \in Seq(STRING) /\ entry.key_version \in DOMAIN Decimal
        /\ r.key_id.lines \in Seq(STRING) /\ r.key_version \in DOMAIN Decimal
    BY <1>2, EntryParts, RequestsNameKeys
  <2>4. QED
    BY <2>2, <2>3, MessageBindsEverything DEF IsIssueOf
<1>6. VerifiedWasIssued'
  BY <1>2, <1>4, <1>5 DEF VerifiedWasIssued, IsIssueOf
<1>7. SignatureWasIssued'
  BY <1>2 DEF Inductive, SignatureWasIssued
<1>8. QED
  BY <1>2, <1>4, <1>6, <1>7 DEF Inductive, TypeOK

\* Every reachable state satisfies the invariant.
LEMMA InductiveHolds == Spec => []Inductive
<1>1. ASSUME Inductive, [Next]_vars
      PROVE  Inductive'
  <2>1. CASE Sign
    BY <1>1, <2>1, SignPreserves
  <2>2. CASE Splice
    BY <1>1, <2>2, SplicePreserves
  <2>3. CASE Verify
    BY <1>1, <2>3, VerifyPreserves
  <2>4. CASE UNCHANGED vars
    BY <1>1, <2>4 DEF vars, Inductive, TypeOK, SignatureWasIssued, VerifiedWasIssued
  <2>5. QED
    BY <1>1, <2>1, <2>2, <2>3, <2>4 DEF Next
<1>2. QED
  BY <1>1, InitIsInductive, PTL DEF Spec

\* A verification ends in a boolean or an error of the adapter, with any library.
THEOREM CryptoTypes == Spec => []TypeOK
<1>1. Inductive => TypeOK
  BY DEF Inductive
<1>2. QED
  BY <1>1, InductiveHolds, PTL

\* What verifies was issued for exactly these fields, under the key that verifies it.
THEOREM VerifiedEntriesWereIssued == Spec => []VerifiedWasIssued
<1>1. Inductive => VerifiedWasIssued
  BY DEF Inductive
<1>2. QED
  BY <1>1, InductiveHolds, PTL

\* No library turns the verdict another one gave.
THEOREM LibrariesAgree == Spec => []LibraryCannotTurnAVerdict
<1>1. Init => LibraryCannotTurnAVerdict
  BY DEF Init, LibraryCannotTurnAVerdict
<1>2. ASSUME LibraryCannotTurnAVerdict, [Next]_vars
      PROVE  LibraryCannotTurnAVerdict'
  <2>1. CASE Sign
    <3>1. last'.operation = "sign"
      BY <2>1 DEF Sign
    <3>2. QED
      BY <3>1 DEF LibraryCannotTurnAVerdict
  <2>2. CASE Splice
    BY <2>2 DEF Splice, LibraryCannotTurnAVerdict
  <2>3. CASE Verify
    <3>1. PICK key \in Keys, library \in Libraries :
            last' = [operation |-> "verify", entry |-> entry, key |-> key, library |-> library,
                     consulted |-> EntryError(entry, key) = Passed,
                     verdict |-> Verdict(entry, key, library)]
      BY <2>3, Zenon DEF Verify
    <3>2. /\ last'.verdict = Verdict(entry, key, library)
          /\ last'.entry = entry /\ last'.key = key
      BY <3>1
    <3>3. ASSUME Verdict(entry, key, library) = "False", NEW other \in Libraries
          PROVE  Verdict(entry, key, other) # "True"
      BY <3>3, VerdictIsSound
    <3>4. QED
      BY <3>2, <3>3 DEF LibraryCannotTurnAVerdict
  <2>4. CASE UNCHANGED vars
    BY <1>2, <2>4 DEF vars, LibraryCannotTurnAVerdict
  <2>5. QED
    BY <1>2, <2>1, <2>2, <2>3, <2>4 DEF Next
<1>3. QED
  BY <1>1, <1>2, PTL DEF Spec
-----------------------------------------------------------------------------
(* What was issued verifies *)

\* A block of checks passes when each of them does, and only then.
LEMMA FirstErrorExact ==
  ASSUME NEW checks \in Seq(Outcomes)
  PROVE  FirstError(checks) = Passed <=> \A i \in DOMAIN checks : checks[i] = Passed
<1> DEFINE failing == {i \in DOMAIN checks : checks[i] # Passed}
<1>0. DOMAIN checks \subseteq Nat
  OBVIOUS
<1>1. CASE failing = {}
  BY <1>1 DEF FirstError
<1>2. CASE failing # {}
  <2>1. failing \in SUBSET Nat
    BY <1>0
  <2>2. PICK m \in failing : \A j \in failing : m <= j
    BY <1>2, <2>1, LeastOfNaturals
  <2>3. \A j \in DOMAIN checks : j < m => checks[j] = Passed
    BY <1>0, <2>2
  <2>4. FirstError(checks) # Passed
    BY <2>2, <2>3 DEF FirstError
  <2>5. QED
    BY <1>2, <2>4
<1>3. QED
  BY <1>1, <1>2

\* A request that was built has a profile, a key name, a payload and an algorithm
\* an entry of it can be verified with.
LEMMA BuiltRequest ==
  ASSUME NEW r, BuildError(r) = Passed
  PROVE  /\ ProfileError(r) = Passed /\ KeyNameError(r) = Passed
         /\ MessageError(r) = Passed /\ SupportError(r) = Passed
<1> DEFINE c1 == ProfileError(r)
           c2 == KeyNameError(r)
           c3 == MessageError(r)
           c4 == Demand("blank" \notin r.reference.faults, "error")
           c5 == Demand("test-only" \notin r.reference.faults, "material")
           c6 == SupportError(r)
<1>1. /\ c1 \in Outcomes /\ c2 \in Outcomes /\ c4 \in Outcomes
      /\ c5 \in Outcomes /\ c6 \in Outcomes
  BY DEF ProfileError, KeyNameError, SupportError, Demand, Outcomes, Errors
<1>2. c3 \in Outcomes
  BY MessageOutcome
<1>3. FirstError(<<c1, c2, c3, c4, c5, c6>>) = Passed
  BY DEF BuildError
<1> HIDE DEF c1, c2, c3, c4, c5, c6
<1>4. <<c1, c2, c3, c4, c5, c6>> \in Seq(Outcomes)
  BY <1>1, <1>2
<1>5. c1 = Passed /\ c2 = Passed /\ c3 = Passed /\ c6 = Passed
  <2> DEFINE checks == <<c1, c2, c3, c4, c5, c6>>
  <2>1. /\ DOMAIN checks = 1..6
        /\ checks[1] = c1 /\ checks[2] = c2 /\ checks[3] = c3 /\ checks[6] = c6
    OBVIOUS
  <2>2. checks \in Seq(Outcomes) /\ FirstError(checks) = Passed
    BY <1>3, <1>4
  <2> HIDE DEF checks
  <2>3. \A i \in 1..6 : checks[i] = Passed
    BY <2>1, <2>2, FirstErrorExact
  <2>4. QED
    BY <2>1, <2>3
<1>6. QED
  BY <1>5 DEF c1, c2, c3, c6

\* The entry a request was built into, with a key that names it and a sound text.
LEMMA IssuedPassesChecks ==
  ASSUME NEW r, NEW key, BuildError(r) = Passed, KeyMatches(EntryOf(r), key),
         key.public_key.faults = {}, key.key_id.faults = {}
  PROVE  EntryError(EntryOf(r), key) = Passed
<1> DEFINE e  == EntryOf(r)
           c1 == Demand(e.fields = "exact", "error")
           c2 == Demand("oversized" \notin e.signature.faults \cup key.public_key.faults, "error")
           c3 == Demand("test-only" \notin key.key_id.faults \cup key.public_key.faults, "material")
           c4 == Demand("malformed" \notin e.signature.faults \cup key.public_key.faults, "error")
           c5 == ProfileError(e)
           c6 == KeyNameError(e)
           c7 == Demand(KeyMatches(e, key), "error")
           c8 == SupportError(e)
           c9 == MessageError(e)
<1>1. /\ e.fields = "exact" /\ e.signature.faults = {}
      /\ e.algorithm = r.algorithm /\ e.standard_profile = r.standard_profile
      /\ e.key_id = r.key_id /\ e.key_version = r.key_version
      /\ e.signed_payload_hash = r.signed_payload_hash /\ e.domain_tag = r.domain_tag
  BY DEF EntryOf
<1>2. KeyMatches(e, key)
  OBVIOUS
<1>3. EntryError(e, key) = FirstError(<<c1, c2, c3, c4, c5, c6, c7, c8, c9>>)
  BY DEF EntryError
<1> HIDE DEF e
<1>4. c5 = Passed /\ c6 = Passed /\ c8 = Passed /\ c9 = Passed
  BY <1>1, BuiltRequest
     DEF ProfileError, KeyNameError, SupportError, MessageError, PayloadError
<1>5. c1 = Passed /\ c2 = Passed /\ c3 = Passed /\ c4 = Passed /\ c7 = Passed
  BY <1>1, <1>2 DEF Demand
<1> HIDE DEF c1, c2, c3, c4, c5, c6, c7, c8, c9
<1>6. <<c1, c2, c3, c4, c5, c6, c7, c8, c9>> \in Seq(Outcomes)
  BY <1>4, <1>5 DEF Outcomes
<1> DEFINE checks == <<c1, c2, c3, c4, c5, c6, c7, c8, c9>>
<1>7. checks \in Seq(Outcomes) /\ \A i \in DOMAIN checks : checks[i] = Passed
  BY <1>4, <1>5, <1>6
<1>8. FirstError(checks) = Passed
  <2> HIDE DEF checks
  <2>1. QED
    BY <1>7, FirstErrorExact
<1>9. QED
  BY <1>3, <1>8 DEF e

\* A library that works finds nothing wrong with the texts of an issued entry.
LEMMA HealthyVerifies ==
  ASSUME NEW public_key, NEW signature,
         public_key.length = "exact", public_key.faults = {},
         signature.length = HonestLength, signature.faults = {}
  PROVE  VerifyError(BackendAlgorithm, public_key, signature, Healthy) = Passed
<1>1. /\ Healthy.load = "ok" /\ Healthy.mechanism = "enabled"
      /\ Healthy.details = "good" /\ Healthy.answer = "honest"
  BY DEF Healthy
<1> DEFINE m1 == Demand(Healthy.load # "missing", "unavailable")
           m2 == Demand(Healthy.load # "broken", "error")
           m3 == Demand(Healthy.mechanism # "discovery raises", "error")
           m4 == Demand(Healthy.mechanism = "enabled", "unavailable")
           l1 == Demand(Healthy.details \in {"none", "good"}, "error")
           l2 == Demand(\/ Healthy.details = "none"
                        \/ /\ public_key.length = "exact"
                           /\ signature.length \in {"exact"} \cup
                                (IF BackendAlgorithm = "fn-dsa" THEN {"short"} ELSE {}), "error")
           c1 == Demand(BackendAlgorithm = BackendAlgorithm, "unavailable")
           c2 == Demand({"oversized", "malformed"}
                          \cap (public_key.faults \cup signature.faults) = {}, "error")
           c3 == MechanismError(Healthy)
           c4 == LengthError(public_key, signature, Healthy)
           c5 == Demand(Healthy.answer = "honest", "error")
<1>2. m1 = Passed /\ m2 = Passed /\ m3 = Passed /\ m4 = Passed
  BY <1>1 DEF Demand
<1>3. l1 = Passed /\ l2 = Passed
  BY <1>1 DEF Demand, HonestLength
<1>4. c1 = Passed /\ c2 = Passed /\ c5 = Passed
  BY <1>1 DEF Demand
<1>5. c3 = FirstError(<<m1, m2, m3, m4>>) /\ c4 = FirstError(<<l1, l2>>)
  BY DEF MechanismError, LengthError
<1>6. VerifyError(BackendAlgorithm, public_key, signature, Healthy)
        = FirstError(<<c1, c2, c3, c4, c5>>)
  BY DEF VerifyError
<1> HIDE DEF m1, m2, m3, m4, l1, l2, c1, c2, c3, c4, c5
<1>7. c3 = Passed
  BY <1>2, <1>5 DEF FirstError
<1>8. c4 = Passed
  BY <1>3, <1>5 DEF FirstError
<1>9. QED
  BY <1>4, <1>6, <1>7, <1>8 DEF FirstError

\* The verdict on an issued entry.
LEMMA IssuedIsTrue ==
  ASSUME NEW r, NEW key, BuildError(r) = Passed,
         IsIssueOf(r, EntryOf(r), key), KeyMatches(EntryOf(r), key),
         key.public_key.length = "exact", key.public_key.faults = {},
         key.key_id.faults = {}
  PROVE  Verdict(EntryOf(r), key, Healthy) = "True"
<1> DEFINE e  == EntryOf(r)
           c1 == EntryError(e, key)
           c2 == VerifyError(e.algorithm, key.public_key, e.signature, Healthy)
<1>1. c1 = Passed
  BY IssuedPassesChecks
<1>2. /\ e.algorithm = r.algorithm /\ e.standard_profile = r.standard_profile
      /\ e.key_id = r.key_id /\ e.key_version = r.key_version
      /\ e.signed_payload_hash = r.signed_payload_hash /\ e.domain_tag = r.domain_tag
      /\ e.signature.secret = r.reference.secret /\ e.signature.message = Message(r)
      /\ e.signature.length = HonestLength /\ e.signature.faults = {}
  BY DEF EntryOf
<1>3. key.public_key.secret = r.reference.secret
  BY DEF IsIssueOf
<1> HIDE DEF e
<1>4. r.algorithm = BackendAlgorithm
  BY BuiltRequest DEF SupportError, Demand, Passed
<1>5. c2 = Passed
  BY <1>2, <1>4, HealthyVerifies
<1>6. Message(e) = Message(r)
  BY <1>2 DEF Message
<1>7. SignatureIsGood(key.public_key, Message(e), e.signature)
  BY <1>2, <1>3, <1>6 DEF SignatureIsGood
<1>8. Verdict(e, key, Healthy)
        = IF FirstError(<<c1, c2>>) # Passed THEN FirstError(<<c1, c2>>)
          ELSE IF SignatureIsGood(key.public_key, Message(e), e.signature)
               THEN "True" ELSE "False"
  BY DEF Verdict
<1> HIDE DEF c1, c2
<1>9. FirstError(<<c1, c2>>) = Passed
  BY <1>1, <1>5 DEF FirstError
<1>10. QED
  BY <1>7, <1>8, <1>9 DEF e

\* A request is issued only when it was built.
Issuable == \A r \in issued : BuildError(r) = Passed

\* Signing checks the request first.
LEMMA SignIssues ==
  ASSUME Issuable, Sign
  PROVE  Issuable' /\ last'.operation = "sign"
<1>1. PICK request \in Requests, library \in Libraries :
        LET before == BuildError(request)
            error  == FirstError(<<before,
                        SignError(request.algorithm, request.reference, library)>>)
        IN  /\ last' = [operation |-> "sign", request |-> request, library |-> library,
                        consulted |-> before = Passed, verdict |-> error]
            /\ IF error = Passed
               THEN entry' = EntryOf(request) /\ issued' = issued \cup {request} /\ splices' = 0
               ELSE UNCHANGED <<entry, issued, splices>>
  BY Zenon DEF Sign
<1> DEFINE c1 == BuildError(request)
           c2 == SignError(request.algorithm, request.reference, library)
<1>2. /\ last'.operation = "sign"
      /\ \/ FirstError(<<c1, c2>>) = Passed /\ issued' = issued \cup {request}
         \/ issued' = issued
  BY <1>1
<1>3. <<c1, c2>> \in Seq(Outcomes)
  BY BuildOutcome, SignOutcome
<1>4. FirstError(<<c1, c2>>) = Passed => c1 = Passed
  <2> HIDE DEF c1, c2
  <2> DEFINE checks == <<c1, c2>>
  <2>1. checks \in Seq(Outcomes) /\ 1 \in DOMAIN checks /\ checks[1] = c1
    BY <1>3
  <2> HIDE DEF checks
  <2>2. FirstError(checks) = Passed => checks[1] = Passed
    BY <2>1, FirstErrorExact
  <2>3. QED
    BY <2>1, <2>2 DEF checks
<1>5. QED
  BY <1>2, <1>4 DEF Issuable

\* What was signed does verify: whatever is refused of an entry and its key, none
\* of it is refused of an entry that was issued and not touched.
THEOREM IssuedEntriesVerify == Spec => []IssuedVerifies
<1>1. Init => Issuable /\ IssuedVerifies
  BY DEF Init, Issuable, IssuedVerifies
<1>2. ASSUME Issuable, IssuedVerifies, [Next]_vars
      PROVE  Issuable' /\ IssuedVerifies'
  <2>1. CASE Sign
    BY <1>2, <2>1, SignIssues DEF IssuedVerifies
  <2>2. CASE Splice
    BY <1>2, <2>2 DEF Splice, Issuable, IssuedVerifies
  <2>3. CASE Verify
    <3>1. PICK key \in Keys, library \in Libraries :
            last' = [operation |-> "verify", entry |-> entry, key |-> key, library |-> library,
                     consulted |-> EntryError(entry, key) = Passed,
                     verdict |-> Verdict(entry, key, library)]
      BY <2>3, Zenon DEF Verify
    <3>2. /\ last'.verdict = Verdict(entry, key, library)
          /\ last'.entry = entry /\ last'.key = key /\ last'.library = library
      BY <3>1
    <3>3. issued' = issued /\ Issuable'
      BY <1>2, <2>3 DEF Verify, Issuable
    <3>4. ASSUME NEW r \in issued,
                 entry = EntryOf(r), IsIssueOf(r, entry, key), KeyMatches(entry, key),
                 key.public_key.length = "exact", key.public_key.faults = {},
                 key.key_id.faults = {}, library = Healthy
          PROVE  Verdict(entry, key, library) = "True"
      <4>1. BuildError(r) = Passed
        BY <1>2 DEF Issuable
      <4>2. QED
        BY <3>4, <4>1, IssuedIsTrue
    <3>5. QED
      BY <3>2, <3>3, <3>4 DEF IssuedVerifies, IsIssueOf, KeyMatches
  <2>4. CASE UNCHANGED vars
    BY <1>2, <2>4 DEF vars, Issuable, IssuedVerifies
  <2>5. QED
    BY <1>2, <2>1, <2>2, <2>3, <2>4 DEF Next
<1>3. QED
  BY <1>1, <1>2, PTL DEF Spec
=============================================================================
