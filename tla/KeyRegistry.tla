----------------------------- MODULE KeyRegistry -----------------------------
(***************************************************************************)
(* shield.key_registry.v1: loading a registry and resolving a trusted key. *)
(*                                                                         *)
(* A registry is [registry_version, schema, entries]; an entry is          *)
(* [role, key, algorithm, not_before, not_after, status], where `key`      *)
(* stands for the pair (key_id, key_version) and times are naturals.       *)
(***************************************************************************)
EXTENDS ShieldPolicy, SequencesExt

KeyIdentity(entry) == <<entry.role, entry.key, entry.algorithm>>

\* One iteration of the loop of load_key_registry.
RegistryEntryVerdict(entries, i) ==
  LET entry == entries[i]
  IN  FirstFailure(<<
        Demand(entry.role \in SupportedRoles, {"key", "role"}),
        Demand(entry.algorithm \in Algorithms, {"signature", "algorithm"}),
        Demand(entry.not_before < entry.not_after, {"key", "validity"}),
        Demand(entry.status \in {"active", "revoked"}, {"key"}),
        Demand(\A j \in 1..(i - 1) : KeyIdentity(entries[j]) # KeyIdentity(entry),
               {"key", "registry"}) >>)

\* load_key_registry
LoadRegistryVerdict(registry) ==
  FirstFailure(<<
    Demand(registry.schema = "shield.key_registry.v1", {"key", "registry", "schema"}),
    Demand(registry.entries # <<>>, {"key", "registry"}),
    FirstFailure([i \in DOMAIN registry.entries |->
                    RegistryEntryVerdict(registry.entries, i)]) >>)

RegistryFloorVerdict(registry, minimum) ==
  Demand(registry.registry_version >= minimum, {"key", "registry"})

\* The first entry with this identity, 0 when there is none.
KeyIndex(registry, role, key, algorithm) ==
  SelectInSeq(registry.entries,
              LAMBDA entry : KeyIdentity(entry) = <<role, key, algorithm>>)

\* find_key.  The verification time must lie in the key's window, and so must
\* both ends of the artifact's window; that it lies in the artifact's window is
\* not asked here.
FindKeyVerdict(registry, role, key, algorithm, now, not_before, not_after) ==
  LET found == KeyIndex(registry, role, key, algorithm)
      trusted == registry.entries[found]
      InKeyWindow(time) == trusted.not_before <= time /\ time <= trusted.not_after
  IN  IF ~(not_before < not_after) THEN Classify({"freshness"})
      ELSE IF found = 0 THEN Classify({"key"})
      ELSE FirstFailure(<<
             Demand(trusted.status = "active", {"key"}),
             Demand(InKeyWindow(now), {"key", "time"}),
             Demand(InKeyWindow(not_before) /\ InKeyWindow(not_after),
                    {"key", "validity"}) >>)
=============================================================================
