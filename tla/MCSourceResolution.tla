--------------------------- MODULE MCSourceResolution ---------------------------
(* Constants of SourceResolution for TLC. *)
EXTENDS SourceResolution

(* One key of the Secret differs from what its scheme needs, or none. *)
Complete == [k \in SecretKeys |-> "text"]
MCSecrets == {[Complete EXCEPT ![k] = v] : k \in SecretKeys, v \in Values}
               \cup {[k \in SecretKeys |-> v] : v \in Values}

(* Up to two entries, each in data or in binaryData; the third key has     *)
(* none, so that a spec can name a key that is not there.                  *)
MCConfigMaps ==
    {m \in [data : [EntryKeys -> Entries], binaryData : [EntryKeys -> Entries]] :
        \A k \in EntryKeys :
            /\ m.data[k] = "none" \/ m.binaryData[k] = "none"
            /\ k = 3 => m.data[k] = "none" /\ m.binaryData[k] = "none"}

NoSecrets == {}
ConfigMapRequests == {s \in Sources : s.type = "ConfigMap"}

=============================================================================
