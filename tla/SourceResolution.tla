---------------------------- MODULE SourceResolution ----------------------------
(***************************************************************************)
(* How a reconcile gets from the spec of a DriftCheck to what it reads:    *)
(* buildSource, resolveGitAuth and configMapManifests of                   *)
(* internal/controller, and authMethod and knownHostsCallback of           *)
(* internal/source, which turn the credentials into those of the clone.    *)
(*                                                                         *)
(* ConfigMaps and Secrets belong to others: they may change between any    *)
(* two steps, and from one reconcile to the next.                          *)
(***************************************************************************)
EXTENDS Naturals, Sequences, FiniteSets

CONSTANTS Requests,      \* the sources of the specs considered
          Secrets,       \* the contents the referenced Secret may have
          ConfigMaps,    \* the contents the referenced ConfigMap may have
          Nil            \* nothing: a nil pointer, or an object not found

-----------------------------------------------------------------------------
(* The value of a key: missing or of no length, only line ends, other      *)
(* blanks, or text.                                                        *)
Values == {"", "newline", "blank", "text"}

TrimSpace(v) == IF v = "text" THEN "text" ELSE ""
TrimRightNewlines(v) == IF v = "newline" THEN "" ELSE v

SecretKeys == {"username", "password", "bearerToken", "identity", "known_hosts"}

(* Entries of a ConfigMap, in the order of their keys: in data or in       *)
(* binaryData, never in both.                                              *)
EntryKeys == 1..3
Entries == {"none", "blank", "manifest"}

(* spec.source, and the block its type calls for, if it is there at all.   *)
(* A Git, Helm or Kustomize block has a url, or not, and may refer to      *)
(* credentials; a ConfigMap block may name a key (0: all).                 *)
GitAuths == [type : {"Basic", "Bearer", "SSH", "Unknown"}]
GitBlocks == [hasURL : BOOLEAN, auth : GitAuths \cup {Nil}]
ConfigMapBlocks == [key : EntryKeys \cup {0}]

CheckoutTypes == {"Git", "Helm", "Kustomize"}
Sources == [type : CheckoutTypes, block : GitBlocks \cup {Nil}]
             \cup [type : {"ConfigMap"}, block : ConfigMapBlocks \cup {Nil}]
             \cup [type : {"Unknown"}, block : {Nil}]

ASSUME RequestsAreSources == Requests \subseteq Sources

ASSUME ContentsAreContents ==
    /\ Secrets \subseteq [SecretKeys -> Values]
    /\ \A m \in ConfigMaps : \A k \in EntryKeys :
          /\ m.data[k] \in Entries /\ m.binaryData[k] \in Entries
          /\ m.data[k] = "none" \/ m.binaryData[k] = "none"

-----------------------------------------------------------------------------
(* resolveGitAuth.  GitAuth of internal/source: a populated scheme, or     *)
(* several, or none.                                                       *)
BasicCredentials == [username : Values, password : Values]
SSHCredentials == [privateKey : Values, passphrase : Values, knownHosts : Values]
Credentials == [basic : BasicCredentials \cup {Nil}, bearer : Values,
                ssh : SSHCredentials \cup {Nil}]

ASSUME NilIsNoCredential ==
    Nil \notin Credentials /\ Nil \notin BasicCredentials /\ Nil \notin SSHCredentials

Failed == [failed |-> TRUE]
Resolved(value) == [failed |-> FALSE, value |-> value]

NoScheme == [basic |-> Nil, bearer |-> "", ssh |-> Nil]

(* Bug: a Secret without the token is taken for one without credentials. *)
ResolveBearer_Lenient(secret) ==
    Resolved([NoScheme EXCEPT !.bearer = TrimRightNewlines(secret["bearerToken"])])

ResolveBearer(secret) ==
    LET token == TrimRightNewlines(secret["bearerToken"])
    IN IF token = "" THEN Failed ELSE Resolved([NoScheme EXCEPT !.bearer = token])

ResolveBasic(secret) ==
    LET username == TrimSpace(secret["username"])
        password == TrimRightNewlines(secret["password"])
    IN IF username = "" \/ password = "" THEN Failed
       ELSE Resolved([NoScheme EXCEPT !.basic = [username |-> username, password |-> password]])

(* Bug: an empty known_hosts is left for the clone to notice. *)
ResolveSSH_LenientHosts(secret) ==
    IF TrimSpace(secret["identity"]) = "" THEN Failed
    ELSE Resolved([NoScheme EXCEPT !.ssh =
                     [privateKey |-> secret["identity"],
                      passphrase |-> TrimRightNewlines(secret["password"]),
                      knownHosts |-> secret["known_hosts"]]])

ResolveSSH(secret) ==
    IF TrimSpace(secret["identity"]) = "" \/ TrimSpace(secret["known_hosts"]) = "" THEN Failed
    ELSE Resolved([NoScheme EXCEPT !.ssh =
                     [privateKey |-> secret["identity"],
                      passphrase |-> TrimRightNewlines(secret["password"]),
                      knownHosts |-> secret["known_hosts"]]])

ResolveGitAuth(auth, secret) ==
    CASE auth = Nil -> Resolved(Nil)
      [] auth # Nil /\ secret = Nil -> Failed
      [] auth # Nil /\ secret # Nil ->
            CASE auth.type = "Basic" -> ResolveBasic(secret)
              [] auth.type = "Bearer" -> ResolveBearer(secret)
              [] auth.type = "SSH" -> ResolveSSH(secret)
              [] OTHER -> Failed

-----------------------------------------------------------------------------
(* configMapManifests. *)

Get(m, k) == IF m.data[k] # "none" THEN m.data[k] ELSE m.binaryData[k]

Document(m, k) == IF Get(m, k) = "none" THEN <<>> ELSE << <<k, Get(m, k)>> >>

(* Bug: binaryData is not looked at when every entry is wanted. *)
Documents_DataOnly(m) ==
    LET DataEntry(k) == IF m.data[k] = "none" THEN <<>> ELSE Document(m, k)
    IN DataEntry(1) \o DataEntry(2) \o DataEntry(3)

(* The entries in the order of their keys: each once, since none is both   *)
(* in data and in binaryData.                                              *)
Documents(m) == Document(m, 1) \o Document(m, 2) \o Document(m, 3)

(* The documents joined by separators: what is left when blanks are        *)
(* trimmed is empty only if there is neither text nor a separator.         *)
JoinedIsBlank(docs) == Len(docs) <= 1 /\ \A i \in DOMAIN docs : docs[i][2] = "blank"

ConfigMapManifests(m, key) ==
    IF key # 0
    THEN IF Get(m, key) = "manifest" THEN Resolved(<< <<key, "manifest">> >>) ELSE Failed
    ELSE IF JoinedIsBlank(Documents(m)) THEN Failed ELSE Resolved(Documents(m))

-----------------------------------------------------------------------------
VARIABLES
    request,     \* spec.source
    secret,      \* the Secret the request refers to, or Nil: not found
    configMap,   \* the ConfigMap, likewise
    phase,       \* "start", "resolved", "connected", "sourceError" or "loadError"
    auth,        \* the credentials the source was made with
    stream,      \* the documents a ConfigMap source was made from
    method       \* what the clone authenticates with

vars == <<request, secret, configMap, phase, auth, stream, method>>

(* What is found under the name the request gives; of an object it does    *)
(* not refer to, nothing is said.                                          *)
SecretContents == {Nil} \cup (IF request.type \in CheckoutTypes THEN Secrets ELSE {})
ConfigMapContents == {Nil} \cup (IF request.type = "ConfigMap" THEN ConfigMaps ELSE {})

Init ==
    /\ request \in Requests
    /\ secret \in SecretContents
    /\ configMap \in ConfigMapContents
    /\ phase = "start" /\ auth = Nil /\ stream = <<>> /\ method = Nil

BlockFails ==
    \/ request.block = Nil
    \/ request.block # Nil /\ request.type \in CheckoutTypes /\ ~request.block.hasURL

(* buildSource: nothing is read for a block that is missing or has no url. *)
RejectSource ==
    /\ phase = "start" /\ BlockFails
    /\ phase' = "sourceError"
    /\ UNCHANGED <<request, secret, configMap, auth, stream, method>>

ResolveCheckout ==
    LET credentials == ResolveGitAuth(request.block.auth, secret)
    IN /\ phase = "start" /\ ~BlockFails /\ request.type \in CheckoutTypes
       /\ IF credentials.failed
          THEN phase' = "sourceError" /\ UNCHANGED auth
          ELSE phase' = "resolved" /\ auth' = credentials.value
       /\ UNCHANGED <<request, secret, configMap, stream, method>>

ResolveConfigMap ==
    LET manifests == ConfigMapManifests(configMap, request.block.key)
    IN /\ phase = "start" /\ ~BlockFails /\ request.type = "ConfigMap"
       /\ IF configMap = Nil \/ manifests.failed
          THEN phase' = "sourceError" /\ UNCHANGED stream
          ELSE phase' = "connected" /\ stream' = manifests.value
       /\ UNCHANGED <<request, secret, configMap, auth, method>>

-----------------------------------------------------------------------------
(* authMethod, where a clone begins: a key or known_hosts that cannot be   *)
(* parsed is an error, and so is an empty known_hosts.                     *)
Methods == [scheme : {"anonymous", "Basic", "Bearer"}]
             \cup [scheme : {"SSH"}, pinned : Values \ {""}]

AuthMethods(a) ==
    CASE a = Nil -> {[scheme |-> "anonymous"]}
      [] a # Nil /\ a.basic # Nil -> {[scheme |-> "Basic"]}
      [] a # Nil /\ a.basic = Nil /\ a.bearer # "" -> {[scheme |-> "Bearer"]}
      [] a # Nil /\ a.basic = Nil /\ a.bearer = "" /\ a.ssh # Nil ->
            {Failed} \cup (IF a.ssh.knownHosts = "" THEN {}
                           ELSE {[scheme |-> "SSH", pinned |-> a.ssh.knownHosts]})
      [] OTHER -> {[scheme |-> "anonymous"]}

Connect ==
    /\ phase = "resolved"
    /\ \E m \in AuthMethods(auth) :
          IF m = Failed THEN phase' = "loadError" /\ UNCHANGED method
          ELSE phase' = "connected" /\ method' = m
    /\ UNCHANGED <<request, secret, configMap, auth, stream>>

(* The next reconcile resolves everything anew. *)
ReconcileAgain ==
    /\ phase \in {"connected", "sourceError", "loadError"}
    /\ phase' = "start" /\ auth' = Nil /\ stream' = <<>> /\ method' = Nil
    /\ UNCHANGED <<request, secret, configMap>>

(* Somebody writes or deletes the Secret or the ConfigMap. *)
ContentChanges ==
    /\ \/ secret' \in SecretContents \ {secret} /\ UNCHANGED configMap
       \/ configMap' \in ConfigMapContents \ {configMap} /\ UNCHANGED secret
    /\ UNCHANGED <<request, phase, auth, stream, method>>

Next ==
    \/ RejectSource \/ ResolveCheckout \/ ResolveConfigMap \/ Connect
    \/ ReconcileAgain \/ ContentChanges

Spec == Init /\ [][Next]_vars

-----------------------------------------------------------------------------
(* The type invariant. *)
TypeOK ==
    /\ request \in Requests
    /\ secret \in Secrets \cup {Nil} /\ configMap \in ConfigMaps \cup {Nil}
    /\ phase \in {"start", "resolved", "connected", "sourceError", "loadError"}
    /\ auth \in Credentials \cup {Nil}
    /\ stream \in Seq(EntryKeys \X {"blank", "manifest"})
    /\ method \in Methods \cup {Nil}

(* docs/USAGE.md: a check "does not silently fall back to an anonymous     *)
(* clone".  resolveGitAuth and authMethod each have a way to answer with   *)
(* no credentials; together they clone with those of the scheme that was   *)
(* asked for, whatever is in the Secret and whenever it changes.           *)
ClonesAsAsked ==
    phase = "connected" /\ request.type \in CheckoutTypes =>
        method.scheme = IF request.block.auth = Nil THEN "anonymous"
                        ELSE request.block.auth.type

(* "SSH host-key verification is fail-closed": no clone over SSH without   *)
(* host keys to compare with, and a missing one is a SourceError, which    *)
(* waits for the interval, not a load error, which backs off.              *)
HostKeysArePinned ==
    auth # Nil => (auth.ssh # Nil => auth.ssh.knownHosts = "text")

(* The credentials in hand are those of the scheme that was asked for, and *)
(* of no other: authMethod, which takes the first it finds, has no choice. *)
FitsScheme(credentials, asked) ==
    IF asked = Nil THEN credentials = Nil
    ELSE /\ credentials \in Credentials
         /\ asked.type \in {"Basic", "Bearer", "SSH"}
         /\ asked.type = "Basic" <=> credentials.basic # Nil
         /\ asked.type = "Bearer" <=> credentials.bearer # ""
         /\ asked.type = "SSH" <=> credentials.ssh # Nil

CredentialsFit ==
    phase = "resolved" =>
        /\ request.type \in CheckoutTypes /\ request.block \in GitBlocks
        /\ FitsScheme(auth, request.block.auth)

(* Every manifest the ConfigMap had when it was read is compared, once, in *)
(* the order of the keys, wherever it was stored.                          *)
NoManifestLost ==
    [][ResolveConfigMap /\ phase' = "connected" /\ request.block.key = 0 =>
          \A k \in EntryKeys :
             Cardinality({i \in DOMAIN stream' : stream'[i] = <<k, "manifest">>})
                = Cardinality({place \in {"data", "binaryData"} :
                                  configMap[place][k] = "manifest"})]_vars

(* internal/controller/driftcheck_controller.go: "Empty content is an      *)
(* error, so an empty ConfigMap surfaces as a condition rather than a      *)
(* silent no-op".  A stream that is compared has a manifest in it.         *)
NoSilentNoOp ==
    phase = "connected" /\ request.type = "ConfigMap" =>
        \E i \in DOMAIN stream : stream[i][2] = "manifest"

=============================================================================
