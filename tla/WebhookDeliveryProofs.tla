------------------------- MODULE WebhookDeliveryProofs -------------------------
(***************************************************************************)
(* What WebhookDelivery and SourceResolution promise, proved for every     *)
(* set of requests, Secrets and ConfigMaps and every limit on redirects.   *)
(* IndInv is the inductive invariant; resolution.cfg checks it with TLC.   *)
(***************************************************************************)
EXTENDS WebhookDelivery, FiniteSetTheorems, TLAPS

allVars == <<vars, delivery>>

-----------------------------------------------------------------------------
(* What is known of the inputs, whatever the constants. *)

(* A Secret that is there has a value of Values under every key. *)
LEMMA SecretValues ==
    ASSUME NEW s \in Secrets, NEW k \in SecretKeys
    PROVE  s[k] \in Values
  BY ContentsAreContents

(* Trimming gives a value, and never one of only line ends. *)
LEMMA Trimmed ==
    ASSUME NEW v \in Values
    PROVE  /\ TrimSpace(v) \in {"", "text"} /\ TrimSpace(v) \in Values
           /\ TrimRightNewlines(v) \in Values
           /\ TrimSpace(v) # "" => v = "text"
  BY DEF Values, TrimSpace, TrimRightNewlines

(* A request for a checkout has a block of its type, if it has one. *)
LEMMA CheckoutBlocks ==
    ASSUME request \in Requests, request.type \in CheckoutTypes, request.block # Nil
    PROVE  request.block \in GitBlocks
  <1>1. request \in Sources
    BY RequestsAreSources
  <1>. QED
    BY <1>1 DEF Sources, CheckoutTypes

(* A request for a ConfigMap has a block of its type, if it has one. *)
LEMMA ConfigMapBlocksOfRequests ==
    ASSUME request \in Requests, request.type = "ConfigMap", request.block # Nil
    PROVE  request.block \in ConfigMapBlocks
  <1>1. request \in Sources
    BY RequestsAreSources
  <1>. QED
    BY <1>1 DEF Sources, CheckoutTypes

-----------------------------------------------------------------------------
(* resolveGitAuth: what it resolves to is of the scheme asked for. *)

(* Credentials of which one scheme is populated fit that scheme. *)
LEMMA OneScheme ==
    ASSUME NEW asked \in GitAuths, asked # Nil, NEW bearer \in Values,
           NEW basic \in BasicCredentials \cup {Nil}, NEW ssh \in SSHCredentials \cup {Nil},
           asked.type \in {"Basic", "Bearer", "SSH"},
           asked.type = "Basic" <=> basic # Nil,
           asked.type = "Bearer" <=> bearer # "",
           asked.type = "SSH" <=> ssh # Nil
    PROVE  LET value == [basic |-> basic, bearer |-> bearer, ssh |-> ssh]
           IN FitsScheme(value, asked) /\ value.ssh = ssh
  BY DEF FitsScheme, Credentials

(* Basic credentials, and nothing else. *)
LEMMA BasicFits ==
    ASSUME NEW s \in Secrets, NEW asked \in GitAuths, asked.type = "Basic", asked # Nil,
           ~ResolveBasic(s).failed
    PROVE  /\ FitsScheme(ResolveBasic(s).value, asked)
           /\ ResolveBasic(s).value.ssh = Nil
  <1>. DEFINE basic == [username |-> TrimSpace(s["username"]),
                        password |-> TrimRightNewlines(s["password"])]
  <1>1. basic \in BasicCredentials
    BY SecretValues, Trimmed DEF BasicCredentials, SecretKeys
  <1>2. basic # Nil
    BY <1>1, NilIsNoCredential
  <1>3. ResolveBasic(s).value = [NoScheme EXCEPT !.basic = basic]
    BY DEF ResolveBasic, Resolved, Failed
  <1>. HIDE DEF basic
  <1>. DEFINE value == [basic |-> basic, bearer |-> "", ssh |-> Nil]
  <1>4. ResolveBasic(s).value = value
    BY <1>3 DEF NoScheme
  <1>5. FitsScheme(value, asked) /\ value.ssh = Nil
    BY <1>1, <1>2, OneScheme DEF Values
  <1>. HIDE DEF value
  <1>. QED
    BY <1>4, <1>5

(* A token, and nothing else. *)
LEMMA BearerFits ==
    ASSUME NEW s \in Secrets, NEW asked \in GitAuths, asked.type = "Bearer", asked # Nil,
           ~ResolveBearer(s).failed
    PROVE  /\ FitsScheme(ResolveBearer(s).value, asked)
           /\ ResolveBearer(s).value.ssh = Nil
  <1>. DEFINE token == TrimRightNewlines(s["bearerToken"])
  <1>1. token \in Values
    BY SecretValues, Trimmed DEF SecretKeys
  <1>2. token # "" /\ ResolveBearer(s).value = [NoScheme EXCEPT !.bearer = token]
    BY DEF ResolveBearer, Resolved, Failed
  <1>. HIDE DEF token
  <1>. DEFINE value == [basic |-> Nil, bearer |-> token, ssh |-> Nil]
  <1>3. ResolveBearer(s).value = value
    BY <1>2 DEF NoScheme
  <1>4. token # ""
    BY <1>2
  <1>5. FitsScheme(value, asked) /\ value.ssh = Nil
    BY <1>1, <1>4, OneScheme
  <1>. HIDE DEF value
  <1>. QED
    BY <1>3, <1>5

(* A key with the host keys it needs, and nothing else. *)
LEMMA SSHFits ==
    ASSUME NEW s \in Secrets, NEW asked \in GitAuths, asked.type = "SSH", asked # Nil,
           ~ResolveSSH(s).failed
    PROVE  /\ FitsScheme(ResolveSSH(s).value, asked)
           /\ ResolveSSH(s).value.ssh.knownHosts = "text"
  <1>. DEFINE ssh == [privateKey |-> s["identity"],
                      passphrase |-> TrimRightNewlines(s["password"]),
                      knownHosts |-> s["known_hosts"]]
  <1>1. ssh \in SSHCredentials
    BY SecretValues, Trimmed DEF SSHCredentials, SecretKeys
  <1>2. ssh # Nil
    BY <1>1, NilIsNoCredential
  <1>3. /\ TrimSpace(s["known_hosts"]) # ""
        /\ ResolveSSH(s).value = [NoScheme EXCEPT !.ssh = ssh]
    BY DEF ResolveSSH, Resolved, Failed
  <1>4. ssh.knownHosts = "text"
    BY <1>3, SecretValues, Trimmed DEF SecretKeys
  <1>. HIDE DEF ssh
  <1>. DEFINE value == [basic |-> Nil, bearer |-> "", ssh |-> ssh]
  <1>5. ResolveSSH(s).value = value
    BY <1>3 DEF NoScheme
  <1>6. FitsScheme(value, asked) /\ value.ssh = ssh
    BY <1>1, <1>2, OneScheme DEF Values
  <1>. HIDE DEF value
  <1>. QED
    BY <1>4, <1>5, <1>6

(* resolveGitAuth as a whole: credentials of the scheme asked for, with    *)
(* host keys when it is SSH, or an error.                                  *)
LEMMA ResolvesAsAsked ==
    ASSUME NEW s \in Secrets \cup {Nil}, NEW asked \in GitAuths \cup {Nil},
           ~ResolveGitAuth(asked, s).failed
    PROVE  LET value == ResolveGitAuth(asked, s).value
           IN /\ FitsScheme(value, asked)
              /\ value # Nil /\ value.ssh # Nil => value.ssh.knownHosts = "text"
  <1>1. CASE asked = Nil
    BY <1>1 DEF ResolveGitAuth, Resolved, FitsScheme
  <1>2. CASE asked # Nil
    <2>1. asked \in GitAuths /\ s # Nil /\ s \in Secrets
      BY <1>2 DEF ResolveGitAuth, Failed
    <2>2. asked.type \in {"Basic", "Bearer", "SSH", "Unknown"}
      BY <2>1 DEF GitAuths
    <2>3. CASE asked.type = "Basic"
      <3>1. ResolveGitAuth(asked, s) = ResolveBasic(s)
        BY <1>2, <2>1, <2>3 DEF ResolveGitAuth
      <3>. QED
        BY <1>2, <2>1, <2>3, <3>1, BasicFits
    <2>4. CASE asked.type = "Bearer"
      <3>1. ResolveGitAuth(asked, s) = ResolveBearer(s)
        BY <1>2, <2>1, <2>4 DEF ResolveGitAuth
      <3>. QED
        BY <1>2, <2>1, <2>4, <3>1, BearerFits
    <2>5. CASE asked.type = "SSH"
      <3>1. ResolveGitAuth(asked, s) = ResolveSSH(s)
        BY <1>2, <2>1, <2>5 DEF ResolveGitAuth
      <3>. QED
        BY <1>2, <2>1, <2>5, <3>1, SSHFits
    <2>6. CASE asked.type = "Unknown"
      BY <1>2, <2>1, <2>6 DEF ResolveGitAuth, Failed
    <2>. QED
      BY <2>2, <2>3, <2>4, <2>5, <2>6
  <1>. QED
    BY <1>1, <1>2

(* authMethod: of credentials of one scheme, a method of that scheme, or   *)
(* an error.                                                               *)
LEMMA ConnectsAsAsked ==
    ASSUME NEW a, NEW asked \in GitAuths \cup {Nil}, FitsScheme(a, asked),
           NEW m \in AuthMethods(a), m # Failed
    PROVE  /\ m \in Methods
           /\ m.scheme = IF asked = Nil THEN "anonymous" ELSE asked.type
  <1>1. CASE asked = Nil
    <2>1. m = [scheme |-> "anonymous"]
      BY <1>1 DEF FitsScheme, AuthMethods
    <2>. QED
      BY <1>1, <2>1 DEF Methods
  <1>2. CASE asked # Nil
    <2>1. a \in Credentials /\ a # Nil
      BY <1>2, NilIsNoCredential DEF FitsScheme
    <2>2. CASE asked.type = "Basic"
      <3>1. m = [scheme |-> "Basic"]
        BY <1>2, <2>1, <2>2 DEF FitsScheme, AuthMethods
      <3>. QED
        BY <1>2, <2>2, <3>1 DEF Methods
    <2>3. CASE asked.type = "Bearer"
      <3>1. m = [scheme |-> "Bearer"]
        BY <1>2, <2>1, <2>3 DEF FitsScheme, AuthMethods
      <3>. QED
        BY <1>2, <2>3, <3>1 DEF Methods
    <2>4. CASE asked.type = "SSH"
      <3>1. a.ssh \in SSHCredentials
        BY <1>2, <2>1, <2>4 DEF FitsScheme, Credentials
      <3>2. a.ssh.knownHosts \in Values
        BY <3>1 DEF SSHCredentials
      <3>3. a.ssh.knownHosts # "" /\ m = [scheme |-> "SSH", pinned |-> a.ssh.knownHosts]
        BY <1>2, <2>1, <2>4 DEF FitsScheme, AuthMethods
      <3>. QED
        BY <1>2, <2>4, <3>2, <3>3 DEF Methods
    <2>. QED
      BY <1>2, <2>2, <2>3, <2>4 DEF FitsScheme
  <1>. QED
    BY <1>1, <1>2

-----------------------------------------------------------------------------
(* configMapManifests. *)

EntrySeqs == Seq(EntryKeys \X {"blank", "manifest"})

(* What is read of an entry is in one place only. *)
LEMMA EntryGot ==
    ASSUME NEW m \in ConfigMaps, NEW k \in EntryKeys
    PROVE  /\ Get(m, k) \in Entries
           /\ Get(m, k) = "manifest" <=>
                 m.data[k] = "manifest" \/ m.binaryData[k] = "manifest"
           /\ ~(m.data[k] = "manifest" /\ m.binaryData[k] = "manifest")
  BY ContentsAreContents DEF Get, Entries

(* An entry is one document, or none. *)
LEMMA EntryDocument ==
    ASSUME NEW m \in ConfigMaps, NEW k \in EntryKeys
    PROVE  /\ Document(m, k) \in EntrySeqs
           /\ Get(m, k) = "none" => Document(m, k) = <<>>
           /\ Get(m, k) # "none" => Document(m, k) = << <<k, Get(m, k)>> >>
  BY EntryGot DEF Document, EntrySeqs, Entries

(* The documents are a sequence of entries. *)
LEMMA DocumentsType ==
    ASSUME NEW m \in ConfigMaps
    PROVE  Documents(m) \in EntrySeqs
  <1>1. Document(m, 1) \in EntrySeqs /\ Document(m, 2) \in EntrySeqs /\ Document(m, 3) \in EntrySeqs
    BY EntryDocument DEF EntryKeys
  <1>. QED
    BY <1>1 DEF Documents, EntrySeqs

(* What a ConfigMap source is made from is a sequence of entries. *)
LEMMA ManifestsType ==
    ASSUME NEW m \in ConfigMaps, NEW key \in EntryKeys \cup {0},
           ~ConfigMapManifests(m, key).failed
    PROVE  ConfigMapManifests(m, key).value \in EntrySeqs
  <1>1. CASE key # 0
    <2>1. ConfigMapManifests(m, key).value = << <<key, "manifest">> >>
      BY <1>1 DEF ConfigMapManifests, Resolved, Failed
    <2>. QED
      BY <1>1, <2>1 DEF EntrySeqs
  <1>2. CASE key = 0
    <2>1. ConfigMapManifests(m, key).value = Documents(m)
      BY <1>2 DEF ConfigMapManifests, Resolved, Failed
    <2>. QED
      BY <2>1, DocumentsType
  <1>. QED
    BY <1>1, <1>2

-----------------------------------------------------------------------------
(* The part of IndInv that is about the source, and the part about the     *)
(* webhook in hand.                                                        *)
SourceInv ==
    /\ TypeOK /\ NothingCarriedOver /\ CredentialsFit
    /\ HostKeysArePinned /\ ClonesAsAsked

DeliveryInv ==
    /\ delivery \in Deliveries \cup {NoDelivery}
    /\ EventInHand /\ ShownWhereAsked

(* The two parts are the whole. *)
LEMMA TwoParts == IndInv <=> SourceInv /\ DeliveryInv
  BY DEF IndInv, SourceInv, DeliveryInv

(* A reconcile that begins holds nothing. *)
LEMMA FreshStart ==
    ASSUME request' \in Requests, secret' \in Secrets \cup {Nil},
           configMap' \in ConfigMaps \cup {Nil},
           phase' = "start", auth' = Nil, stream' = <<>>, method' = Nil
    PROVE  SourceInv'
  <1>1. TypeOK'
    <2>1. stream' \in Seq(EntryKeys \X {"blank", "manifest"})
      OBVIOUS
    <2>. QED
      BY <2>1 DEF TypeOK
  <1>. QED
    BY <1>1 DEF SourceInv, NothingCarriedOver, CredentialsFit, HostKeysArePinned,
                ClonesAsAsked

(* What the request refers to is found with a content it may have. *)
LEMMA ContentsType ==
    SecretContents \subseteq Secrets \cup {Nil} /\ ConfigMapContents \subseteq ConfigMaps \cup {Nil}
  BY DEF SecretContents, ConfigMapContents

(* ResolveCheckout: what was resolved fits. *)
LEMMA CheckoutPreserves ==
    ASSUME SourceInv, ResolveCheckout
    PROVE  SourceInv'
  <1>. USE DEF SourceInv, TypeOK
  <1>. DEFINE credentials == ResolveGitAuth(request.block.auth, secret)
              block == request.block
  <1>1. /\ phase = "start" /\ request.type \in CheckoutTypes /\ block # Nil
        /\ UNCHANGED <<request, secret, configMap, stream, method>>
    BY DEF ResolveCheckout, BlockFails
  <1>2. block \in GitBlocks /\ block.auth \in GitAuths \cup {Nil}
    BY <1>1, CheckoutBlocks DEF GitBlocks
  <1>4. CASE credentials.failed
    <2>1. phase' = "sourceError" /\ auth' = auth
      BY <1>4 DEF ResolveCheckout
    <2>. QED
      BY <1>1, <2>1 DEF NothingCarriedOver, CredentialsFit, HostKeysArePinned, ClonesAsAsked
  <1>5. CASE ~credentials.failed
    <2>1. phase' = "resolved" /\ auth' = credentials.value
      BY <1>5 DEF ResolveCheckout
    <2>2. /\ FitsScheme(auth', block.auth)
          /\ auth' # Nil /\ auth'.ssh # Nil => auth'.ssh.knownHosts = "text"
      BY <1>2, <1>5, <2>1, ResolvesAsAsked
    <2>3. auth' \in Credentials \cup {Nil}
      BY <2>2 DEF FitsScheme
    <2>4. CredentialsFit'
      BY <1>1, <1>2, <2>2 DEF CredentialsFit
    <2>5. HostKeysArePinned'
      BY <2>2 DEF HostKeysArePinned
    <2>6. NothingCarriedOver' /\ ClonesAsAsked'
      BY <2>1 DEF NothingCarriedOver, ClonesAsAsked
    <2>. QED
      BY <1>1, <2>1, <2>3, <2>4, <2>5, <2>6
  <1>. QED
    BY <1>4, <1>5

(* ResolveConfigMap: a stream of entries, or none. *)
LEMMA ConfigMapPreserves ==
    ASSUME SourceInv, ResolveConfigMap
    PROVE  SourceInv'
  <1>. USE DEF SourceInv, TypeOK
  <1>. DEFINE block == request.block
              manifests == ConfigMapManifests(configMap, block.key)
  <1>1. /\ phase = "start" /\ request.type = "ConfigMap" /\ block # Nil
        /\ UNCHANGED <<request, secret, configMap, auth, method>>
    BY DEF ResolveConfigMap, BlockFails
  <1>2. block.key \in EntryKeys \cup {0}
    BY <1>1, ConfigMapBlocksOfRequests DEF ConfigMapBlocks
  <1>4. phase' \in {"sourceError", "connected"} /\ stream' \in EntrySeqs
    <2>1. CASE configMap = Nil \/ manifests.failed
      BY <2>1 DEF ResolveConfigMap, EntrySeqs
    <2>2. CASE ~(configMap = Nil \/ manifests.failed)
      <3>1. phase' = "connected" /\ stream' = manifests.value
        BY <2>2 DEF ResolveConfigMap
      <3>. QED
        BY <1>2, <2>2, <3>1, ManifestsType
    <2>. QED
      BY <2>1, <2>2
  <1>5. ~(request.type \in CheckoutTypes)
    BY <1>1 DEF CheckoutTypes
  <1>. QED
    BY <1>1, <1>4, <1>5 DEF NothingCarriedOver, CredentialsFit, HostKeysArePinned,
                                  ClonesAsAsked, EntrySeqs

(* Connect: of credentials that fit, a method that fits. *)
LEMMA ConnectPreserves ==
    ASSUME SourceInv, Connect
    PROVE  SourceInv'
  <1>. USE DEF SourceInv, TypeOK
  <1>1. /\ phase = "resolved"
        /\ UNCHANGED <<request, secret, configMap, auth, stream>>
    BY DEF Connect
  <1>2. PICK m \in AuthMethods(auth) :
           IF m = Failed THEN phase' = "loadError" /\ UNCHANGED method
           ELSE phase' = "connected" /\ method' = m
    BY DEF Connect
  <1>3. /\ request.block \in GitBlocks /\ request.block.auth \in GitAuths \cup {Nil}
        /\ FitsScheme(auth, request.block.auth)
    BY <1>1 DEF CredentialsFit, GitBlocks
  <1>4. HostKeysArePinned'
    BY <1>1 DEF HostKeysArePinned
  <1>5. CASE m = Failed
    BY <1>1, <1>2, <1>4, <1>5 DEF NothingCarriedOver, CredentialsFit, ClonesAsAsked
  <1>6. CASE m # Failed
    <2>1. phase' = "connected" /\ method' = m
      BY <1>2, <1>6
    <2>2. method' \in Methods
      BY <1>3, <1>6, <2>1, ConnectsAsAsked
    <2>3. ClonesAsAsked'
      BY <1>1, <1>3, <1>6, <2>1, ConnectsAsAsked DEF ClonesAsAsked
    <2>. QED
      BY <1>1, <1>4, <2>1, <2>2, <2>3 DEF NothingCarriedOver, CredentialsFit
  <1>. QED
    BY <1>5, <1>6

(* Every step of SourceResolution preserves what is said of the source. *)
LEMMA SourceSteps ==
    ASSUME SourceInv, Next
    PROVE  SourceInv'
  <1>1. CASE RejectSource
    <2>1. phase' = "sourceError" /\ UNCHANGED <<request, secret, configMap, auth, stream, method>>
      BY <1>1 DEF RejectSource
    <2>. QED
      BY <2>1 DEF SourceInv, TypeOK, NothingCarriedOver, CredentialsFit, HostKeysArePinned,
                  ClonesAsAsked
  <1>2. CASE ReconcileAgain
    <2>1. /\ phase' = "start" /\ auth' = Nil /\ stream' = <<>> /\ method' = Nil
          /\ UNCHANGED <<request, secret, configMap>>
      BY <1>2 DEF ReconcileAgain
    <2>2. /\ request \in Requests /\ secret \in Secrets \cup {Nil}
          /\ configMap \in ConfigMaps \cup {Nil}
      BY DEF SourceInv, TypeOK
    <2>. QED
      BY <2>1, <2>2, FreshStart
  <1>3. CASE ContentChanges
    <2>1. /\ secret' \in Secrets \cup {Nil} /\ configMap' \in ConfigMaps \cup {Nil}
          /\ UNCHANGED <<request, phase, auth, stream, method>>
      BY <1>3, ContentsType DEF ContentChanges, SourceInv, TypeOK
    <2>. QED
      BY <2>1 DEF SourceInv, TypeOK, NothingCarriedOver, CredentialsFit, HostKeysArePinned,
                  ClonesAsAsked
  <1>. QED
    BY <1>1, <1>2, <1>3, CheckoutPreserves, ConfigMapPreserves, ConnectPreserves DEF Next

(* A step that leaves the variables of the source leaves what is said of it. *)
LEMMA SourceStutters ==
    ASSUME SourceInv, UNCHANGED vars
    PROVE  SourceInv'
  BY DEF vars, SourceInv, TypeOK, NothingCarriedOver, CredentialsFit, HostKeysArePinned,
         ClonesAsAsked

-----------------------------------------------------------------------------
(* The webhook in hand. *)

(* A payload that is there is one of Payloads. *)
LEMMA PayloadType ==
    ASSUME NEW type, NEW resolved \in BOOLEAN, ~Payload(type, resolved).failed
    PROVE  Payload(type, resolved).value \in Payloads
  <1>1. CASE type = "Slack"
    BY <1>1 DEF Payload, Resolved, Payloads
  <1>2. CASE type \in {"Generic", ""}
    BY <1>2 DEF Payload, Resolved, Payloads
  <1>3. CASE type # "Slack" /\ type \notin {"Generic", ""}
    BY <1>3 DEF Payload, Failed
  <1>. QED
    BY <1>1, <1>2, <1>3

(* resolveWebhookURL leads to the Secret's url if there is a reference,    *)
(* and to the inline one if there is none, or nowhere.                     *)
LEMMA ResolvesWhereAsked ==
    ASSUME NEW hook \in Hooks, NEW referent, ~ResolveWebhookURL(hook, referent).failed
    PROVE  ResolveWebhookURL(hook, referent).value = IF hook.hasRef THEN "secret" ELSE "inline"
  <1>1. CASE hook.hasRef
    BY <1>1 DEF ResolveWebhookURL, Resolved, Failed
  <1>2. CASE ~hook.hasRef
    BY <1>2 DEF ResolveWebhookURL, Resolved, Failed
  <1>. QED
    BY <1>1, <1>2

(* Nothing in hand: nothing to be said of it. *)
LEMMA NothingInHand ==
    ASSUME delivery' = NoDelivery
    PROVE  DeliveryInv'
  BY DEF DeliveryInv, EventInHand, ShownWhereAsked, NoDelivery

(* A webhook is in hand from BeginNotify to EndNotify. *)
LEMMA InHand ==
    ASSUME delivery.stage \in Stages
    PROVE  delivery # NoDelivery
  BY DEF Stages, NoDelivery

(* BeginNotify: nothing was shown yet, and the source is done with. *)
LEMMA BeginPreserves ==
    ASSUME SourceInv, DeliveryInv, BeginNotify
    PROVE  SourceInv' /\ DeliveryInv'
  <1>1. SourceInv'
    <2>1. /\ phase' = "start" /\ auth' = Nil /\ stream' = <<>> /\ method' = Nil
          /\ secret' = Nil /\ configMap' = Nil /\ request' = request
      BY DEF BeginNotify
    <2>2. request \in Requests
      BY DEF SourceInv, TypeOK
    <2>. QED
      BY <2>1, <2>2, FreshStart
  <1>2. PICK hook \in Hooks, resolved \in BOOLEAN :
          delivery' = [stage |-> "resolve", hook |-> hook, resolved |-> resolved, at |-> Nil,
                       verb |-> "POST", body |-> Nil, redirects |-> 0, shown |-> {}]
    BY DEF BeginNotify
  <1>3. delivery' \in Deliveries
    BY <1>2, MaxRedirectsIsNat DEF Deliveries, Stages
  <1>4. delivery'.stage = "resolve" /\ delivery'.shown = {}
    BY <1>2
  <1>. QED
    BY <1>1, <1>3, <1>4 DEF DeliveryInv, EventInHand, ShownWhereAsked

(* ResolveURL: the url is the one asked for. *)
LEMMA ResolveURLPreserves ==
    ASSUME SourceInv, DeliveryInv, ResolveURL
    PROVE  SourceInv' /\ DeliveryInv'
  <1>1. delivery.stage = "resolve" /\ UNCHANGED vars
    BY DEF ResolveURL
  <1>2. delivery \in Deliveries /\ delivery.shown = {} /\ delivery # NoDelivery
    BY <1>1, InHand DEF DeliveryInv, EventInHand, Stages
  <1>3. SourceInv'
    BY <1>1, SourceStutters
  <1>4. PICK referent \in Referents :
          LET url == ResolveWebhookURL(delivery.hook, referent)
          IN delivery' = IF url.failed THEN [delivery EXCEPT !.stage = "failed"]
                         ELSE [delivery EXCEPT !.stage = "send", !.at = url.value]
    BY DEF ResolveURL
  <1>. DEFINE url == ResolveWebhookURL(delivery.hook, referent)
  <1>5. CASE url.failed
    <2>1. delivery' = [delivery EXCEPT !.stage = "failed"]
      BY <1>4, <1>5
    <2>2. delivery' \in Deliveries /\ delivery'.stage = "failed" /\ delivery'.shown = {}
      BY <1>2, <2>1 DEF Deliveries, Stages
    <2>. QED
      BY <1>3, <2>2 DEF DeliveryInv, EventInHand, ShownWhereAsked
  <1>6. CASE ~url.failed
    <2>1. delivery.hook \in Hooks
      BY <1>2 DEF Deliveries
    <2>2. url.value = IF delivery.hook.hasRef THEN "secret" ELSE "inline"
      BY <1>6, <2>1, ResolvesWhereAsked
    <2>3. delivery' = [delivery EXCEPT !.stage = "send", !.at = url.value]
      BY <1>4, <1>6
    <2>. HIDE DEF url
    <2>4. url.value \in Endpoints
      BY <2>2 DEF Endpoints
    <2>5. /\ delivery' \in Deliveries /\ delivery'.stage = "send" /\ delivery'.shown = {}
          /\ delivery'.at = url.value /\ delivery'.hook = delivery.hook
      BY <1>2, <2>3, <2>4 DEF Deliveries, Stages
    <2>. QED
      BY <1>3, <2>2, <2>5 DEF DeliveryInv, EventInHand, ShownWhereAsked
  <1>. QED
    BY <1>5, <1>6

(* Send: what is asked for is shown to the endpoint asked for. *)
LEMMA SendPreserves ==
    ASSUME DeliveryInv, Send
    PROVE  DeliveryInv'
  <1>. DEFINE body == Payload(delivery.hook.type, delivery.resolved)
              asked == IF delivery.hook.hasRef THEN "secret" ELSE "inline"
  <1>1. /\ delivery.stage = "send"
        /\ delivery' = IF body.failed THEN [delivery EXCEPT !.stage = "failed"]
                       ELSE [delivery EXCEPT !.stage = "sent", !.body = body.value,
                                             !.shown = {<<delivery.at, body.value>>}]
    BY DEF Send
  <1>2. delivery \in Deliveries /\ delivery.shown = {} /\ delivery.at = asked
    BY <1>1, InHand DEF DeliveryInv, EventInHand, Stages
  <1>3. CASE body.failed
    <2>1. delivery' = [delivery EXCEPT !.stage = "failed"]
      BY <1>1, <1>3
    <2>2. delivery' \in Deliveries /\ delivery'.stage = "failed" /\ delivery'.shown = {}
      BY <1>2, <2>1 DEF Deliveries, Stages
    <2>. QED
      BY <2>2 DEF DeliveryInv, EventInHand, ShownWhereAsked
  <1>4. CASE ~body.failed
    <2>1. body.value \in Payloads
      BY <1>2, <1>4, PayloadType DEF Deliveries
    <2>2. asked \in Endpoints
      BY DEF Endpoints
    <2>3. delivery' = [delivery EXCEPT !.stage = "sent", !.body = body.value,
                                       !.shown = {<<asked, body.value>>}]
      BY <1>1, <1>2, <1>4
    <2>. DEFINE value == body.value
                seen == {<<asked, value>>}
    <2>. HIDE DEF body, asked
    <2>4. value \in Payloads /\ seen \in SUBSET (Endpoints \X Payloads)
      BY <2>1, <2>2
    <2>5. delivery' = [delivery EXCEPT !.stage = "sent", !.body = value, !.shown = seen]
      BY <2>3
    <2>. HIDE DEF value, seen
    <2>6. delivery' \in Deliveries
      BY <1>2, <2>4, <2>5 DEF Deliveries, Stages
    <2>7. /\ delivery'.stage = "sent" /\ delivery'.body = value /\ delivery'.shown = seen
          /\ delivery'.hook = delivery.hook /\ delivery'.resolved = delivery.resolved
      BY <1>2, <2>5 DEF Deliveries
    <2>8. /\ delivery' \in Deliveries /\ delivery'.stage = "sent" /\ delivery'.body = body.value
          /\ delivery'.shown = {<<asked, body.value>>}
          /\ delivery'.hook = delivery.hook /\ delivery'.resolved = delivery.resolved
      BY <2>6, <2>7 DEF value, seen
    <2>9. /\ asked = IF delivery'.hook.hasRef THEN "secret" ELSE "inline"
          /\ body = Payload(delivery'.hook.type, delivery'.resolved)
      BY <2>8 DEF body, asked
    <2>10. EventInHand'
      BY <1>4, <2>8, <2>9 DEF EventInHand
    <2>11. \A sight \in delivery'.shown : sight[1] = asked /\ sight[2] = body.value
      BY <2>8
    <2>12. ShownWhereAsked'
      BY <2>9, <2>11 DEF ShownWhereAsked
    <2>. QED
      BY <2>8, <2>10, <2>12 DEF DeliveryInv
  <1>. QED
    BY <1>3, <1>4

(* An event that was sent keeps what was shown of it when only its stage   *)
(* changes.                                                                *)
LEMMA EndsAsShown ==
    ASSUME DeliveryInv, delivery.stage = "sent",
           NEW stage \in {"ok", "failed"},
           delivery' = [delivery EXCEPT !.stage = stage]
    PROVE  DeliveryInv'
  <1>1. delivery \in Deliveries /\ delivery # NoDelivery
    BY InHand DEF DeliveryInv, Stages
  <1>2. /\ delivery' \in Deliveries /\ delivery'.stage = stage
        /\ delivery'.hook = delivery.hook /\ delivery'.resolved = delivery.resolved
        /\ delivery'.shown = delivery.shown
    BY <1>1 DEF Deliveries, Stages
  <1>. QED
    BY <1>1, <1>2 DEF DeliveryInv, EventInHand, ShownWhereAsked

(* Answer: whatever it says, nothing more is shown. *)
LEMMA AnswerPreserves ==
    ASSUME DeliveryInv, Answer
    PROVE  DeliveryInv'
  <1>1. delivery.stage = "sent"
    BY DEF Answer
  <1>2. PICK stage \in {"ok", "failed"} : delivery' = [delivery EXCEPT !.stage = stage]
    BY DEF Answer
  <1>. QED
    BY <1>1, <1>2, EndsAsShown

(* NoAnswer is never a success. *)
LEMMA NoAnswerPreserves ==
    ASSUME DeliveryInv, NoAnswer
    PROVE  DeliveryInv'
  <1>1. delivery.stage = "sent" /\ delivery' = [delivery EXCEPT !.stage = "failed"]
    BY DEF NoAnswer
  <1>. QED
    BY <1>1, EndsAsShown

(* Redirect: only what the endpoint asked for has seen is passed on. *)
LEMMA RedirectPreserves ==
    ASSUME DeliveryInv, Redirect
    PROVE  DeliveryInv'
  <1>1. delivery.stage = "sent"
    BY DEF Redirect
  <1>2. delivery \in Deliveries /\ delivery # NoDelivery
    BY <1>1, InHand DEF DeliveryInv, Stages
  <1>3. CASE delivery.redirects = MaxRedirects /\ delivery' = [delivery EXCEPT !.stage = "failed"]
    <2>1. /\ delivery' \in Deliveries /\ delivery'.stage = "failed"
          /\ delivery'.hook = delivery.hook /\ delivery'.resolved = delivery.resolved
          /\ delivery'.shown = delivery.shown
      BY <1>2, <1>3 DEF Deliveries, Stages
    <2>. QED
      BY <1>2, <2>1 DEF DeliveryInv, EventInHand, ShownWhereAsked
  <1>4. CASE /\ delivery.redirects < MaxRedirects
             /\ delivery' = [delivery EXCEPT
                    !.verb = "GET", !.at = "redirected", !.redirects = @ + 1]
    <2>1. delivery.redirects + 1 \in 0..MaxRedirects
      BY <1>2, <1>4, MaxRedirectsIsNat DEF Deliveries
    <2>2. /\ delivery' \in Deliveries /\ delivery'.stage = "sent"
          /\ delivery'.hook = delivery.hook /\ delivery'.resolved = delivery.resolved
          /\ delivery'.shown = delivery.shown /\ delivery'.body = delivery.body
      BY <1>1, <1>2, <1>4, <2>1 DEF Deliveries, Endpoints
    <2>. QED
      BY <1>1, <1>2, <2>2 DEF DeliveryInv, EventInHand, ShownWhereAsked
  <1>5. CASE /\ delivery.redirects < MaxRedirects
             /\ delivery' = [delivery EXCEPT
                    !.at = "redirected", !.redirects = @ + 1,
                    !.shown = @ \cup {<<"redirected", delivery.body>>}]
    <2>. DEFINE asked == IF delivery.hook.hasRef THEN "secret" ELSE "inline"
                body == Payload(delivery.hook.type, delivery.resolved)
    <2>1. /\ ~body.failed /\ delivery.body = body.value /\ <<asked, body.value>> \in delivery.shown
          /\ \A sight \in delivery.shown :
                /\ sight[2] = body.value
                /\ sight[1] = asked \/ (sight[1] = "redirected" /\ <<asked, body.value>> \in delivery.shown)
      BY <1>1, <1>2 DEF DeliveryInv, EventInHand, ShownWhereAsked
    <2>2. delivery.redirects + 1 \in 0..MaxRedirects
      BY <1>2, <1>5, MaxRedirectsIsNat DEF Deliveries
    <2>3. delivery.body \in Payloads
      BY <1>2, <2>1, PayloadType DEF Deliveries
    <2>. DEFINE seen == delivery.shown \cup {<<"redirected", delivery.body>>}
    <2>4. seen \in SUBSET (Endpoints \X Payloads)
      BY <1>2, <2>3 DEF Deliveries, Endpoints
    <2>5. delivery' = [delivery EXCEPT !.at = "redirected", !.redirects = @ + 1, !.shown = seen]
      BY <1>5
    <2>6. \A sight \in seen :
             /\ sight[2] = body.value
             /\ sight[1] = asked \/ (sight[1] = "redirected" /\ <<asked, body.value>> \in seen)
      BY <2>1
    <2>7. <<asked, body.value>> \in seen
      BY <2>1
    <2>. HIDE DEF seen, asked, body
    <2>8. /\ delivery' \in Deliveries /\ delivery'.stage = "sent"
          /\ delivery'.hook = delivery.hook /\ delivery'.resolved = delivery.resolved
          /\ delivery'.shown = seen /\ delivery'.body = delivery.body
      BY <1>1, <1>2, <2>2, <2>4, <2>5 DEF Deliveries, Endpoints
    <2>9. /\ asked = IF delivery'.hook.hasRef THEN "secret" ELSE "inline"
          /\ body = Payload(delivery'.hook.type, delivery'.resolved)
      BY <2>8 DEF body, asked
    <2>. QED
      BY <2>1, <2>6, <2>7, <2>8, <2>9 DEF DeliveryInv, EventInHand, ShownWhereAsked
  <1>. QED
    BY <1>3, <1>4, <1>5 DEF Redirect

-----------------------------------------------------------------------------
(* The theorems. *)

(* IndInv is inductive: it holds in every state a webhook's turn, and the  *)
(* reads before it, can reach.                                             *)
THEOREM Inductive == DeliverySpec => []IndInv
  <1>1. DeliveryInit => IndInv
    <2>. SUFFICES ASSUME DeliveryInit
                  PROVE  IndInv
      OBVIOUS
    <2>1. DeliveryInv
      BY DEF DeliveryInit, DeliveryInv, EventInHand, ShownWhereAsked, NoDelivery
    <2>2. stream \in Seq(EntryKeys \X {"blank", "manifest"})
      BY DEF DeliveryInit, Init
    <2>3. SourceInv
      BY <2>2, ContentsType DEF DeliveryInit, Init, SourceInv, TypeOK, NothingCarriedOver,
         CredentialsFit, HostKeysArePinned, ClonesAsAsked
    <2>. QED
      BY <2>1, <2>3, TwoParts
  <1>2. IndInv /\ [DeliveryNext]_<<vars, delivery>> => IndInv'
    <2>. SUFFICES ASSUME SourceInv, DeliveryInv, [DeliveryNext]_<<vars, delivery>>
                  PROVE  SourceInv' /\ DeliveryInv'
      BY DEF IndInv, SourceInv, DeliveryInv
    <2>1. CASE delivery = NoDelivery /\ Next /\ UNCHANGED delivery
      BY <2>1, SourceSteps, NothingInHand
    <2>2. CASE BeginNotify
      BY <2>2, BeginPreserves
    <2>3. CASE ResolveURL
      BY <2>3, ResolveURLPreserves
    <2>4. CASE Send
      <3>1. UNCHANGED vars
        BY <2>4 DEF Send
      <3>. QED
        BY <2>4, <3>1, SendPreserves, SourceStutters
    <2>5. CASE Answer
      <3>1. UNCHANGED vars
        BY <2>5 DEF Answer
      <3>. QED
        BY <2>5, <3>1, AnswerPreserves, SourceStutters
    <2>6. CASE NoAnswer
      <3>1. UNCHANGED vars
        BY <2>6 DEF NoAnswer
      <3>. QED
        BY <2>6, <3>1, NoAnswerPreserves, SourceStutters
    <2>7. CASE Redirect
      <3>1. UNCHANGED vars
        BY <2>7 DEF Redirect
      <3>. QED
        BY <2>7, <3>1, RedirectPreserves, SourceStutters
    <2>8. CASE EndNotify
      <3>1. delivery' = NoDelivery /\ UNCHANGED vars
        BY <2>8 DEF EndNotify
      <3>. QED
        BY <3>1, SourceStutters, NothingInHand
    <2>9. CASE UNCHANGED <<vars, delivery>>
      <3>1. DeliveryInv'
        BY <2>9 DEF DeliveryInv, EventInHand, ShownWhereAsked
      <3>. QED
        BY <2>9, <3>1, SourceStutters
    <2>. QED
      BY <2>1, <2>2, <2>3, <2>4, <2>5, <2>6, <2>7, <2>8, <2>9 DEF DeliveryNext
  <1>. QED
    BY <1>1, <1>2, PTL DEF DeliverySpec

(* What is read of Secrets and ConfigMaps is turned into credentials,      *)
(* documents and methods of the kinds the sources are made with.           *)
THEOREM TypeCorrect == DeliverySpec => []TypeOK
  <1>1. IndInv => TypeOK
    BY DEF IndInv
  <1>. QED
    BY <1>1, Inductive, PTL

(* No clone without the credentials that were asked for, whatever is in    *)
(* the Secret and whenever it changes.                                     *)
THEOREM NoAnonymousFallback == DeliverySpec => []ClonesAsAsked
  <1>1. IndInv => ClonesAsAsked
    BY DEF IndInv
  <1>. QED
    BY <1>1, Inductive, PTL

(* No source with an SSH key and without host keys to compare with.        *)
THEOREM FailClosed == DeliverySpec => []HostKeysArePinned
  <1>1. IndInv => HostKeysArePinned
    BY DEF IndInv
  <1>. QED
    BY <1>1, Inductive, PTL

(* An event is shown to the endpoint the spec points at, and to others     *)
(* only if that one passes it on, after any number of redirects.           *)
THEOREM ToldWhereAsked == DeliverySpec => []ShownWhereAsked
  <1>1. IndInv => ShownWhereAsked
    BY DEF IndInv
  <1>. QED
    BY <1>1, Inductive, PTL

-----------------------------------------------------------------------------
(* What a ConfigMap source is made from.  The places of an entry in the    *)
(* stream are counted, and so are those it is stored in.                   *)

Places(docs, k) == {i \in DOMAIN docs : docs[i] = <<k, "manifest">>}
HowMany(m, k) == IF Get(m, k) = "none" THEN 0 ELSE 1
StoredIn(m, k) == {place \in {"data", "binaryData"} : m[place][k] = "manifest"}

(* A manifest is stored once, and anything else never. *)
LEMMA StoredOnce ==
    ASSUME NEW m \in ConfigMaps, NEW k \in EntryKeys
    PROVE  Cardinality(StoredIn(m, k)) = IF Get(m, k) = "manifest" THEN 1 ELSE 0
  <1>1. CASE m.data[k] = "manifest"
    <2>1. StoredIn(m, k) = {"data"} /\ Get(m, k) = "manifest"
      BY <1>1, EntryGot DEF StoredIn
    <2>. QED
      BY <2>1, FS_Singleton
  <1>2. CASE m.binaryData[k] = "manifest"
    <2>1. StoredIn(m, k) = {"binaryData"} /\ Get(m, k) = "manifest"
      BY <1>2, EntryGot DEF StoredIn
    <2>. QED
      BY <2>1, FS_Singleton
  <1>3. CASE m.data[k] # "manifest" /\ m.binaryData[k] # "manifest"
    <2>1. StoredIn(m, k) = {} /\ Get(m, k) # "manifest"
      BY <1>3, EntryGot DEF StoredIn
    <2>. QED
      BY <2>1, FS_EmptySet
  <1>. QED
    BY <1>1, <1>2, <1>3

(* What two sequences are, joined. *)
LEMMA Joined ==
    ASSUME NEW S, NEW a \in Seq(S), NEW b \in Seq(S)
    PROVE  /\ a \o b \in Seq(S) /\ Len(a \o b) = Len(a) + Len(b)
           /\ DOMAIN (a \o b) = 1..(Len(a) + Len(b))
           /\ \A i \in 1..Len(a) : (a \o b)[i] = a[i]
           /\ Len(b) = 1 => (a \o b)[Len(a) + 1] = b[1]
  OBVIOUS

(* Where the document of each entry is put: after those before it. *)
LEMMA Positions ==
    ASSUME NEW m \in ConfigMaps
    PROVE  LET n1 == HowMany(m, 1)
               n2 == HowMany(m, 2)
               n3 == HowMany(m, 3)
           IN /\ DOMAIN Documents(m) = 1..(n1 + n2 + n3)
              /\ n1 = 1 => Documents(m)[1] = <<1, Get(m, 1)>>
              /\ n2 = 1 => Documents(m)[n1 + 1] = <<2, Get(m, 2)>>
              /\ n3 = 1 => Documents(m)[n1 + n2 + 1] = <<3, Get(m, 3)>>
  <1>. DEFINE d1 == Document(m, 1)
              d2 == Document(m, 2)
              d3 == Document(m, 3)
              front == d1 \o d2
  <1>1. \A k \in EntryKeys :
           /\ Document(m, k) \in EntrySeqs
           /\ Len(Document(m, k)) = HowMany(m, k)
           /\ Get(m, k) # "none" => Document(m, k)[1] = <<k, Get(m, k)>>
    BY EntryDocument DEF HowMany
  <1>2. PICK n1, n2, n3 :
           /\ n1 = HowMany(m, 1) /\ n2 = HowMany(m, 2) /\ n3 = HowMany(m, 3)
           /\ n1 \in {0, 1} /\ n2 \in {0, 1} /\ n3 \in {0, 1}
    BY DEF HowMany
  <1>3. /\ d1 \in EntrySeqs /\ Len(d1) = n1 /\ (n1 = 1 => d1[1] = <<1, Get(m, 1)>>)
        /\ d2 \in EntrySeqs /\ Len(d2) = n2 /\ (n2 = 1 => d2[1] = <<2, Get(m, 2)>>)
        /\ d3 \in EntrySeqs /\ Len(d3) = n3 /\ (n3 = 1 => d3[1] = <<3, Get(m, 3)>>)
    BY <1>1, <1>2 DEF EntryKeys, HowMany
  <1>4. Documents(m) = front \o d3
    BY DEF Documents
  <1>. HIDE DEF d1, d2, d3
  <1>5. /\ front \in EntrySeqs /\ Len(front) = n1 + n2
        /\ \A i \in 1..n1 : front[i] = d1[i]
        /\ n2 = 1 => front[n1 + 1] = d2[1]
    BY <1>3, <1>2, Joined DEF EntrySeqs
  <1>. HIDE DEF front
  <1>6. /\ DOMAIN (front \o d3) = 1..(n1 + n2 + n3)
        /\ \A i \in 1..(n1 + n2) : (front \o d3)[i] = front[i]
        /\ n3 = 1 => (front \o d3)[n1 + n2 + 1] = d3[1]
    BY <1>3, <1>2, <1>5, Joined DEF EntrySeqs
  <1>7. n1 = 1 => (front \o d3)[1] = d1[1]
    BY <1>2, <1>5, <1>6
  <1>8. n2 = 1 => (front \o d3)[n1 + 1] = d2[1]
    BY <1>2, <1>5, <1>6
  <1>. QED
    BY <1>3, <1>2, <1>4, <1>6, <1>7, <1>8

(* In the documents, a manifest has one place, and anything else has none. *)
LEMMA PlacedOnce ==
    ASSUME NEW m \in ConfigMaps, NEW k \in EntryKeys
    PROVE  Cardinality(Places(Documents(m), k)) = IF Get(m, k) = "manifest" THEN 1 ELSE 0
  <1>. DEFINE docs == Documents(m)
  <1>1. PICK n1, n2, n3 :
           /\ n1 = HowMany(m, 1) /\ n2 = HowMany(m, 2) /\ n3 = HowMany(m, 3)
           /\ n1 \in {0, 1} /\ n2 \in {0, 1} /\ n3 \in {0, 1}
    BY DEF HowMany
  <1>2. /\ DOMAIN docs = 1..(n1 + n2 + n3)
        /\ n1 = 1 => docs[1] = <<1, Get(m, 1)>>
        /\ n2 = 1 => docs[n1 + 1] = <<2, Get(m, 2)>>
        /\ n3 = 1 => docs[n1 + n2 + 1] = <<3, Get(m, 3)>>
    BY <1>1, Positions
  <1>3. Get(m, k) = "manifest" => (k = 1 => n1 = 1) /\ (k = 2 => n2 = 1) /\ (k = 3 => n3 = 1)
    BY <1>1 DEF HowMany
  <1>. HIDE DEF docs
  <1>4. \A i \in DOMAIN docs :
           \/ n1 = 1 /\ i = 1
           \/ n2 = 1 /\ i = n1 + 1
           \/ n3 = 1 /\ i = n1 + n2 + 1
    BY <1>1, <1>2
  <1>. DEFINE place == IF k = 1 THEN 1 ELSE IF k = 2 THEN n1 + 1 ELSE n1 + n2 + 1
  <1>5. k \in {1, 2, 3}
    BY DEF EntryKeys
  <1>6. \A i \in DOMAIN docs : docs[i] = <<k, "manifest">> => i = place /\ Get(m, k) = "manifest"
    BY <1>1, <1>2, <1>4, <1>5
  <1>7. CASE Get(m, k) = "manifest"
    <2>1. place \in DOMAIN docs /\ docs[place] = <<k, "manifest">>
      BY <1>1, <1>2, <1>3, <1>5, <1>7
    <2>2. Places(docs, k) = {place}
      BY <1>6, <2>1 DEF Places
    <2>. QED
      BY <1>7, <2>2, FS_Singleton DEF docs
  <1>8. CASE Get(m, k) # "manifest"
    <2>1. Places(docs, k) = {}
      BY <1>6, <1>8 DEF Places
    <2>. QED
      BY <1>8, <2>1, FS_EmptySet DEF docs
  <1>. QED
    BY <1>7, <1>8

(* Every manifest of the ConfigMap is compared once: configMapManifests    *)
(* loses none of data and none of binaryData, and repeats none.            *)
THEOREM NothingLost == DeliverySpec => NoManifestLost
  <1>. DEFINE Kept == ResolveConfigMap /\ phase' = "connected" /\ request.block.key = 0 =>
                        \A k \in EntryKeys :
                           Cardinality({i \in DOMAIN stream' : stream'[i] = <<k, "manifest">>})
                              = Cardinality({place \in {"data", "binaryData"} :
                                                configMap[place][k] = "manifest"})
  <1>1. IndInv => Kept
    <2>. SUFFICES ASSUME IndInv, ResolveConfigMap, phase' = "connected", request.block.key = 0,
                         NEW k \in EntryKeys
                  PROVE  Cardinality(Places(stream', k)) = Cardinality(StoredIn(configMap, k))
      BY DEF Places, StoredIn
    <2>1. ~(configMap = Nil \/ ConfigMapManifests(configMap, 0).failed)
      BY DEF ResolveConfigMap
    <2>2. configMap \in ConfigMaps
      BY <2>1 DEF IndInv, TypeOK
    <2>3. stream' = ConfigMapManifests(configMap, 0).value
      BY <2>1 DEF ResolveConfigMap
    <2>4. stream' = Documents(configMap)
      BY <2>1, <2>3 DEF ConfigMapManifests, Resolved, Failed
    <2>. QED
      BY <2>2, <2>4, StoredOnce, PlacedOnce
  <1>2. IndInv => [Kept]_vars
    BY <1>1
  <1>. QED
    BY <1>2, Inductive, PTL DEF NoManifestLost, Kept
=============================================================================
