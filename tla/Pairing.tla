------------------------------ MODULE Pairing ------------------------------
(* Pairing with a host (handshake.c): the identity the client keeps on disk  *)
(* (unique id, key, certificate), the fingerprint it keeps of the host, and  *)
(* the five exchanges after which each side trusts the other's certificate.  *)
(* The user starts an attempt again whenever one has ended, as main.c does.  *)
(*                                                                           *)
(* A file is Absent, Torn (truncated by fopen and not, or not wholly,        *)
(* written) or holds the number of a certificate or host identity. Everything*)
(* that may go wrong spends one of MaxFaults: a lost request or answer, a    *)
(* failed call, a full disk, a power cut, a mistyped or late PIN, and what   *)
(* may happen to the host.                                                   *)
EXTENDS Integers

CONSTANTS MaxRetry,     \* client challenges sent while waiting for the PIN
          MaxFaults     \* bound: faults of one behaviour

ASSUME PairingAssumption == MaxRetry \in Nat \ {0} /\ MaxFaults \in Nat

VARIABLES
  id, key, cert, fp,    \* uniqueid.dat, key.pem, cert.pem, server-<host>.sha256
  gen,                  \* the key pair generated last
  pc,                   \* the call the client is in
  retry,                \* client challenges sent in this attempt
  server,               \* the host identity named by the answer of step 1
  host_id,              \* the host's own identity
  trusted,              \* certificates the host lets in over HTTPS
  session,              \* the pairing the host has under way
  accepted,             \* history: <<host identity, certificate>> accepted in step 4
  faults

disk == <<id, key, cert, fp, gen>>
host == <<host_id, trusted, session, accepted>>
local == <<retry, server>>
vars == <<disk, pc, local, host, faults>>

Absent == 0
Torn == -1
Complete(file) == file > 0

NoSession == [step |-> "none", cert |-> Absent, pin |-> "none"]

Spend == faults < MaxFaults /\ faults' = faults + 1
NoFault == UNCHANGED faults

(* The attempt fails; the next one starts anew.                              *)
GiveUp == pc' = "idle" /\ retry' = 0 /\ server' = Absent

-----------------------------------------------------------------------------
(* hv_init: the client's identity.                                           *)

Begin ==
  /\ pc = "idle"
  /\ pc' = "id"
  /\ UNCHANGED <<disk, local, host, faults>>

(* An id that can be read and is a UUID is kept; any other is replaced.      *)
LoadId ==
  /\ pc = "id"
  /\ \/ Complete(id) /\ pc' = "creds" /\ UNCHANGED <<id, faults>>
        /\ UNCHANGED local
     \/ ~Complete(id) /\ id' = Torn /\ pc' = "id_write" /\ NoFault
        /\ UNCHANGED local
     \/ ~Complete(id) /\ Spend /\ GiveUp /\ UNCHANGED id
  /\ UNCHANGED <<key, cert, fp, gen, host>>

(* A failed write is an error, with the broken id left for the next attempt. *)
SaveId ==
  /\ pc = "id_write"
  /\ \/ id' = 1 /\ pc' = "creds" /\ NoFault /\ UNCHANGED local
     \/ Spend /\ GiveUp /\ UNCHANGED id
  /\ UNCHANGED <<key, cert, fp, gen, host>>

(* Fault: a new key pair is generated on every start.                        *)
CredentialsNeverKept == FALSE

(* Credentials exist when both files can be opened, whatever they hold.      *)
CredentialsExist == cert # Absent /\ key # Absent

CheckCredentials ==
  /\ pc = "creds"
  /\ pc' = IF CredentialsExist THEN "hv_is_paired" ELSE "key_open"
  /\ UNCHANGED <<disk, local, host, faults>>

(* hv_generate_credentials: the key file is truncated, then written. An error*)
(* of fwrite removes both files; one that fclose reports goes unnoticed.     *)
OpenKey ==
  /\ pc = "key_open"
  /\ gen' = gen + 1
  /\ \/ key' = Torn /\ pc' = "key_write" /\ NoFault
     \/ UNCHANGED key /\ pc' = "unlink" /\ Spend
  /\ UNCHANGED <<id, cert, fp, local, host>>

WriteKey ==
  /\ pc = "key_write"
  /\ \/ key' = gen /\ pc' = "cert_open" /\ NoFault
     \/ UNCHANGED key /\ pc' \in {"cert_open", "unlink"} /\ Spend
  /\ UNCHANGED <<id, cert, fp, gen, local, host>>

OpenCert ==
  /\ pc = "cert_open"
  /\ \/ cert' = Torn /\ pc' = "cert_write" /\ NoFault
     \/ UNCHANGED cert /\ pc' = "unlink" /\ Spend
  /\ UNCHANGED <<id, key, fp, gen, local, host>>

(* Neither fprintf nor fclose is checked: a full disk is reported as success.*)
WriteCert ==
  /\ pc = "cert_write"
  /\ \/ cert' = gen /\ NoFault
     \/ UNCHANGED cert /\ Spend
  /\ pc' = "hv_is_paired"
  /\ UNCHANGED <<id, key, fp, gen, local, host>>

UnlinkCredentials ==
  /\ pc = "unlink"
  /\ key' = Absent /\ cert' = Absent
  /\ GiveUp
  /\ UNCHANGED <<id, fp, gen, host, faults>>

-----------------------------------------------------------------------------
(* Requests. HTTPS needs a usable key pair that the host trusts, and a host  *)
(* whose certificate has the fingerprint on disk.                            *)

HttpsAnswers ==
  /\ Complete(cert) /\ key = cert
  /\ cert \in trusted
  /\ fp = host_id

(* The host handled a request: its answer arrives, or is lost and the        *)
(* attempt is over.                                                          *)
Answered(next) ==
  \/ pc' = next /\ NoFault /\ UNCHANGED retry
  \/ Spend /\ pc' = "idle" /\ retry' = 0

(* A request that cannot be sent, or never reaches the host; a random number *)
(* that cannot be drawn; the user leaving while the client connects.         *)
Requests == {"getservercert", "serverchallengeresp", "clientpairingsecret", "pairchallenge"}

RequestLost ==
  /\ pc \in Requests \cup {"hv_pair"}
  /\ Spend /\ GiveUp
  /\ UNCHANGED <<disk, host>>

(* hv_is_paired: a lost request looks like a host that does not know us.     *)
hv_is_paired ==
  /\ pc = "hv_is_paired"
  /\ \/ HttpsAnswers /\ pc' = "paired" /\ NoFault
     \/ ~HttpsAnswers /\ pc' = "hv_pair" /\ NoFault
     \/ pc' = "hv_pair" /\ Spend
  /\ UNCHANGED <<disk, local, host>>

-----------------------------------------------------------------------------
(* hv_pair.                                                                  *)

(* Fault: an attempt to pair starts by forgetting the host.                  *)
LoadForgetsHost ==
  /\ pc = "hv_pair"
  /\ fp' = Absent
  /\ IF Complete(key) /\ Complete(cert)
     THEN pc' = "getservercert" /\ UNCHANGED local
     ELSE GiveUp
  /\ UNCHANGED <<id, key, cert, gen, host, faults>>

(* The key and the certificate are parsed before anything is sent.           *)
LoadCredentials ==
  /\ pc = "hv_pair"
  /\ IF Complete(key) /\ Complete(cert)
     THEN pc' = "getservercert" /\ UNCHANGED local
     ELSE GiveUp
  /\ UNCHANGED <<disk, host, faults>>

(* Step 1: the host opens a pairing for our certificate and names its own.   *)
GetServerCert ==
  /\ pc = "getservercert"
  /\ session' = [step |-> "getservercert", cert |-> cert, pin |-> "none"]
  /\ server' = host_id
  /\ Answered("clientchallenge")
  /\ UNCHANGED <<disk, host_id, trusted, accepted>>

(* Fault: one more challenge than the wait allows for.                       *)
RetryOnceMore ==
  IF retry + 1 <= MaxRetry
  THEN retry' = retry + 1 /\ UNCHANGED <<pc, server>>
  ELSE GiveUp

(* Step 2 is sent again, at most MaxRetry times, until the host has the PIN. *)
(* The client does not compare what the host answers with its own PIN.       *)
Retry ==
  IF retry + 1 < MaxRetry
  THEN retry' = retry + 1 /\ UNCHANGED <<pc, server>>
  ELSE GiveUp

(* A host that already answered may answer again, or drop the pairing.       *)
ClientChallenge ==
  /\ pc = "clientchallenge"
  /\ session.pin # "none"
  /\ session' \in {[session EXCEPT !.step = "clientchallenge"]}
                    \cup (IF session.step = "getservercert" THEN {} ELSE {NoSession})
  /\ IF session' = NoSession
     THEN Retry /\ NoFault
     ELSE \/ pc' = "serverchallengeresp" /\ NoFault /\ UNCHANGED local
          \/ Retry /\ Spend
  /\ UNCHANGED <<disk, host_id, trusted, accepted>>

(* The user has as long as the retries last; to be later is a fault.         *)
ClientChallengeEarly ==
  /\ pc = "clientchallenge"
  /\ session.pin = "none"
  /\ Retry
  /\ IF session = NoSession \/ retry + 1 < MaxRetry THEN NoFault ELSE Spend
  /\ UNCHANGED <<disk, host>>

ClientChallengeLost ==
  /\ pc = "clientchallenge"
  /\ Spend
  /\ \/ Retry
     \/ GiveUp
  /\ UNCHANGED <<disk, host>>

(* Step 3: a host that has lost the pairing refuses.                         *)
ServerChallengeResp ==
  /\ pc = "serverchallengeresp"
  /\ IF session.step = "clientchallenge"
     THEN /\ session' = [session EXCEPT !.step = "serverchallengeresp"]
          /\ Answered("clientpairingsecret")
          /\ UNCHANGED server
     ELSE UNCHANGED session /\ GiveUp /\ NoFault
  /\ UNCHANGED <<disk, host_id, trusted, accepted>>

(* Step 4: the host accepts the certificate if the secrets match, which they *)
(* do when both sides used the same PIN and key pair; the pairing is over.   *)
(* The client has verified the host's signature before sending its own.      *)
SecretsMatch ==
  /\ session.step = "serverchallengeresp"
  /\ session.pin = "right"
  /\ session.cert = key

HostAccepts ==
  /\ SecretsMatch
  /\ trusted' = trusted \cup {session.cert}
  /\ accepted' = accepted \cup {<<host_id, session.cert>>}
  /\ session' = NoSession
  /\ UNCHANGED host_id

(* Fault: any answer to step 4 is taken for a yes.                           *)
SecretUnchecked ==
  /\ pc = "clientpairingsecret"
  /\ \/ HostAccepts /\ Answered("save")
     \/ /\ ~SecretsMatch
        /\ session' = NoSession /\ UNCHANGED <<host_id, trusted, accepted>>
        /\ pc' = "save" /\ NoFault /\ UNCHANGED retry
  /\ UNCHANGED <<disk, server>>

ClientPairingSecret ==
  /\ pc = "clientpairingsecret"
  /\ \/ /\ server = host_id
        /\ HostAccepts
        /\ Answered("save")
        /\ UNCHANGED server
     \/ /\ server = host_id
        /\ ~SecretsMatch
        /\ session' = NoSession /\ UNCHANGED <<host_id, trusted, accepted>>
        /\ GiveUp /\ NoFault
     \/ /\ server # host_id
        /\ GiveUp /\ NoFault
        /\ UNCHANGED host
  /\ UNCHANGED disk

(* Fault: the fingerprint of a host is kept once there is one.               *)
FingerprintKept ==
  /\ pc = "save"
  /\ IF Complete(fp) THEN pc' = "pairchallenge" /\ UNCHANGED fp
                     ELSE fp' = Torn /\ pc' = "save_write"
  /\ UNCHANGED <<id, key, cert, gen, local, host, faults>>

(* save_server_fingerprint: the file is truncated in place, then written; a  *)
(* failed write removes it.                                                  *)
OpenFingerprint ==
  /\ pc = "save"
  /\ \/ fp' = Torn /\ pc' = "save_write" /\ NoFault /\ UNCHANGED local
     \/ UNCHANGED fp /\ Spend /\ GiveUp
  /\ UNCHANGED <<id, key, cert, gen, host>>

WriteFingerprint ==
  /\ pc = "save_write"
  /\ \/ fp' = server /\ pc' = "pairchallenge" /\ NoFault /\ UNCHANGED local
     \/ fp' = Absent /\ Spend /\ GiveUp
  /\ UNCHANGED <<id, key, cert, gen, host>>

(* Step 5: the first request over HTTPS.                                     *)
PairChallenge ==
  /\ pc = "pairchallenge"
  /\ IF HttpsAnswers
     THEN pc' = "paired" /\ NoFault /\ UNCHANGED local
     ELSE GiveUp /\ NoFault
  /\ UNCHANGED <<disk, host>>

(* The session that follows ends, and the user may connect again.            *)
Leave ==
  /\ pc = "paired"
  /\ GiveUp
  /\ UNCHANGED <<disk, host, faults>>

-----------------------------------------------------------------------------
(* The user at the host, the host, and the power supply.                     *)

EnterPin ==
  /\ session # NoSession /\ session.pin = "none"
  /\ session' = [session EXCEPT !.pin = "right"]
  /\ UNCHANGED <<disk, pc, local, host_id, trusted, accepted, faults>>

MistypePin ==
  /\ session # NoSession /\ session.pin = "none"
  /\ session' = [session EXCEPT !.pin = "wrong"]
  /\ Spend
  /\ UNCHANGED <<disk, pc, local, host_id, trusted, accepted>>

(* The host restarts, is told to forget its clients, or is installed anew.   *)
HostChanges ==
  /\ Spend
  /\ session' = NoSession
  /\ \/ UNCHANGED <<host_id, trusted>>
     \/ trusted' = {} /\ UNCHANGED host_id
     \/ trusted' = {} /\ host_id' = host_id + 1
  /\ UNCHANGED <<disk, pc, local, accepted>>

(* A power cut leaves the files as they are.                                 *)
PowerCut ==
  /\ pc # "idle"
  /\ Spend /\ GiveUp
  /\ UNCHANGED <<disk, host>>

Client ==
  \/ Begin \/ LoadId \/ SaveId \/ CheckCredentials
  \/ OpenKey \/ WriteKey \/ OpenCert \/ WriteCert \/ UnlinkCredentials
  \/ hv_is_paired \/ LoadCredentials \/ RequestLost \/ GetServerCert
  \/ ClientChallenge \/ ClientChallengeEarly \/ ClientChallengeLost
  \/ ServerChallengeResp \/ ClientPairingSecret
  \/ OpenFingerprint \/ WriteFingerprint \/ PairChallenge \/ Leave

Next == Client \/ EnterPin \/ MistypePin \/ HostChanges \/ PowerCut

Init ==
  /\ id = Absent /\ key = Absent /\ cert = Absent /\ fp = Absent /\ gen = 0
  /\ pc = "idle" /\ retry = 0 /\ server = Absent
  /\ host_id = 1 /\ trusted = {} /\ session = NoSession /\ accepted = {}
  /\ faults = 0

(* The client runs on, the user tries again and types the PIN when asked.    *)
Fairness == WF_vars(Client) /\ WF_vars(EnterPin)

Spec == Init /\ [][Next]_vars
FairSpec == Spec /\ Fairness

-----------------------------------------------------------------------------
Pcs == {"idle", "id", "id_write", "creds", "key_open", "key_write", "cert_open",
        "cert_write", "unlink", "hv_is_paired", "hv_pair", "clientchallenge",
        "save", "save_write", "paired"} \cup Requests

Files == Nat \cup {Torn}
SessionSteps == {"none", "getservercert", "clientchallenge", "serverchallengeresp"}

(* The type of every variable of the pairing.                                *)
TypeOK ==
  /\ id \in Files /\ key \in Files /\ cert \in Files /\ fp \in Files
  /\ gen \in Nat
  /\ pc \in Pcs
  /\ retry \in 0 .. MaxRetry - 1
  /\ server \in Nat
  /\ host_id \in Nat \ {0}
  /\ trusted \subseteq Nat \ {0}
  /\ session \in [step : SessionSteps, cert : Nat, pin : {"none", "right", "wrong"}]
  /\ accepted \subseteq (Nat \ {0}) \X (Nat \ {0})
  /\ faults \in 0 .. MaxFaults

(* A fingerprint on disk, whatever cut or failed before, is that of a host   *)
(* that accepted, against the right PIN, the certificate the client still    *)
(* holds: the client never trusts a host that did not agree to trust it.     *)
TrustIsMutual ==
  Complete(fp) => Complete(cert) /\ <<fp, cert>> \in accepted

(* The two credential files belong together: after any failed or interrupted *)
(* generation a certificate has a key, and one that is whole has its own.    *)
CredentialsMatch ==
  /\ cert # Absent => key # Absent
  /\ Complete(cert) /\ Complete(key) => cert = key

Paired == HttpsAnswers

(* Pairing again with a host that still knows the client (a lost status      *)
(* request is enough to start that) loses nothing: only a fault ends an      *)
(* agreement, or the fingerprint being rewritten.                            *)
KeepsPairing ==
  [][Paired => Paired' \/ faults' # faults \/ pc = "save"]_vars

(* Credentials on disk that the client will neither use nor replace.         *)
Unusable == CredentialsExist /\ ~(Complete(cert) /\ Complete(key))

(* From every fault but an incomplete key or certificate, a user who keeps   *)
(* trying gets paired: a half-done pairing, a stale fingerprint, a host that *)
(* forgot us or changed, a truncated id or fingerprint file.                 *)
PairingRecovers == <>[]Unusable \/ []<>(pc = "paired")

(* A client that reports its credentials generated, or finds some, goes on   *)
(* with a key and a certificate it can use.                                  *)
ReportedIsUsable == pc = "hv_is_paired" => ~Unusable
=============================================================================
