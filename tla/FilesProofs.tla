---------------------------- MODULE FilesProofs ----------------------------
(***************************************************************************)
(* Proofs about the client's files.  First pairing, for every number of    *)
(* retries and of faults: what is on the disk after any sequence of        *)
(* attempts, power cuts and changes of the host.  Then the settings, for   *)
(* every number of changes and of faults: what the next start loads.       *)
(***************************************************************************)
EXTENDS Pairing, Settings, SequenceTheorems, TLAPS

\* Key and certificate while they are generated, which only happens when there
\* is no certificate.
Generating ==
  /\ pc \in {"key_open", "key_write", "cert_open", "unlink"} => cert = Absent
  /\ pc \in {"key_write", "cert_open", "cert_write"} => gen > 0 /\ key \in {Torn, gen}
  /\ pc = "cert_write" => cert = Torn

\* What hv_pair has loaded is whole.
LoadedWhole ==
  pc \in Requests \cup {"clientchallenge", "save", "save_write"} =>
    Complete(cert) /\ Complete(key)

\* A fingerprint is saved after the host has accepted.
SavesAccepted ==
  /\ pc \in {"save", "save_write"} => <<server, cert>> \in accepted
  /\ pc = "save_write" => fp = Torn

IInv == TypeOK /\ TrustIsMutual /\ CredentialsMatch /\ Generating /\ LoadedWhole /\ SavesAccepted

-----------------------------------------------------------------------------
LEMMA InitIInv == Init => IInv
BY PairingAssumption
   DEF Init, IInv, TypeOK, TrustIsMutual, CredentialsMatch, Generating, LoadedWhole, SavesAccepted,
       Absent, Torn, Complete, Files, Pcs, Requests, NoSession, SessionSteps

\* Starting, and the files of the client's identity.
Identity ==
  \/ Begin \/ LoadId \/ SaveId \/ CheckCredentials
  \/ OpenKey \/ WriteKey \/ OpenCert \/ WriteCert \/ UnlinkCredentials

\* The exchanges with the host.
Exchanges ==
  \/ hv_is_paired \/ LoadCredentials \/ RequestLost \/ GetServerCert
  \/ ClientChallenge \/ ClientChallengeEarly \/ ClientChallengeLost
  \/ ServerChallengeResp \/ ClientPairingSecret \/ PairChallenge \/ Leave

\* The host's fingerprint being written.
SavingFingerprint == OpenFingerprint \/ WriteFingerprint

\* The user at the host, the host and the power supply.
Around == EnterPin \/ MistypePin \/ HostChanges \/ PowerCut

LEMMA NextCases == Next => Identity \/ Exchanges \/ SavingFingerprint \/ Around
BY DEF Next, Client, Identity, Exchanges, SavingFingerprint, Around

LEMMA TypeIdentity == TypeOK /\ Identity => TypeOK'
<1> SUFFICES ASSUME TypeOK, Identity PROVE TypeOK'
  OBVIOUS
<1> USE PairingAssumption
    DEF TypeOK, GiveUp, Spend, NoFault, Files, Pcs, Requests, Torn, Absent, disk, host, local
<1>1. CASE Begin
  BY <1>1 DEF Begin
<1>2. CASE LoadId
  BY <1>2 DEF LoadId
<1>3. CASE SaveId
  BY <1>3 DEF SaveId
<1>4. CASE CheckCredentials
  BY <1>4 DEF CheckCredentials
<1>5. CASE OpenKey
  BY <1>5 DEF OpenKey
<1>6. CASE WriteKey
  BY <1>6 DEF WriteKey
<1>7. CASE OpenCert
  BY <1>7 DEF OpenCert
<1>8. CASE WriteCert
  BY <1>8 DEF WriteCert
<1>9. CASE UnlinkCredentials
  BY <1>9 DEF UnlinkCredentials
<1> QED BY <1>1, <1>2, <1>3, <1>4, <1>5, <1>6, <1>7, <1>8, <1>9 DEF Identity

LEMMA TypeExchanges == TypeOK /\ LoadedWhole /\ Exchanges => TypeOK'
<1> SUFFICES ASSUME TypeOK, LoadedWhole, Exchanges PROVE TypeOK'
  OBVIOUS
<1> USE PairingAssumption
    DEF TypeOK, GiveUp, Spend, NoFault, Files, Pcs, Requests, Torn, Absent, disk, host, local
<1>1. CASE hv_is_paired
  BY <1>1 DEF hv_is_paired
<1>2. CASE LoadCredentials
  BY <1>2 DEF LoadCredentials
<1>3. CASE RequestLost
  BY <1>3 DEF RequestLost
<1>4. CASE GetServerCert
  <2>1. cert \in Nat
    BY <1>4 DEF GetServerCert, LoadedWhole, Complete
  <2> QED BY <1>4, <2>1 DEF GetServerCert, Answered, SessionSteps
<1>5. CASE ClientChallenge
  BY <1>5 DEF ClientChallenge, Retry, NoSession, SessionSteps
<1>6. CASE ClientChallengeEarly
  BY <1>6 DEF ClientChallengeEarly, Retry
<1>7. CASE ClientChallengeLost
  BY <1>7 DEF ClientChallengeLost, Retry
<1>8. CASE ServerChallengeResp
  BY <1>8 DEF ServerChallengeResp, Answered, SessionSteps
<1>9. CASE ClientPairingSecret
  <2>1. NoSession \in [step : SessionSteps, cert : Nat, pin : {"none", "right", "wrong"}]
    BY DEF NoSession, SessionSteps
  <2>2. key \in Nat \ {0}
    BY <1>9 DEF ClientPairingSecret, LoadedWhole, Complete
  <2>3. CASE HostAccepts
    <3>1. <<host_id, session.cert>> \in (Nat \ {0}) \X (Nat \ {0})
      BY <2>2, <2>3 DEF HostAccepts, SecretsMatch
    <3>2. session' \in [step : SessionSteps, cert : Nat, pin : {"none", "right", "wrong"}]
      BY <2>1, <2>3 DEF HostAccepts
    <3>3. /\ trusted' \subseteq Nat \ {0}
          /\ accepted' \subseteq (Nat \ {0}) \X (Nat \ {0})
          /\ host_id' \in Nat \ {0}
      BY <2>2, <2>3, <3>1 DEF HostAccepts, SecretsMatch
    <3>4. /\ id' \in Files /\ key' \in Files /\ cert' \in Files /\ fp' \in Files
          /\ gen' \in Nat /\ pc' \in Pcs
          /\ retry' \in 0 .. MaxRetry - 1 /\ server' \in Nat
          /\ faults' \in 0 .. MaxFaults
      BY <1>9 DEF ClientPairingSecret, Answered
    <3> QED BY <3>2, <3>3, <3>4 DEF SessionSteps
  <2>4. CASE ~HostAccepts
    <3>1. session' = NoSession \/ session' = session
      BY <1>9, <2>4 DEF ClientPairingSecret
    <3>2. UNCHANGED <<host_id, trusted, accepted, disk>>
      BY <1>9, <2>4 DEF ClientPairingSecret
    <3>3. /\ pc' \in Pcs
          /\ retry' \in 0 .. MaxRetry - 1 /\ server' \in Nat
          /\ faults' \in 0 .. MaxFaults
      BY <1>9, <2>4 DEF ClientPairingSecret
    <3> QED BY <2>1, <3>1, <3>2, <3>3 DEF SessionSteps
  <2> QED BY <2>3, <2>4
<1>10. CASE PairChallenge
  BY <1>10 DEF PairChallenge
<1>11. CASE Leave
  BY <1>11 DEF Leave
<1> QED BY <1>1, <1>2, <1>3, <1>4, <1>5, <1>6, <1>7, <1>8, <1>9, <1>10, <1>11 DEF Exchanges

LEMMA TypeSaving == TypeOK /\ SavingFingerprint => TypeOK'
<1> SUFFICES ASSUME TypeOK, SavingFingerprint PROVE TypeOK'
  OBVIOUS
<1> USE PairingAssumption
    DEF TypeOK, GiveUp, Spend, NoFault, Files, Pcs, Requests, Torn, Absent, disk, host, local
<1>1. CASE OpenFingerprint
  BY <1>1 DEF OpenFingerprint
<1>2. CASE WriteFingerprint
  BY <1>2 DEF WriteFingerprint
<1> QED BY <1>1, <1>2 DEF SavingFingerprint

LEMMA TypeAround == TypeOK /\ Around => TypeOK'
<1> SUFFICES ASSUME TypeOK, Around PROVE TypeOK'
  OBVIOUS
<1> USE PairingAssumption
    DEF TypeOK, GiveUp, Spend, NoFault, Files, Pcs, Requests, Torn, Absent, disk, host, local
<1>1. CASE EnterPin
  BY <1>1 DEF EnterPin, SessionSteps
<1>2. CASE MistypePin
  BY <1>2 DEF MistypePin, SessionSteps
<1>3. CASE HostChanges
  <2>1. NoSession \in [step : SessionSteps, cert : Nat, pin : {"none", "right", "wrong"}]
    BY DEF NoSession, SessionSteps
  <2>2. session' \in [step : SessionSteps, cert : Nat, pin : {"none", "right", "wrong"}]
    BY <1>3, <2>1 DEF HostChanges
  <2>3. host_id' \in Nat \ {0} /\ trusted' \subseteq Nat \ {0}
    <3>1. host_id' = host_id \/ host_id' = host_id + 1
      BY <1>3 DEF HostChanges
    <3>2. trusted' = trusted \/ trusted' = {}
      BY <1>3 DEF HostChanges
    <3>3. host_id' \in Nat \ {0}
      BY <3>1
    <3>4. trusted' \subseteq Nat \ {0}
      BY ONLY <3>2, TypeOK DEF TypeOK
    <3> QED BY <3>3, <3>4
  <2>4. /\ id' \in Files /\ key' \in Files /\ cert' \in Files /\ fp' \in Files
        /\ gen' \in Nat /\ pc' \in Pcs
        /\ retry' \in 0 .. MaxRetry - 1 /\ server' \in Nat
        /\ faults' \in 0 .. MaxFaults
        /\ accepted' \subseteq (Nat \ {0}) \X (Nat \ {0})
    BY <1>3 DEF HostChanges
  <2> QED BY <2>2, <2>3, <2>4 DEF SessionSteps
<1>4. CASE PowerCut
  BY <1>4 DEF PowerCut
<1> QED BY <1>1, <1>2, <1>3, <1>4 DEF Around

LEMMA TypeStep == TypeOK /\ LoadedWhole /\ [Next]_vars => TypeOK'
<1>1. TypeOK /\ UNCHANGED vars => TypeOK'
  BY DEF TypeOK, vars, disk, host, local
<1> QED BY <1>1, NextCases, TypeIdentity, TypeExchanges, TypeSaving, TypeAround
-----------------------------------------------------------------------------
\* All of the invariant but the types.
Safe == TrustIsMutual /\ CredentialsMatch /\ Generating /\ LoadedWhole /\ SavesAccepted

LEMMA SafeIdentity == IInv /\ Identity => Safe'
<1> SUFFICES ASSUME IInv, Identity PROVE Safe'
  OBVIOUS
<1> USE DEF IInv, Safe, TypeOK, TrustIsMutual, CredentialsMatch, Generating, LoadedWhole, SavesAccepted,
    GiveUp, Spend, NoFault, Files, Requests, Complete, Torn, Absent, disk, host, local
<1>1. CASE Begin
  BY <1>1 DEF Begin
<1>2. CASE LoadId
  BY <1>2 DEF LoadId
<1>3. CASE SaveId
  BY <1>3 DEF SaveId
<1>4. CASE CheckCredentials
  BY <1>4 DEF CheckCredentials, CredentialsExist
<1>5. CASE OpenKey
  BY <1>5 DEF OpenKey
<1>6. CASE WriteKey
  BY <1>6 DEF WriteKey
<1>7. CASE OpenCert
  BY <1>7 DEF OpenCert
<1>8. CASE WriteCert
  BY <1>8 DEF WriteCert
<1>9. CASE UnlinkCredentials
  BY <1>9 DEF UnlinkCredentials
<1> QED BY <1>1, <1>2, <1>3, <1>4, <1>5, <1>6, <1>7, <1>8, <1>9 DEF Identity

LEMMA SafeExchanges == IInv /\ Exchanges => Safe'
<1> SUFFICES ASSUME IInv, Exchanges PROVE Safe'
  OBVIOUS
<1> USE DEF IInv, Safe, TypeOK, TrustIsMutual, CredentialsMatch, Generating, LoadedWhole, SavesAccepted,
    GiveUp, Spend, NoFault, Files, Requests, Complete, Torn, Absent, disk, host, local
<1>1. CASE hv_is_paired
  BY <1>1 DEF hv_is_paired
<1>2. CASE LoadCredentials
  BY <1>2 DEF LoadCredentials
<1>3. CASE RequestLost
  BY <1>3 DEF RequestLost
<1>4. CASE GetServerCert
  BY <1>4 DEF GetServerCert, Answered
<1>5. CASE ClientChallenge
  BY <1>5 DEF ClientChallenge, Retry
<1>6. CASE ClientChallengeEarly
  BY <1>6 DEF ClientChallengeEarly, Retry
<1>7. CASE ClientChallengeLost
  BY <1>7 DEF ClientChallengeLost, Retry
<1>8. CASE ServerChallengeResp
  BY <1>8 DEF ServerChallengeResp, Answered
<1>9. CASE ClientPairingSecret
  BY <1>9 DEF ClientPairingSecret, HostAccepts, SecretsMatch, Answered
<1>10. CASE PairChallenge
  BY <1>10 DEF PairChallenge
<1>11. CASE Leave
  BY <1>11 DEF Leave
<1> QED BY <1>1, <1>2, <1>3, <1>4, <1>5, <1>6, <1>7, <1>8, <1>9, <1>10, <1>11 DEF Exchanges

LEMMA SafeSaving == IInv /\ SavingFingerprint => Safe'
<1> SUFFICES ASSUME IInv, SavingFingerprint PROVE Safe'
  OBVIOUS
<1> USE DEF IInv, Safe, TypeOK, TrustIsMutual, CredentialsMatch, Generating, LoadedWhole, SavesAccepted,
    GiveUp, Spend, NoFault, Files, Requests, Complete, Torn, Absent, disk, host, local
<1>1. CASE OpenFingerprint
  BY <1>1 DEF OpenFingerprint
<1>2. CASE WriteFingerprint
  BY <1>2 DEF WriteFingerprint
<1> QED BY <1>1, <1>2 DEF SavingFingerprint

LEMMA SafeAround == IInv /\ Around => Safe'
<1> SUFFICES ASSUME IInv, Around PROVE Safe'
  OBVIOUS
<1> USE DEF IInv, Safe, TypeOK, TrustIsMutual, CredentialsMatch, Generating, LoadedWhole, SavesAccepted,
    GiveUp, Spend, NoFault, Files, Requests, Complete, Torn, Absent, disk, host, local
<1>1. CASE EnterPin
  BY <1>1 DEF EnterPin
<1>2. CASE MistypePin
  BY <1>2 DEF MistypePin
<1>3. CASE HostChanges
  BY <1>3 DEF HostChanges
<1>4. CASE PowerCut
  BY <1>4 DEF PowerCut
<1> QED BY <1>1, <1>2, <1>3, <1>4 DEF Around

LEMMA StepIInv == IInv /\ [Next]_vars => IInv'
<1>1. IInv /\ UNCHANGED vars => Safe'
  BY DEF IInv, Safe, TrustIsMutual, CredentialsMatch, Generating, LoadedWhole, SavesAccepted,
         vars, disk, host, local
<1>2. IInv /\ [Next]_vars => Safe'
  BY <1>1, NextCases, SafeIdentity, SafeExchanges, SafeSaving, SafeAround
<1>3. IInv /\ [Next]_vars => TypeOK'
  BY TypeStep DEF IInv
<1> QED BY <1>2, <1>3 DEF IInv, Safe

-----------------------------------------------------------------------------
THEOREM Invariant == Spec => []IInv
BY InitIInv, StepIInv, PTL DEF Spec

\* The pairing, with as many retries and faults as one likes, keeps the types of
\* its variables; the PIN is waited for at most MaxRetry challenges.
THEOREM TypeCorrect == Spec => []TypeOK
<1>1. IInv => TypeOK
  BY DEF IInv
<1> QED BY <1>1, Invariant, PTL

\* A fingerprint on disk is that of a host that accepted the client's certificate.
THEOREM TrustMutual == Spec => []TrustIsMutual
<1>1. IInv => TrustIsMutual
  BY DEF IInv
<1> QED BY <1>1, Invariant, PTL

\* Key and certificate on disk are never those of different generations.
THEOREM Credentials == Spec => []CredentialsMatch
<1>1. IInv => CredentialsMatch
  BY DEF IInv
<1> QED BY <1>1, Invariant, PTL

-----------------------------------------------------------------------------
\* A step that keeps the pairing, unless it spends a fault or starts rewriting
\* the fingerprint.
Keeps == Paired => Paired' \/ faults' # faults \/ pc = "save"

LEMMA KeepsStep == IInv /\ [Next]_vars => Keeps
<1> SUFFICES ASSUME IInv, [Next]_vars, Paired, NoFault PROVE Paired' \/ pc = "save"
  BY DEF Keeps, NoFault
<1> USE DEF IInv, Paired, HttpsAnswers, NoFault, Spend, Complete, Torn, Absent, disk, host, local
<1>0. faults \in Int
  BY DEF TypeOK
<1>1. CASE Identity
  BY <1>0, <1>1 DEF Identity, Begin, LoadId, SaveId, CheckCredentials, OpenKey, WriteKey, OpenCert,
                    WriteCert, UnlinkCredentials, Generating
<1>2. CASE Exchanges
  <2>1. UNCHANGED <<disk, host_id>>
    BY <1>2 DEF Exchanges, hv_is_paired, LoadCredentials, RequestLost, GetServerCert,
                ClientChallenge, ClientChallengeEarly, ClientChallengeLost, ServerChallengeResp,
                ClientPairingSecret, HostAccepts, PairChallenge, Leave
  <2>2. trusted \subseteq trusted'
    BY <1>2 DEF Exchanges, hv_is_paired, LoadCredentials, RequestLost, GetServerCert,
                ClientChallenge, ClientChallengeEarly, ClientChallengeLost, ServerChallengeResp,
                ClientPairingSecret, HostAccepts, PairChallenge, Leave
  <2> QED BY <2>1, <2>2
<1>3. CASE SavingFingerprint
  BY <1>3 DEF SavingFingerprint, OpenFingerprint, WriteFingerprint, SavesAccepted, TypeOK
<1>4. CASE Around
  BY <1>0, <1>4 DEF Around, EnterPin, MistypePin, HostChanges, PowerCut
<1>5. CASE UNCHANGED vars
  BY <1>5 DEF vars
<1> QED BY <1>1, <1>2, <1>3, <1>4, <1>5, NextCases

\* Without a fault, no attempt to pair ends an agreement that stands.
THEOREM PairingKept == Spec => KeepsPairing
<1>1. IInv /\ [Next]_vars =>
        [Paired => Paired' \/ faults' # faults \/ pc = "save"]_vars
  BY KeepsStep DEF Keeps
<1> QED BY <1>1, Invariant, PTL DEF Spec, KeepsPairing


-----------------------------------------------------------------------------
(***************************************************************************)
(* The settings.                                                           *)
(***************************************************************************)

\* The keys a save prints, in memory, and as much of them as a file may hold.
Pair == [1 .. 2 -> Nat]
Printed == {s \in Seq(Nat) : Len(s) <= 2}
File == Printed \cup {NoFile}

LEMMA PrintedWhole ==
  ASSUME NEW s \in Printed, Len(s) = 2
  PROVE  s \in Pair /\ s # NoFile /\ Keys(s) = s
<1>1. s \in [1 .. 2 -> Nat]
  BY LenProperties DEF Printed
<1>2. Keys(s) = <<s[1], s[2]>>
  BY DEF Keys
<1>3. s = <<s[1], s[2]>>
  BY <1>1
<1> QED BY <1>1, <1>2, <1>3 DEF Pair, NoFile

LEMMA LoadedPair ==
  ASSUME NEW first \in File, NEW second \in File
  PROVE  Load(first, second) \in Pair
<1>1. Defaults \in Pair
  BY DEF Defaults, Pair
<1>2. ASSUME NEW f \in Printed PROVE Keys(f) \in Pair
  <2>1. \A a, b \in Nat : <<a, b>> \in Pair
    BY DEF Pair
  <2>2. /\ Len(f) >= 1 => f[1] \in Nat
        /\ Len(f) = 2 => f[2] \in Nat
    BY DEF Printed
  <2> QED BY <2>1, <2>2 DEF Keys
<1> QED BY <1>1, <1>2 DEF Load, File

LEMMA PrintedPart ==
  ASSUME NEW s \in Printed, NEW n \in 0 .. Len(s)
  PROVE  SubSeq(s, 1, n) \in Printed
BY DEF Printed

LEMMA PrintedMore ==
  ASSUME NEW s \in Printed, Len(s) < 2, NEW m \in Pair
  PROVE  /\ m[Len(s) + 1] \in Nat
         /\ Append(s, m[Len(s) + 1]) \in Printed
         /\ Len(Append(s, m[Len(s) + 1])) = Len(s) + 1
         /\ Append(s, m[Len(s) + 1])[Len(s) + 1] = m[Len(s) + 1]
         /\ Len(s) >= 1 => Append(s, m[Len(s) + 1])[1] = s[1]
<1>1. s \in Seq(Nat) /\ Len(s) \in Nat
  BY LenProperties DEF Printed
<1>2. Len(s) + 1 \in 1 .. 2
  BY <1>1
<1>3. m[Len(s) + 1] \in Nat
  BY <1>2 DEF Pair
<1>4. Append(s, m[Len(s) + 1]) \in Seq(Nat) /\ Len(Append(s, m[Len(s) + 1])) = Len(s) + 1
  BY <1>1, <1>2, <1>3, AppendProperties
<1>5. /\ Append(s, m[Len(s) + 1])[Len(s) + 1] = m[Len(s) + 1]
      /\ Len(s) >= 1 => Append(s, m[Len(s) + 1])[1] = s[1]
  BY <1>1, <1>2, <1>3, AppendProperties
<1> QED BY <1>1, <1>2, <1>3, <1>4, <1>5 DEF Printed

ConfTypes ==
  /\ mem \in Pair /\ saved \in Pair
  /\ primary \in File /\ fallback \in File
  /\ save \in [Threads -> {"idle", "open", "primary", "fallback"}]
  /\ buf \in [Threads -> Printed]
  /\ intact \in {"yes", "no", "mending"}

OneSaver == intact # "no" => \E t \in Threads : Idle(t)

\* A save that is alone has printed what is in memory, unless a change is marked
\* meanwhile; it uses the second file only when there is no first one.
Faithful ==
  intact # "no" =>
    \A t \in Threads : ~Idle(t) =>
      /\ Len(buf[t]) >= 1 => buf[t][1] = mem[1]
      /\ Len(buf[t]) = 2 /\ ~dirty => buf[t][2] = mem[2]
      /\ save[t] = "fallback" => primary = NoFile

Stands ==
  intact = "yes" /\ (\A t \in Threads : Idle(t)) =>
    /\ Loaded = saved
    /\ ~dirty => saved = mem

ConfInv == ConfTypes /\ OneSaver /\ Faithful /\ Stands

LEMMA InitConfInv == ConfInit => ConfInv
<1> SUFFICES ASSUME ConfInit PROVE ConfInv
  OBVIOUS
<1>1. Defaults \in Pair /\ << >> \in Printed
  BY DEF Defaults, Pair, Printed
<1>2. ConfTypes
  BY <1>1 DEF ConfInit, ConfTypes, File
<1>3. Stands
  BY DEF ConfInit, Stands, Loaded, Load
<1> QED BY <1>2, <1>3 DEF ConfInit, ConfInv, OneSaver, Faithful, Idle, Threads

\* Steps that touch neither the settings, the mark, the files nor a save.
LEMMA ConfQuiet ==
  ASSUME ConfInv, UNCHANGED <<mem, dirty, primary, fallback, save, buf, saved, intact>>
  PROVE  ConfInv'
BY DEF ConfInv, ConfTypes, OneSaver, Faithful, Stands, Idle, Loaded

\* A save begins, whatever has become of the settings.
LEMMA ConfStart ==
  ASSUME ConfInv, NEW t \in Threads, StartSave(t), mem' \in Pair,
         UNCHANGED <<primary, fallback, saved>>
  PROVE  ConfInv'
<1> USE DEF StartSave
<1>1. << >> \in Printed /\ Len(<< >>) = 0
  BY DEF Printed
<1>2. ConfTypes'
  BY <1>1 DEF ConfInv, ConfTypes
<1>3. save'[t] = "open" /\ buf'[t] = << >> /\ \A u \in Threads \ {t} : save'[u] = save[u]
  BY DEF ConfInv, ConfTypes
<1>4. intact' # "no" => \A u \in Threads \ {t} : save[u] = "idle"
  BY DEF Alone, Idle
<1>5. OneSaver'
  BY <1>3, <1>4 DEF OneSaver, Idle, Threads
<1>6. Faithful'
  BY <1>1, <1>3, <1>4 DEF Faithful, Idle
<1>7. Stands'
  BY <1>3 DEF Stands, Idle
<1> QED BY <1>2, <1>5, <1>6, <1>7 DEF ConfInv

LEMMA ConfChange ==
  ASSUME ConfInv, Change
  PROVE  ConfInv'
<1>1. mem' \in Pair /\ mem'[1] = mem[1] /\ dirty'
  BY DEF ConfInv, ConfTypes, Change, Pair
<1>2. UNCHANGED <<primary, fallback, save, buf, saved, intact>>
  BY DEF Change, files, saver
<1> QED BY <1>1, <1>2 DEF ConfInv, ConfTypes, OneSaver, Faithful, Stands, Idle, Loaded

LEMMA ConfOpen ==
  ASSUME ConfInv, NEW t \in Threads, Open(t)
  PROVE  ConfInv'
<1> USE DEF Open, files
<1>1. << >> \in Printed
  BY DEF Printed
<1>2. ConfTypes'
  BY <1>1 DEF ConfInv, ConfTypes, File, Empty
<1>3. /\ save[t] = "open" /\ UNCHANGED <<mem, dirty, buf>>
      /\ \A u \in Threads \ {t} : save'[u] = save[u]
      /\ intact' \in {intact, "no"}
  BY DEF ConfInv, ConfTypes
<1>4. intact' # "no" =>
        /\ save'[t] # "idle"
        /\ save'[t] = "fallback" => primary' = NoFile
        /\ \A u \in Threads \ {t} : save[u] = "idle"
  BY <1>3 DEF ConfInv, ConfTypes, OneSaver, Idle, Threads
<1>5. OneSaver'
  BY <1>3, <1>4 DEF OneSaver, Idle, Threads
<1>6. Faithful'
  BY <1>3, <1>4 DEF ConfInv, Faithful, Idle
<1>7. Stands'
  BY <1>4 DEF Stands, Idle
<1> QED BY <1>2, <1>5, <1>6, <1>7 DEF ConfInv

LEMMA ConfPrint ==
  ASSUME ConfInv, NEW t \in Threads, Print1(t)
  PROVE  ConfInv'
<1> DEFINE more == Append(buf[t], mem[Len(buf[t]) + 1])
<1>1. /\ Len(buf[t]) < 2 /\ buf' = [buf EXCEPT ![t] = more] /\ save[t] # "idle"
      /\ UNCHANGED <<mem, dirty, primary, fallback, save, saved, intact>>
  BY DEF Print1, Printing, files
<1>2. buf[t] \in Printed /\ mem \in Pair /\ Len(buf[t]) \in Nat
  BY LenProperties DEF ConfInv, ConfTypes, Printed
<1>3. /\ more \in Printed /\ Len(more) = Len(buf[t]) + 1
      /\ more[Len(buf[t]) + 1] = mem[Len(buf[t]) + 1]
      /\ Len(buf[t]) >= 1 => more[1] = buf[t][1]
  BY <1>1, <1>2, PrintedMore
<1> HIDE DEF more
<1>4. ConfTypes'
  BY <1>1, <1>3 DEF ConfInv, ConfTypes
<1>5. buf'[t] = more /\ \A u \in Threads \ {t} : buf'[u] = buf[u]
  BY <1>1 DEF ConfInv, ConfTypes
<1>6. OneSaver' /\ Stands'
  BY <1>1 DEF ConfInv, OneSaver, Stands, Idle, Loaded
<1>7. Faithful'
  <2> SUFFICES ASSUME intact # "no", NEW u \in Threads, save[u] # "idle"
               PROVE  /\ Len(buf'[u]) >= 1 => buf'[u][1] = mem[1]
                      /\ Len(buf'[u]) = 2 /\ ~dirty => buf'[u][2] = mem[2]
                      /\ save[u] = "fallback" => primary = NoFile
    BY <1>1 DEF Faithful, Idle
  <2>1. /\ Len(buf[u]) >= 1 => buf[u][1] = mem[1]
        /\ Len(buf[u]) = 2 /\ ~dirty => buf[u][2] = mem[2]
        /\ save[u] = "fallback" => primary = NoFile
    BY DEF ConfInv, Faithful, Idle
  <2>2. CASE u = t
    BY <1>1, <1>2, <1>3, <1>5, <2>1, <2>2
  <2> QED BY <1>5, <2>1, <2>2
<1> QED BY <1>4, <1>6, <1>7 DEF ConfInv

LEMMA ConfSync ==
  ASSUME ConfInv, NEW t \in Threads, Sync(t)
  PROVE  ConfInv'
<1>1. /\ Len(buf[t]) = 2 /\ saved' = buf[t] /\ save[t] \in {"primary", "fallback"}
      /\ save' = [save EXCEPT ![t] = "idle"] /\ UNCHANGED <<mem, dirty, buf>>
  BY DEF Sync, Printing
<1>2. buf[t] \in Printed /\ buf[t] \in Pair /\ buf[t] # NoFile /\ Keys(buf[t]) = buf[t]
  BY <1>1, PrintedWhole DEF ConfInv, ConfTypes
<1>3. save'[t] = "idle" /\ \A u \in Threads \ {t} : save'[u] = save[u]
  BY <1>1 DEF ConfInv, ConfTypes
<1>4. CASE /\ Written(t, buf[t])
           /\ intact' = IF intact = "mending" /\ save[t] = "primary" THEN "yes" ELSE intact
  <2>1. ConfTypes'
    BY <1>1, <1>2, <1>4 DEF ConfInv, ConfTypes, Written, File
  <2>2. intact' # "no" <=> intact # "no"
    BY <1>4
  <2>3. intact # "no" => \A u \in Threads : save'[u] = "idle"
    BY <1>1, <1>3 DEF ConfInv, OneSaver, Idle, Threads
  <2>4. OneSaver' /\ Faithful'
    BY <1>3, <2>2, <2>3 DEF OneSaver, Faithful, Idle
  <2>5. ASSUME intact' = "yes" PROVE Load(primary', fallback') = buf[t]
    <3>1. CASE save[t] = "primary"
      BY <1>2, <1>4, <3>1 DEF Written, Load
    <3>2. CASE save[t] = "fallback"
      <4>1. primary = NoFile
        BY <1>4, <2>5, <3>2 DEF ConfInv, Faithful, Idle
      <4> QED BY <1>2, <1>4, <3>2, <4>1 DEF Written, Load
    <3> QED BY <1>1, <3>1, <3>2
  <2>6. ASSUME intact # "no", ~dirty PROVE buf[t] = mem
    <3>1. buf[t][1] = mem[1] /\ buf[t][2] = mem[2]
      BY <1>1, <2>6 DEF ConfInv, Faithful, Idle
    <3>2. buf[t] \in Pair /\ mem \in Pair
      BY <1>2 DEF ConfInv, ConfTypes
    <3> QED BY <3>1, <3>2 DEF Pair
  <2>7. Stands'
    BY <1>1, <2>2, <2>5, <2>6 DEF Stands, Loaded
  <2> QED BY <2>1, <2>4, <2>7 DEF ConfInv
<1>5. CASE /\ \E n \in 0 .. 1 : Written(t, SubSeq(buf[t], 1, n))
           /\ intact' = "no"
  <2>1. PICK n \in 0 .. 1 : Written(t, SubSeq(buf[t], 1, n))
    BY <1>5
  <2>2. SubSeq(buf[t], 1, n) \in Printed
    <3>1. n \in 0 .. Len(buf[t])
      BY <1>1
    <3> QED BY <1>2, <3>1, PrintedPart
  <2>3. ConfTypes'
    BY <1>1, <1>2, <1>5, <2>1, <2>2 DEF ConfInv, ConfTypes, Written, File
  <2> QED BY <1>5, <2>3 DEF ConfInv, OneSaver, Faithful, Stands
<1> QED BY <1>4, <1>5 DEF Sync

\* A start, after an exit or a power cut, takes what it loads for what was saved.
LEMMA ConfStarts ==
  ASSUME ConfInv, primary' \in File, fallback' \in File, saved' \in Pair,
         intact' \in {"yes", "no", "mending"},
         Starts(Load(primary', fallback')),
         intact' = "yes" => saved' = Load(primary', fallback')
  PROVE  ConfInv'
<1> USE DEF Starts
<1>1. Load(primary', fallback') \in Pair /\ << >> \in Printed
  BY LoadedPair DEF Printed
<1>2. ConfTypes'
  BY <1>1 DEF ConfTypes
<1>3. \A t \in Threads : save'[t] = "idle"
  OBVIOUS
<1>4. OneSaver' /\ Faithful'
  BY <1>3 DEF OneSaver, Faithful, Idle, Threads
<1>5. Stands'
  BY DEF Stands, Loaded
<1> QED BY <1>2, <1>4, <1>5 DEF ConfInv

LEMMA ConfRestart ==
  ASSUME ConfInv, Restart
  PROVE  ConfInv'
<1>1. UNCHANGED <<primary, fallback>> /\ saved' = Load(primary', fallback') /\ intact' = "yes"
  BY DEF Restart, Loaded, files
<1>2. saved' \in Pair
  BY <1>1, LoadedPair DEF ConfInv, ConfTypes
<1>3. Starts(Load(primary', fallback'))
  BY <1>1 DEF Restart, Loaded
<1> QED BY <1>1, <1>2, <1>3, ConfStarts DEF ConfInv, ConfTypes

LEMMA ConfPowerCut ==
  ASSUME ConfInv, PowerLoss
  PROVE  ConfInv'
<1>1. ASSUME NEW file \in File, NEW name, NEW left \in AfterCut(file, name)
      PROVE  left \in File
  <2>1. CASE left = file
    BY <2>1
  <2>2. ASSUME NEW t \in Threads, left \in Parts(t) PROVE left \in File
    <3>1. buf[t] \in Printed
      BY DEF ConfInv, ConfTypes
    <3>2. PICK n \in 0 .. Len(buf[t]) : left = SubSeq(buf[t], 1, n)
      BY <2>2 DEF Parts
    <3> QED BY <3>1, <3>2, PrintedPart DEF File
  <2> QED BY <1>1, <2>1, <2>2 DEF AfterCut
<1>2. PICK first \in AfterCut(primary, "primary"),
           second \in AfterCut(fallback, "fallback") :
        /\ primary' = first /\ fallback' = second
        /\ Starts(Load(first, second))
  BY DEF PowerLoss
<1>3. primary' \in File /\ fallback' \in File
  BY <1>1, <1>2 DEF ConfInv, ConfTypes
<1>4. saved' = saved /\ intact' = IF \A t \in Threads : Idle(t) THEN intact ELSE "no"
  BY DEF PowerLoss
<1>5. ASSUME intact' = "yes" PROVE saved' = Load(primary', fallback')
  <2>1. intact = "yes" /\ \A t \in Threads : save[t] = "idle"
    BY <1>4, <1>5 DEF Idle
  <2>2. primary' = primary /\ fallback' = fallback
    BY <1>2, <2>1 DEF AfterCut
  <2> QED BY <1>4, <2>1, <2>2 DEF ConfInv, Stands, Idle, Loaded
<1> QED BY <1>2, <1>3, <1>4, <1>5, ConfStarts DEF ConfInv, ConfTypes

LEMMA ConfStep == ConfInv /\ [ConfNext]_confVars => ConfInv'
<1> SUFFICES ASSUME ConfInv, [ConfNext]_confVars PROVE ConfInv'
  OBVIOUS
<1> USE DEF files, saver, menu, threads
<1>1. "ui" \in Threads /\ "main" \in Threads
  BY DEF Threads
<1>2. CASE Tick \/ EnterSettings \/ Left \/ OpenOsk \/ UiEnds
  BY <1>2, ConfQuiet
     DEF Tick, EnterSettings, Left, OpenOsk, UiEnds
<1>3. CASE Type \/ ExitRequested \/ UiStop \/ Joined \/ UNCHANGED confVars
  BY <1>3, ConfQuiet
     DEF Type, ExitRequested, UiStop, Joined, confVars
<1>4. CASE Debounce
  BY <1>1, <1>4, ConfStart DEF Debounce, ConfInv, ConfTypes
<1>5. CASE LeaveSettings
  BY <1>1, <1>5, ConfStart, ConfQuiet DEF LeaveSettings, ConfInv, ConfTypes
<1>6. CASE ShutdownFlush
  BY <1>1, <1>6, ConfStart, ConfQuiet DEF ShutdownFlush, ConfInv, ConfTypes
<1>7. ASSUME NEW t \in Threads, ui_osk_callback(t) PROVE ConfInv'
  <2>1. mem' \in Pair
    BY <1>7 DEF ui_osk_callback, ConfInv, ConfTypes, Pair
  <2> QED BY <1>7, <2>1, ConfStart DEF ui_osk_callback
<1>8. ASSUME NEW t \in Threads, Saving(t) PROVE ConfInv'
  BY <1>8, ConfOpen, ConfPrint, ConfSync DEF Saving
<1> QED BY <1>1, <1>2, <1>3, <1>4, <1>5, <1>6, <1>7, <1>8, ConfChange, ConfRestart, ConfPowerCut
        DEF ConfNext, UiWork, MainWork

THEOREM ConfInvariance == ConfSpec => []ConfInv
BY InitConfInv, ConfStep, PTL DEF ConfSpec

\* What the last save reported as saved is what the next start loads.
THEOREM SavedAlwaysLoaded == ConfSpec => []SavedIsLoaded
<1>1. ConfInv => SavedIsLoaded
  BY DEF ConfInv, Stands, SavedIsLoaded
<1> QED BY <1>1, ConfInvariance, PTL

\* The mark is never removed from a change that a save has not seen.
THEOREM CleanAlwaysSaved == ConfSpec => []CleanIsSaved
<1>1. ConfInv => CleanIsSaved
  BY DEF ConfInv, Stands, CleanIsSaved
<1> QED BY <1>1, ConfInvariance, PTL
=============================================================================
