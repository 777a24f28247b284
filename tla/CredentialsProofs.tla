------------------------- MODULE CredentialsProofs -------------------------
(***************************************************************************)
(* Proofs about Credentials: type correctness, and that both ways of       *)
(* provisioning are complete when they say so, wherever the attempts and   *)
(* the boots before them stopped.                                          *)
(***************************************************************************)
EXTENDS Credentials, TLAPS

\* The calls made so far have each left their credential behind.
Added_Prefix ==
  \A i \in 1 .. End - 1 : i < add /\ AddOrder[i] \in image.files => AddOrder[i] \in stored

Written_Prefix ==
  writeState \in {"in", "ok"} =>
    \A i \in 1 .. End - 1 :
      i < write /\ WriteOrder[i] \in image.files => modem[WriteOrder[i]] = image.version

IInv ==
  /\ TypeOK
  /\ Added_Prefix
  /\ certs_added => image.files \subseteq stored
  /\ ConnectsWithCertificates
  /\ Written_Prefix
  /\ writeState = "ok" => write = End

\* The files and the issue of an image are of the sets given.
LEMMA ImageType ==
  ASSUME NEW i \in Images
  PROVE  i.version \in Versions /\ i.files \subseteq Names
BY CredentialsAssumption DEF Images

\* An attempt that is counted stays within MaxAttempts, and so does its plan.
LEMMA RetryType ==
  ASSUME TypeOK, NEW count \in failures .. MaxAttempts, Retry(count)
  PROVE  failures' \in 0 .. MaxAttempts /\ planned' \in BOOLEAN
<1>1. failures' \in 0 .. MaxAttempts
  BY CredentialsAssumption DEF TypeOK, Retry
<1>2. planned' = planned \/ planned' = TRUE
  BY DEF Retry
<1>3. planned' \in BOOLEAN
  BY <1>2, Zenon DEF TypeOK
<1>q. QED
  BY <1>1, <1>3

\* Every name has its place in the order of the two functions.
LEMMA OrdersAreComplete ==
  /\ \A n \in Names : \E i \in 1 .. End - 1 : AddOrder[i] = n
  /\ \A n \in Names : \E i \in 1 .. End - 1 : WriteOrder[i] = n
  /\ \A i \in 1 .. End - 1 : AddOrder[i] \in Names /\ WriteOrder[i] \in Names
<1>1. /\ AddOrder[1] = "ca" /\ AddOrder[2] = "key" /\ AddOrder[3] = "cert"
      /\ AddOrder[4] = "ca_2" /\ AddOrder[5] = "key_2" /\ AddOrder[6] = "cert_2"
  BY DEF AddOrder
<1>2. /\ WriteOrder[1] = "ca" /\ WriteOrder[2] = "cert" /\ WriteOrder[3] = "key"
      /\ WriteOrder[4] = "ca_2" /\ WriteOrder[5] = "cert_2" /\ WriteOrder[6] = "key_2"
  BY DEF WriteOrder
<1>3. 1 .. End - 1 = {1, 2, 3, 4, 5, 6}
  BY DEF End
<1>q. QED
  BY <1>1, <1>2, <1>3 DEF Names

\* The initial state satisfies the inductive invariant.
LEMMA InitInvariant == Init => IInv
<1> SUFFICES ASSUME Init PROVE IInv
  OBVIOUS
<1>1. TypeOK
  <2>1. modem \in [Names -> Versions \cup {Blank}]
    BY DEF Init
  <2>2. write \in 1 .. End /\ add \in 0 .. End
    BY DEF Init, End
  <2>3. stored \subseteq image.files
    BY DEF Init
  <2>4. certs_added \in BOOLEAN /\ faulty \in BOOLEAN /\ planned \in BOOLEAN
    BY Zenon DEF Init
  <2>5. failures \in 0 .. MaxAttempts
    BY CredentialsAssumption DEF Init
  <2>q. QED
    BY <2>1, <2>2, <2>3, <2>4, <2>5 DEF Init, TypeOK
<1>2. Added_Prefix
  BY DEF Init, Added_Prefix, End
<1>3. Written_Prefix
  BY DEF Init, Written_Prefix
<1>q. QED
  BY <1>1, <1>2, <1>3 DEF Init, IInv, ConnectsWithCertificates

\* A step of credentials_provision() keeps the inductive invariant.
LEMMA ModemKeepsInvariant ==
  ASSUME IInv, ModemInit \/ WriteSucceeds \/ WriteFails \/ WritesDone
  PROVE  IInv'
<1> USE DEF IInv, Added_Prefix, ConnectsWithCertificates, Written_Prefix
<1>0. ASSUME UNCHANGED <<image, tlsVars, workVars, faulty>>,
             modem' \in [Names -> Versions \cup {Blank}], write' \in 1 .. End,
             writeState' \in {"idle", "in", "ok", "err"}
      PROVE  TypeOK'
  <2>1. /\ certs_added' \in BOOLEAN /\ faulty' \in BOOLEAN /\ planned' \in BOOLEAN
        /\ image' \in Images /\ stored' \subseteq image'.files
        /\ add' \in 0 .. End /\ connect' \in {"no", "trying", "accepted"}
        /\ failures' \in 0 .. MaxAttempts
    BY <1>0, Zenon DEF TypeOK, tlsVars, workVars
  <2>q. QED
    BY <1>0, <2>1 DEF TypeOK
<1>1. CASE ModemInit
  <2>1. TypeOK'
    BY <1>0, <1>1 DEF ModemInit, TypeOK, End
  <2>q. QED
    BY <1>1, <2>1 DEF ModemInit, tlsVars, End
<1>2. CASE WriteSucceeds
  <2>1. write \in 1 .. End - 1
    BY <1>2 DEF WriteSucceeds, TypeOK, End
  <2>2. WriteOrder[write] \in Names
    BY <2>1, OrdersAreComplete
  <2>3. modem' \in [Names -> Versions \cup {Blank}]
    BY <1>2, ImageType DEF WriteSucceeds, ModemWrite, TypeOK
  <2>4. TypeOK'
    BY <1>0, <1>2, <2>1, <2>3 DEF WriteSucceeds, TypeOK, End
  <2>5. ASSUME NEW i \in 1 .. End - 1, i < write', WriteOrder[i] \in image'.files
        PROVE  modem'[WriteOrder[i]] = image'.version
    <3>1. WriteOrder[i] \in Names
      BY OrdersAreComplete
    <3>2. image' = image /\ write' = write + 1 /\ writeState = "in"
      BY <1>2 DEF WriteSucceeds
    <3>3. modem' = [modem EXCEPT ![WriteOrder[write]] =
                      IF WriteOrder[write] \in image.files THEN image.version ELSE @]
      BY <1>2 DEF WriteSucceeds, ModemWrite
    <3>4. CASE WriteOrder[i] = WriteOrder[write]
      BY <2>2, <2>5, <3>2, <3>3, <3>4 DEF TypeOK
    <3>5. CASE WriteOrder[i] # WriteOrder[write]
      <4>1. i < write
        BY <2>1, <2>5, <3>2, <3>5 DEF End
      <4>2. modem[WriteOrder[i]] = image.version
        BY <2>5, <3>2, <4>1
      <4>3. modem'[WriteOrder[i]] = modem[WriteOrder[i]]
        BY <3>1, <3>3, <3>5 DEF TypeOK
      <4>q. QED
        BY <3>2, <4>2, <4>3
    <3>q. QED
      BY <3>4, <3>5
  <2>6. Written_Prefix'
    BY <2>5
  <2>q. QED
    BY <1>2, <2>4, <2>6 DEF WriteSucceeds, tlsVars
<1>3. CASE WriteFails
  <2>1. TypeOK'
    BY <1>0, <1>3 DEF WriteFails, TypeOK
  <2>q. QED
    BY <1>3, <2>1 DEF WriteFails, tlsVars
<1>4. CASE WritesDone
  <2>1. TypeOK'
    BY <1>0, <1>4 DEF WritesDone, TypeOK
  <2>q. QED
    BY <1>4, <2>1 DEF WritesDone, tlsVars
<1>q. QED
  BY <1>1, <1>2, <1>3, <1>4

\* A step of client_connect(), or of transport around it, keeps the inductive
\* invariant.
LEMMA TlsKeepsInvariant ==
  ASSUME IInv, Connect \/ Session \/ Network
  PROVE  IInv'
<1> USE DEF IInv, Added_Prefix, ConnectsWithCertificates, Connect, Session, Network
<1>0. /\ UNCHANGED <<image, modemVars, faulty>>
      /\ Written_Prefix' /\ (writeState = "ok" => write = End)'
  BY DEF Written_Prefix, modemVars, ConnectBegins, AddSucceeds, AddFails, AddsDone,
    ConnectAccepted, ConnectEnds, ConnectRejected, NetworkConnected, NetworkDisconnected
<1>t. ASSUME stored' \subseteq image.files, certs_added' \in BOOLEAN, add' \in 0 .. End,
             connect' \in {"no", "trying", "accepted"},
             planned' \in BOOLEAN, failures' \in 0 .. MaxAttempts
      PROVE  TypeOK'
  <2>1. /\ image' \in Images /\ faulty' \in BOOLEAN
        /\ modem' \in [Names -> Versions \cup {Blank}]
        /\ write' \in 1 .. End /\ writeState' \in {"idle", "in", "ok", "err"}
    BY <1>0, Zenon DEF TypeOK, modemVars
  <2>q. QED
    BY <1>0, <1>t, <2>1 DEF TypeOK
<1>p. \A b \in {TRUE, FALSE} : b \in BOOLEAN
  OBVIOUS
<1>c. certs_added \in BOOLEAN /\ planned \in BOOLEAN
  BY DEF TypeOK
<1>f. 0 \in 0 .. MaxAttempts /\ failures \in 0 .. MaxAttempts
  BY CredentialsAssumption DEF TypeOK
<1>1. CASE ConnectBegins
  <2>1. planned' = FALSE /\ UNCHANGED <<stored, certs_added, failures>>
    BY <1>1 DEF ConnectBegins
  <2>2. add' \in 0 .. End /\ connect' \in {"no", "trying", "accepted"}
    BY <1>1 DEF ConnectBegins, TypeOK, End
  <2>3. TypeOK'
    BY <1>t, <1>c, <1>f, <1>p, <2>1, <2>2 DEF TypeOK
  <2>q. QED
    BY <1>0, <1>1, <2>3 DEF ConnectBegins, End
<1>2. CASE AddSucceeds
  <2>1. /\ add' = add + 1 /\ stored' = stored \cup ({AddOrder[add]} \cap image.files)
        /\ UNCHANGED <<certs_added, connect, planned, failures>>
    BY <1>2 DEF AddSucceeds, Added, workVars
  <2>2. add' \in 0 .. End /\ stored' \subseteq image.files
    BY <1>2, <2>1 DEF AddSucceeds, TypeOK, End
  <2>3. TypeOK'
    BY <1>t, <1>c, <1>f, <2>1, <2>2 DEF TypeOK
  <2>4. Added_Prefix'
    BY <1>0, <2>1, <1>2 DEF AddSucceeds, TypeOK, End
  <2>q. QED
    BY <1>0, <1>2, <2>1, <2>3, <2>4 DEF AddSucceeds
<1>3. CASE AddFails
  <2>1. add' = 0 /\ UNCHANGED <<stored, certs_added, connect>> /\ Retry(failures)
    BY <1>3 DEF AddFails, AddReturns
  <2>2. failures' \in 0 .. MaxAttempts /\ planned' \in BOOLEAN
    BY <1>f, <2>1, RetryType
  <2>3. TypeOK'
    BY <1>t, <1>c, <2>1, <2>2 DEF TypeOK, End
  <2>q. QED
    BY <1>0, <2>1, <2>3 DEF End
<1>4. CASE AddsDone
  <2>1. image.files \subseteq stored
    <3>1. \A n \in Names : n \in image.files => n \in stored
      BY <1>4, OrdersAreComplete DEF AddsDone, End
    <3>q. QED
      BY <3>1, ImageType DEF TypeOK
  <2>2. /\ certs_added' = TRUE /\ add' = 0 /\ connect' = "trying"
        /\ UNCHANGED <<stored, planned, failures>>
    BY <1>4 DEF AddsDone, workVars
  <2>3. TypeOK'
    BY <1>t, <1>c, <1>f, <1>p, <2>2 DEF TypeOK, End
  <2>q. QED
    BY <1>0, <2>1, <2>2, <2>3 DEF End
<1>5. CASE Session \/ Network
  <2>1. /\ UNCHANGED <<stored, certs_added, add>>
        /\ connect' = connect \/ connect # "no"
        /\ connect' \in {"no", "trying", "accepted"}
    BY <1>5 DEF ConnectAccepted, ConnectEnds, ConnectRejected, NetworkConnected,
      NetworkDisconnected, tlsVars, TypeOK
  <2>2. failures' \in 0 .. MaxAttempts /\ planned' \in BOOLEAN
    <3>1. CASE ConnectEnds
      BY <1>c, <1>f, <3>1, RetryType DEF ConnectEnds, workVars
    <3>2. CASE Network
      BY <1>f, <1>p, <3>2 DEF NetworkConnected, NetworkDisconnected
    <3>3. CASE ConnectAccepted
      BY <1>f, <1>p, <3>3 DEF ConnectAccepted
    <3>4. CASE ConnectRejected
      <4>1. \/ failures' = failures
            \/ failures < MaxAttempts /\ failures' = failures + 1
        BY <3>4 DEF ConnectRejected
      <4>3. failures' \in 0 .. MaxAttempts
        BY <1>f, <4>1, CredentialsAssumption
      <4>2. planned' \in BOOLEAN
        BY <1>c, <1>p, <3>4 DEF ConnectRejected
      <4>q. QED
        BY <4>2, <4>3
    <3>q. QED
      BY <1>5, <3>1, <3>2, <3>3, <3>4
  <2>3. TypeOK'
    BY <1>t, <1>c, <2>1, <2>2 DEF TypeOK
  <2>q. QED
    BY <1>0, <2>1, <2>3
<1>q. QED
  BY <1>1, <1>2, <1>3, <1>4, <1>5

\* Every step keeps the inductive invariant.
LEMMA NextInvariant == IInv /\ [Next]_vars => IInv'
<1> SUFFICES ASSUME IInv, [Next]_vars PROVE IInv'
  OBVIOUS
<1>1. CASE Provision
  BY <1>1, ModemKeepsInvariant DEF Provision
<1>2. CASE Connect \/ Session \/ Network
  BY <1>2, TlsKeepsInvariant
<1>3. CASE Restart
  <2>1. write' \in 1 .. End /\ add' \in 0 .. End /\ failures' \in 0 .. MaxAttempts
    BY <1>3, CredentialsAssumption DEF Restart, End
  <2>2. certs_added' \in BOOLEAN /\ faulty' \in BOOLEAN /\ planned' \in BOOLEAN
    BY <1>3, Zenon DEF Restart, IInv, TypeOK
  <2>3. /\ image' \in Images /\ stored' \subseteq image'.files
        /\ modem' \in [Names -> Versions \cup {Blank}]
        /\ writeState' \in {"idle", "in", "ok", "err"}
        /\ connect' \in {"no", "trying", "accepted"}
    BY <1>3 DEF Restart, IInv, TypeOK
  <2>4. TypeOK'
    BY <2>1, <2>2, <2>3 DEF TypeOK
  <2>5. Added_Prefix'
    BY <1>3 DEF Restart, Added_Prefix, End
  <2>q. QED
    BY <1>3, <2>4, <2>5 DEF Restart, IInv, ConnectsWithCertificates, Written_Prefix
<1>4. CASE FaultsEnd \/ UNCHANGED vars
  <2>1. UNCHANGED <<image, modemVars, tlsVars, workVars>>
    BY <1>4 DEF FaultsEnd, vars
  <2>2. faulty' \in BOOLEAN
    BY <1>4, Zenon DEF FaultsEnd, vars, IInv, TypeOK
  <2>3. TypeOK'
    BY <2>1, <2>2, Zenon DEF IInv, TypeOK, modemVars, tlsVars, workVars
  <2>q. QED
    BY <2>1, <2>3 DEF IInv, Added_Prefix, ConnectsWithCertificates, Written_Prefix, modemVars,
      tlsVars
<1>q. QED
  BY <1>1, <1>2, <1>3, <1>4 DEF Next

\* The inductive invariant holds of every reachable state.
LEMMA Invariance == Spec => []IInv
<1>1. Init => IInv
  BY InitInvariant
<1>2. IInv /\ [Next]_vars => IInv'
  BY NextInvariant
<1>q. QED
  BY <1>1, <1>2, PTL DEF Spec

\* Type correctness, for any images, whatever files each of them has.
THEOREM TypeCorrect == Spec => []TypeOK
<1>1. IInv => TypeOK
  BY DEF IInv
<1>q. QED
  BY <1>1, Invariance, PTL

\* mqtt_connect() finds every credential of the image in the TLS credentials
\* (mqtt_client.c:544-555).
THEOREM CertificatesComeFirst == Spec => []ConnectsWithCertificates
<1>1. IInv => ConnectsWithCertificates
  BY DEF IInv
<1>q. QED
  BY <1>1, Invariance, PTL

\* credentials_provision() without an error leaves each credential of the running
\* image in the image's issue, whatever files the images before it had and wherever
\* their initialisations stopped (credentials_provision.c:62-132).
THEOREM ModemIsOfImage == Spec => []ModemMatchesImage
<1>1. IInv => ModemMatchesImage
  <2> SUFFICES ASSUME IInv, writeState = "ok", NEW n \in image.files PROVE modem[n] = image.version
    BY DEF ModemMatchesImage
  <2>1. PICK i \in 1 .. End - 1 : WriteOrder[i] = n
    BY OrdersAreComplete, ImageType DEF IInv, TypeOK
  <2>2. i < write
    BY <2>1 DEF IInv, End
  <2>q. QED
    BY <2>1, <2>2 DEF IInv, Written_Prefix
<1>q. QED
  BY <1>1, Invariance, PTL
=============================================================================
