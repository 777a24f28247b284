---------------------------- MODULE Credentials ----------------------------
(***************************************************************************)
(* The credentials of the TLS connection, on their two ways:               *)
(*                                                                         *)
(*  - credentials_provision() writes them to the modem, which keeps them   *)
(*    through a reboot, whenever the modem library is initialised;         *)
(*  - certificates_provision() adds them to Zephyr's TLS credentials,      *)
(*    which are in RAM, on the way to mqtt_connect() in client_connect().  *)
(*                                                                         *)
(* Both go through the six credentials in a fixed order, leave out those   *)
(* the image has no file for, and stop at the first error.  The modem and  *)
(* the TLS credentials are external.  The device may restart between any   *)
(* two calls, with the same image or another, which may have other files:  *)
(* nothing in the code deletes what an earlier image wrote.                *)
(*                                                                         *)
(* An attempt to connect runs when transport has planned one, and counts   *)
(* towards MaxAttempts when it fails, for whatever reason.  What happens   *)
(* in a session is module Transport's.                                     *)
(***************************************************************************)
EXTENDS Naturals, FiniteSets

CONSTANTS
  Versions,     \* issues of the credentials; an image holds one of them
  FileSets,     \* credentials with a file and a configured security tag, per image
  MaxAttempts   \* CONFIG_MQTT_SAMPLE_TRANSPORT_RECONNECT_MAX_ATTEMPTS

Names == {"ca", "key", "cert", "ca_2", "key_2", "cert_2"}
Blank == "nothing"

ASSUME CredentialsAssumption ==
  FileSets \subseteq SUBSET Names /\ Blank \notin Versions /\ MaxAttempts \in Nat

Images == [version : Versions, files : FileSets]

\* The orders of tls_credential_add() and of modem_key_mgmt_write().
AddOrder   == <<"ca", "key", "cert", "ca_2", "key_2", "cert_2">>
WriteOrder == <<"ca", "cert", "key", "ca_2", "cert_2", "key_2">>
End == 7

VARIABLES
  image,        \* the image that runs
  modem,        \* the issue whose credential of each name the modem keeps
  write,        \* the next call of credentials_provision(), End when all were made
  writeState,   \* "idle" before the modem library is initialised, "in", "ok" or "err"
  stored,       \* names in Zephyr's TLS credentials
  certs_added,  \* the static flag of certificates_provision()
  add,          \* the next call of certificates_provision(), 0 outside of it
  connect,      \* "no", "trying" once mqtt_connect() is reached, "accepted" with CONNACK
  planned,      \* mqtt_connect_work is scheduled
  failures,     \* mqtt_broker_reconnect_failures
  faulty        \* calls may fail, the network may be lost and the device may restart

modemVars == <<modem, write, writeState>>
tlsVars == <<stored, certs_added, add, connect>>
workVars == <<planned, failures>>
vars == <<image, modemVars, tlsVars, workVars, faulty>>

Init ==
  /\ image \in Images
  /\ modem = [n \in Names |-> Blank]
  /\ planned = FALSE /\ failures = 0
  /\ write = 1 /\ writeState = "idle"
  /\ stored = {} /\ certs_added = FALSE /\ add = 0 /\ connect = "no"
  /\ faulty = TRUE
-----------------------------------------------------------------------------
(* credentials_provision(), called by on_modem_lib_init().                 *)

ModemInit ==
  /\ writeState = "idle"
  /\ write' = 1 /\ writeState' = "in"
  /\ UNCHANGED <<image, modem, tlsVars, workVars, faulty>>

\* Mutated form: a credential that the modem already has is left as it is.
ModemWrite_IfMissing(n) ==
  modem' = [modem EXCEPT ![n] =
              IF n \in image.files /\ @ = Blank THEN image.version ELSE @]

\* modem_key_mgmt_write() of one credential, if the image has a file for it; the
\* modem keeps the others as they are.
ModemWrite(n) ==
  modem' = [modem EXCEPT ![n] = IF n \in image.files THEN image.version ELSE @]

WriteSucceeds ==
  /\ writeState = "in" /\ write # End
  /\ ModemWrite(WriteOrder[write])
  /\ write' = write + 1
  /\ UNCHANGED <<image, writeState, tlsVars, workVars, faulty>>

\* The error is returned, and on_modem_lib_init() does not look at it.
WriteFails ==
  /\ faulty
  /\ writeState = "in" /\ write # End /\ WriteOrder[write] \in image.files
  /\ writeState' = "err"
  /\ UNCHANGED <<image, modem, write, tlsVars, workVars, faulty>>

WritesDone ==
  /\ writeState = "in" /\ write = End
  /\ writeState' = "ok"
  /\ UNCHANGED <<image, modem, write, tlsVars, workVars, faulty>>
-----------------------------------------------------------------------------
(* transport: when an attempt to connect is made.                          *)

\* disconnected_run() with a network that is up.  There is no network before the
\* modem library is initialised.
NetworkConnected ==
  /\ writeState \in {"ok", "err"} /\ connect # "accepted"
  /\ planned' = TRUE
  /\ UNCHANGED <<image, modemVars, tlsVars, failures, faulty>>

\* disconnected_run() with a network that is down cancels the work.
NetworkDisconnected ==
  /\ faulty
  /\ writeState \in {"ok", "err"} /\ connect # "accepted"
  /\ planned' = FALSE
  /\ UNCHANGED <<image, modemVars, tlsVars, failures, faulty>>

\* retry_connect_to_broker(), when count failures have been counted.
Retry(count) ==
  IF count >= MaxAttempts
  THEN failures' = count /\ UNCHANGED planned
  ELSE failures' = count + 1 /\ planned' = TRUE

\* The CONNACK of a session: the work is cancelled and the count begins anew.
ConnectAccepted ==
  /\ connect = "trying"
  /\ connect' = "accepted"
  /\ planned' = FALSE /\ failures' = 0
  /\ UNCHANGED <<image, modemVars, stored, certs_added, add, faulty>>

\* A refused attempt, which transport may count more than once, or the end of a
\* session.  Without a network there is no other attempt.
ConnectEnds ==
  /\ connect \in {"trying", "accepted"}
  /\ connect' = "no"
  /\ \/ \E count \in failures .. MaxAttempts : Retry(count)
     \/ UNCHANGED workVars
  /\ UNCHANGED <<image, modemVars, stored, certs_added, add, faulty>>

\* The work of a second plan finds the library in the wrong state.
ConnectRejected ==
  /\ planned /\ add = 0 /\ connect = "trying"
  /\ \/ failures >= MaxAttempts /\ planned' = FALSE /\ UNCHANGED failures
     \/ failures < MaxAttempts /\ failures' = failures + 1 /\ UNCHANGED planned
  /\ UNCHANGED <<image, modemVars, tlsVars, faulty>>
-----------------------------------------------------------------------------
(* certificates_provision(), called by client_connect().                   *)

\* mqtt_connect_work_fn()
ConnectBegins ==
  /\ planned /\ add = 0 /\ connect = "no"
  /\ planned' = FALSE
  /\ IF certs_added THEN connect' = "trying" /\ UNCHANGED add
                    ELSE add' = 1 /\ UNCHANGED connect
  /\ UNCHANGED <<image, modemVars, stored, certs_added, failures, faulty>>

\* Mutated form: a credential that exists is an error.
Accepted_NotExisting(n) == n \notin stored

\* tls_credential_add() returns 0, or -EEXIST, which is no error here.
Accepted(n) == TRUE

\* Mutated form: an empty file is added too.
Added_Empty(n) == stored \cup {n}

\* A credential without a file is passed over.
Added(n) == stored \cup ({n} \cap image.files)

AddSucceeds ==
  /\ add \in 1 .. End - 1
  /\ Accepted(AddOrder[add])
  /\ stored' = Added(AddOrder[add])
  /\ add' = add + 1
  /\ UNCHANGED <<image, modemVars, certs_added, connect, workVars, faulty>>

\* Mutated form: the flag is set before the calls are made.
AddReturns_FlagFirst == add' = 0 /\ certs_added' = TRUE

\* client_connect() returns the error, and the attempt counts as a failed one.
AddReturns == add' = 0 /\ UNCHANGED certs_added

AddFails ==
  /\ add \in 1 .. End - 1
  /\ AddOrder[add] \in image.files
  /\ faulty \/ ~Accepted(AddOrder[add])
  /\ AddReturns /\ Retry(failures)
  /\ UNCHANGED <<image, modemVars, stored, connect, faulty>>

AddsDone ==
  /\ add = End
  /\ certs_added' = TRUE /\ add' = 0 /\ connect' = "trying"
  /\ UNCHANGED <<image, modemVars, stored, workVars, faulty>>
-----------------------------------------------------------------------------
\* A reboot, also of error_callback(), or an update of the firmware.
Restart ==
  /\ faulty
  /\ image' \in Images
  /\ write' = 1 /\ writeState' = "idle"
  /\ stored' = {} /\ certs_added' = FALSE /\ add' = 0 /\ connect' = "no"
  /\ planned' = FALSE /\ failures' = 0
  /\ UNCHANGED <<modem, faulty>>

FaultsEnd == faulty /\ faulty' = FALSE /\ UNCHANGED <<image, modemVars, tlsVars, workVars>>

Provision == ModemInit \/ WriteSucceeds \/ WritesDone \/ WriteFails
Connect   == ConnectBegins \/ AddSucceeds \/ AddFails \/ AddsDone
Session   == ConnectAccepted \/ ConnectEnds \/ ConnectRejected
Network   == NetworkConnected \/ NetworkDisconnected
Next == Provision \/ Connect \/ Session \/ Network \/ Restart \/ FaultsEnd

\* The timer of a planned attempt expires, and the calls of an attempt return.
\* Nothing has to plan an attempt, and no network has to come.
Spec == Init /\ [][Next]_vars /\ WF_vars(Connect)
-----------------------------------------------------------------------------
(* Properties.                                                             *)

\* Every variable has its values; write and add stay within the six calls.
TypeOK ==
  /\ image \in Images /\ faulty \in BOOLEAN
  /\ modem \in [Names -> Versions \cup {Blank}]
  /\ write \in 1 .. End /\ writeState \in {"idle", "in", "ok", "err"}
  /\ stored \subseteq image.files /\ certs_added \in BOOLEAN
  /\ add \in 0 .. End /\ connect \in {"no", "trying", "accepted"}
  /\ planned \in BOOLEAN /\ failures \in 0 .. MaxAttempts

\* mqtt_connect() is not reached before every credential of the image is in the
\* TLS credentials, however many attempts failed half-way before
\* (mqtt_client.c:149-252, :544-555).
ConnectsWithCertificates == connect # "no" => image.files \subseteq stored

\* An initialisation that credentials_provision() ends without an error leaves
\* every credential that the running image has in the image's own issue, however
\* earlier initialisations, of this image or others, were cut short.  Of what the
\* image has no file for nothing is said: there the modem keeps what an earlier
\* image wrote (credentials_provision.c:62-132).
ModemMatchesImage == writeState = "ok" => \A n \in image.files : modem[n] = image.version

\* Credentials added by attempts that failed later do not stand in the way of
\* the next: once calls no longer fail, an attempt that is planned, or has begun,
\* reaches mqtt_connect().  After MaxAttempts failures none is planned before the
\* network comes again (mqtt_client.c:163-169, :626-630; transport.c:71-78).
ReachesConnect == [](~faulty /\ (planned \/ add # 0) => <>(connect # "no"))
=============================================================================
