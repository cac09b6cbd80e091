---------------------------- MODULE CertRotation ----------------------------
(***************************************************************************)
(* Renewing the TLS certificate of the enclave (sgx/renew-cert.sh and the  *)
(* one-shot enclaves csr, provision and promote), the server that loads    *)
(* the pair when it boots, the quote that /attestation caches, and the     *)
(* client that compares the two (sgx/verify-attestation.py).               *)
(*                                                                         *)
(* A key is the number of the csr run that generated it and a certificate  *)
(* the number of the key it was issued for; 0 is a missing file.  The      *)
(* sealed files are removed before they are written, and a renewal may be  *)
(* cut short (lost connection, reboot, an answer of no) before any step.   *)
(* One renewal runs at a time.                                             *)
(***************************************************************************)
EXTENDS Integers

CONSTANT MaxKey     \* bound of the model: keys that are generated

ASSUME CertRotationAssumption == MaxKey \in Nat /\ MaxKey > 0

VARIABLES
  sealed,     \* key.pem, cert.pem, key.pem.new and cert.pem.new
  lastKey,    \* the newest key
  proxyCert,  \* the chain that lies on the proxy
  renewal,    \* the script, or a promote run by hand: the step it is at, the
              \* csr and the certificate it holds
  server,     \* the pair the server has loaded
  quote,      \* certificate that the cached quote binds, 0 before the first
  client,     \* verify-attestation.py: the certificate it was presented
  torn        \* history: the promote that was cut between the two writes and
              \* not made good since, 0 for none

vars == <<sealed, lastKey, proxyCert, renewal, server, quote, client, torn>>

Numbers == 0 .. MaxKey
Phases == {"idle", "certbot", "fetch", "check", "provision", "write", "promote",
           "removeKey", "writeKey", "removeCert", "writeCert", "dropKey", "dropCert", "restart"}

NoRenewal == [phase |-> "idle", csr |-> 0, cert |-> 0]
Down == [phase |-> "down", key |-> 0, cert |-> 0]
Away == [phase |-> "away", cert |-> 0]

(* The types, and that the script seals no certificate but the one for its *)
(* own csr, whatever lies on the proxy.                                    *)
TypeOK ==
  /\ sealed \in [key : Numbers, cert : Numbers, keyNew : Numbers, certNew : Numbers]
  /\ lastKey \in Numbers /\ proxyCert \in Numbers /\ quote \in Numbers /\ torn \in Numbers
  /\ renewal \in [phase : Phases, csr : Numbers, cert : Numbers]
  /\ renewal.phase \in {"provision", "write"} => renewal.cert = renewal.csr
  /\ server \in [phase : {"down", "boot", "up"}, key : Numbers, cert : Numbers]
  /\ client \in [phase : {"away", "connected", "alarmed"}, cert : Numbers]

Init ==
  /\ sealed = [key |-> 1, cert |-> 1, keyNew |-> 0, certNew |-> 0]
  /\ lastKey = 1
  /\ proxyCert = 0
  /\ renewal = NoRenewal
  /\ server = [phase |-> "up", key |-> 1, cert |-> 1]
  /\ quote = 0
  /\ client = Away
  /\ torn = 0

At(phase) == renewal.phase = phase
Goto(phase) == renewal' = [renewal EXCEPT !.phase = phase]
Stop == renewal' = NoRenewal

-----------------------------------------------------------------------------
(* The steps of the script.                                                *)

(* csr generates a key and removes a pending one; it may be cut before the *)
(* new one is written.                                                     *)
Csr ==
  /\ At("idle")
  /\ lastKey < MaxKey
  /\ lastKey' = lastKey + 1
  /\ \/ /\ sealed' = [sealed EXCEPT !.keyNew = lastKey']
        /\ renewal' = [phase |-> "certbot", csr |-> lastKey', cert |-> 0]
     \/ sealed' = [sealed EXCEPT !.keyNew = 0] /\ UNCHANGED renewal
  /\ UNCHANGED <<proxyCert, server, quote, client, torn>>

(* An error of certbot does not stop the script: whatever chain lies on    *)
(* the proxy is fetched.                                                   *)
Certbot ==
  /\ At("certbot")
  /\ proxyCert' \in {proxyCert, renewal.csr}
  /\ Goto("fetch")
  /\ UNCHANGED <<sealed, lastKey, server, quote, client, torn>>

Fetch ==
  /\ At("fetch")
  /\ proxyCert # 0
  /\ renewal' = [renewal EXCEPT !.phase = "check", !.cert = proxyCert]
  /\ proxyCert' = 0
  /\ UNCHANGED <<sealed, lastKey, server, quote, client, torn>>

(* Mutant: the chain is not compared with the csr.                         *)
CheckNothing ==
  /\ At("check")
  /\ Goto("provision")
  /\ UNCHANGED <<sealed, lastKey, proxyCert, server, quote, client, torn>>

CheckChain ==
  /\ At("check")
  /\ IF renewal.cert = renewal.csr THEN Goto("provision") ELSE Stop
  /\ UNCHANGED <<sealed, lastKey, proxyCert, server, quote, client, torn>>

Step(from, to, files) ==
  /\ At(from)
  /\ Goto(to)
  /\ sealed' = files
  /\ UNCHANGED <<lastKey, proxyCert, server, quote, client>>

Provision ==
  /\ \/ Step("provision", "write", [sealed EXCEPT !.certNew = 0])
     \/ Step("write", "promote", [sealed EXCEPT !.certNew = renewal.cert])
  /\ UNCHANGED torn

(* Mutant: the certificate is not compared with the pending key.           *)
PromoteUnchecked ==
  /\ At("promote") \/ At("idle")
  /\ IF sealed.keyNew # 0 /\ sealed.certNew # 0
     THEN renewal' = [phase |-> "removeKey", csr |-> sealed.keyNew, cert |-> sealed.certNew]
     ELSE Stop
  /\ UNCHANGED <<sealed, lastKey, proxyCert, server, quote, client, torn>>

(* promote, by the script or by hand, reads the pending pair and refuses   *)
(* one that is incomplete or does not match.                               *)
Promote ==
  /\ At("promote") \/ At("idle")
  /\ IF sealed.keyNew # 0 /\ sealed.certNew = sealed.keyNew
     THEN renewal' = [phase |-> "removeKey", csr |-> sealed.keyNew, cert |-> sealed.certNew]
     ELSE Stop
  /\ UNCHANGED <<sealed, lastKey, proxyCert, server, quote, client, torn>>

ReplaceKey ==
  /\ \/ Step("removeKey", "writeKey", [sealed EXCEPT !.key = 0])
     \/ Step("writeKey", "removeCert", [sealed EXCEPT !.key = renewal.csr])
  /\ UNCHANGED torn

(* Mutant: the pending key is dropped with the old certificate.            *)
ReplaceCertDropKey ==
  \/ /\ Step("removeCert", "writeCert", [sealed EXCEPT !.cert = 0, !.keyNew = 0])
     /\ UNCHANGED torn
  \/ /\ Step("writeCert", "dropKey", [sealed EXCEPT !.cert = renewal.cert])
     /\ torn' = 0

ReplaceCert ==
  \/ Step("removeCert", "writeCert", [sealed EXCEPT !.cert = 0]) /\ UNCHANGED torn
  \/ Step("writeCert", "dropKey", [sealed EXCEPT !.cert = renewal.cert]) /\ torn' = 0

DropPending ==
  /\ \/ Step("dropKey", "dropCert", [sealed EXCEPT !.keyNew = 0])
     \/ Step("dropCert", "restart", [sealed EXCEPT !.certNew = 0])
  /\ UNCHANGED torn

Cut ==
  /\ ~At("idle")
  /\ Stop
  /\ torn' = IF renewal.phase \in {"writeKey", "removeCert", "writeCert"}
             THEN renewal.csr ELSE torn
  /\ UNCHANGED <<sealed, lastKey, proxyCert, server, quote, client>>

-----------------------------------------------------------------------------
(* The server.                                                             *)

Kill == server' = Down /\ quote' = 0 /\ UNCHANGED client

Restart ==
  /\ At("restart")
  /\ Stop
  /\ Kill
  /\ UNCHANGED <<sealed, lastKey, proxyCert, torn>>

(* Mutant: the quote outlives the process.                                 *)
DieKeepQuote ==
  /\ server # Down
  /\ server' = Down
  /\ UNCHANGED <<sealed, lastKey, proxyCert, renewal, quote, client, torn>>

(* A deploy, a reboot or a crash: the process ends at any time.            *)
Die ==
  /\ server # Down
  /\ Kill
  /\ UNCHANGED <<sealed, lastKey, proxyCert, renewal, torn>>

(* The TLS library reads the certificate and then the key, and does not    *)
(* start with a key that does not belong to it.                            *)
Boot ==
  /\ \/ /\ server.phase = "down" /\ sealed.cert # 0
        /\ server' = [phase |-> "boot", key |-> 0, cert |-> sealed.cert]
     \/ /\ server.phase = "boot"
        /\ server' = IF sealed.key = server.cert
                     THEN [server EXCEPT !.phase = "up", !.key = sealed.key] ELSE Down
  /\ UNCHANGED <<sealed, lastKey, proxyCert, renewal, quote, client, torn>>

(* The first /attestation of the process reads cert.pem and keeps its      *)
(* quote; a missing file is an error that is not kept.                     *)
Attest ==
  /\ server.phase = "up"
  /\ \/ quote # 0 /\ UNCHANGED quote
     \/ quote = 0 /\ sealed.cert # 0 /\ quote' = sealed.cert

(* A client connects once for the certificate, and again for the quote.    *)
Connect ==
  /\ client.phase # "connected" /\ server.phase = "up"
  /\ client' = [phase |-> "connected", cert |-> server.cert]
  /\ UNCHANGED <<sealed, lastKey, proxyCert, renewal, server, quote, torn>>

(* It fails if the quote is not bound to the certificate it was presented; *)
(* the checks of identity and of the signatures behind the quote pass for  *)
(* a genuine enclave.                                                      *)
Verify ==
  /\ client.phase = "connected" /\ Attest
  /\ client' = IF quote' = client.cert THEN Away ELSE [client EXCEPT !.phase = "alarmed"]
  /\ UNCHANGED <<sealed, lastKey, proxyCert, renewal, server, torn>>

(* Anybody else reads the quote.                                           *)
AskForQuote == Attest /\ UNCHANGED <<sealed, lastKey, proxyCert, renewal, server, client, torn>>

Next ==
  \/ Csr \/ Certbot \/ Fetch \/ CheckChain
  \/ Provision \/ Promote \/ ReplaceKey \/ ReplaceCert \/ DropPending
  \/ Cut
  \/ Restart \/ Die \/ Boot
  \/ Connect \/ Verify \/ AskForQuote

Spec == Init /\ [][Next]_vars

-----------------------------------------------------------------------------
Replacing == renewal.phase \in {"writeKey", "removeCert", "writeCert"}

(* The live pair is complete and matches, so the server can be restarted,  *)
(* except while promote is between its two writes or after it was cut      *)
(* there: no failed or abandoned renewal before that does harm ("until     *)
(* this runs, the server is still serving the old pair", promote.py).      *)
LivePairIntact == ~Replacing /\ torn = 0 => sealed.key # 0 /\ sealed.cert = sealed.key

(* After a promote was cut between the writes its pair is still pending,   *)
(* so running it again repairs the live pair, until the next csr.          *)
TornPromoteCanBeRepeated ==
  torn # 0 /\ lastKey = torn => sealed.keyNew = torn /\ sealed.certNew = torn

(* verify-attestation alarms its user about the genuine server only across *)
(* a renewal, and never because of an older certificate: the server has    *)
(* loaded a newer one since the client connected, or the cached quote      *)
(* binds a newer one that has been promoted and is not loaded yet.         *)
AlarmOnlyAcrossRenewal == [][
  client.phase = "connected" /\ client'.phase = "alarmed" =>
    server.cert > client.cert \/ quote' > server.cert]_vars

(* The cached quote binds the certificate that the server presents: the    *)
(* file it is computed from holds "exactly the bytes a client receives     *)
(* from the TLS handshake" (attestation.py:52-53).                         *)
QuoteBindsServedCert == server.phase = "up" /\ quote # 0 => quote = server.cert
=============================================================================
