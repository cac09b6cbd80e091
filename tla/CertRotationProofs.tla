------------------------- MODULE CertRotationProofs -------------------------
(***************************************************************************)
(* What holds of any number of renewals, however they are cut.  Pending is *)
(* the invariant of the sealed files, Serving that of the server, its      *)
(* cached quote and the client that compares the two.                      *)
(***************************************************************************)
EXTENDS CertRotation, TLAPS

(* A pending key is the newest one; a promote in progress holds it and     *)
(* its certificate, and has both still in the pending files until the      *)
(* live pair is complete.                                                  *)
Pending ==
  /\ lastKey > 0 /\ sealed.cert <= lastKey /\ torn <= lastKey
  /\ sealed.keyNew \in {0, lastKey}
  /\ renewal.phase \in {"certbot", "fetch", "check", "provision", "write"} =>
       renewal.csr = lastKey /\ torn < lastKey
  /\ renewal.phase \in {"removeKey", "writeKey", "removeCert", "writeCert", "dropKey"} =>
       /\ renewal.csr = lastKey /\ renewal.cert = lastKey
       /\ sealed.keyNew = lastKey /\ sealed.certNew = lastKey
  /\ renewal.phase \in {"removeCert", "writeCert", "dropKey"} => sealed.key = lastKey
  /\ renewal.phase \in {"dropKey", "dropCert"} => torn = 0
  /\ LivePairIntact
  /\ TornPromoteCanBeRepeated

(* Certificates only ever get newer: the quote is at least as new as the   *)
(* server's certificate, that as the one a client was presented, and the   *)
(* sealed certificate as all of them.                                      *)
Serving ==
  /\ server.phase # "down" => server.cert \in 1 .. lastKey
                              /\ (sealed.cert # 0 => sealed.cert >= server.cert)
  /\ server.phase # "up" => quote = 0
  /\ quote # 0 => /\ quote >= server.cert /\ quote <= lastKey
                  /\ sealed.cert # 0 => sealed.cert >= quote
  /\ client.phase = "connected" =>
       /\ client.cert \in 1 .. lastKey
       /\ server.phase # "down" => server.cert >= client.cert
       /\ sealed.cert # 0 => sealed.cert >= client.cert

IInv == TypeOK /\ Pending /\ Serving

RenewalType == [phase : Phases, csr : Numbers, cert : Numbers]
ServerType == [phase : {"down", "boot", "up"}, key : Numbers, cert : Numbers]
ClientType == [phase : {"away", "connected", "alarmed"}, cert : Numbers]

(* Fetching the chain edits the record of the script.                      *)
LEMMA RenewalEdits ==
  ASSUME NEW r \in RenewalType, NEW n \in Numbers
  PROVE  /\ [r EXCEPT !.phase = "check", !.cert = n] \in RenewalType
         /\ [r EXCEPT !.phase = "check", !.cert = n].phase = "check"
  BY DEF RenewalType, Phases

(* Booting edits the record of the server.                                 *)
LEMMA ServerEdits ==
  ASSUME NEW s \in ServerType, NEW n \in Numbers
  PROVE  /\ [s EXCEPT !.phase = "up", !.key = n] \in ServerType
         /\ [s EXCEPT !.phase = "up", !.key = n].cert = s.cert
         /\ [s EXCEPT !.phase = "up", !.key = n].phase = "up"
  BY DEF ServerType

(* A failed check edits the record of the client.                          *)
LEMMA ClientEdits ==
  ASSUME NEW c \in ClientType
  PROVE  [c EXCEPT !.phase = "alarmed"] \in ClientType
  BY DEF ClientType

(* The files and the server hold what has been issued, and a missing file  *)
(* is a number, too.                                                       *)
LEMMA Fields ==
  ASSUME TypeOK
  PROVE  /\ renewal \in RenewalType /\ server \in ServerType /\ client \in ClientType
         /\ 0 \in Numbers /\ sealed.key \in Numbers /\ sealed.cert \in Numbers
         /\ proxyCert \in Numbers
         /\ Down \in ServerType /\ Away \in ClientType
  BY CertRotationAssumption DEF TypeOK, RenewalType, ServerType, ClientType, Numbers, Down, Away

(* The enclave starts with a live pair and no renewal.                     *)
LEMMA InductiveInit == Init => IInv
<1> SUFFICES ASSUME Init PROVE IInv
  OBVIOUS
<1> USE CertRotationAssumption DEF Init, NoRenewal, Away
<1>1. TypeOK
  BY DEF TypeOK, Numbers, Phases
<1>2. Pending
  BY DEF Pending, LivePairIntact, TornPromoteCanBeRepeated
<1>3. Serving
  BY DEF Serving
<1> QED
  BY <1>1, <1>2, <1>3 DEF IInv

(* The steps up to the pending pair (renew-cert.sh, csr.py, provision.py). *)
LEMMA ScriptStep ==
  ASSUME IInv, Csr \/ Certbot \/ Fetch \/ CheckChain \/ Provision
  PROVE  IInv'
<1> USE CertRotationAssumption DEF IInv, At, Goto, Stop, NoRenewal
<1>1. CASE Csr
  <2>1. TypeOK'
    BY <1>1 DEF Csr, TypeOK, Numbers, Phases
  <2>2. Pending'
    BY <1>1 DEF Csr, TypeOK, Numbers, Pending, LivePairIntact, TornPromoteCanBeRepeated, Replacing
  <2>3. Serving'
    BY <1>1 DEF Csr, TypeOK, Numbers, Serving
  <2> QED
    BY <2>1, <2>2, <2>3
<1>2. CASE Certbot
  <2>1. TypeOK'
    BY <1>2 DEF Certbot, TypeOK, Numbers, Phases
  <2>2. Pending'
    BY <1>2 DEF Certbot, TypeOK, Numbers, Pending, LivePairIntact, TornPromoteCanBeRepeated,
                Replacing
  <2>3. Serving'
    BY <1>2 DEF Certbot, Serving
  <2> QED
    BY <2>1, <2>2, <2>3
<1>3. CASE Fetch
  <2>1. TypeOK'
    <3>1. renewal' = [renewal EXCEPT !.phase = "check", !.cert = proxyCert]
          /\ UNCHANGED <<sealed, lastKey, server, quote, client, torn>> /\ proxyCert' = 0
      BY <1>3 DEF Fetch
    <3>2. renewal' \in RenewalType /\ renewal'.phase = "check" /\ 0 \in Numbers
      BY <3>1, Fields, RenewalEdits
    <3> QED
      BY <3>1, <3>2 DEF TypeOK, RenewalType
  <2>2. Pending'
    BY <1>3 DEF Fetch, TypeOK, Numbers, Pending, LivePairIntact, TornPromoteCanBeRepeated,
                Replacing
  <2>3. Serving'
    BY <1>3 DEF Fetch, Serving
  <2> QED
    BY <2>1, <2>2, <2>3
<1>4. CASE CheckChain
  <2>1. TypeOK'
    BY <1>4 DEF CheckChain, TypeOK, Numbers, Phases
  <2>2. Pending'
    BY <1>4 DEF CheckChain, TypeOK, Numbers, Pending, LivePairIntact, TornPromoteCanBeRepeated,
                Replacing
  <2>3. Serving'
    BY <1>4 DEF CheckChain, Serving
  <2> QED
    BY <2>1, <2>2, <2>3
<1>5. CASE Provision
  <2>1. TypeOK'
    BY <1>5 DEF Provision, Step, TypeOK, Numbers, Phases
  <2>2. Pending'
    BY <1>5 DEF Provision, Step, TypeOK, Numbers, Pending, LivePairIntact,
                TornPromoteCanBeRepeated, Replacing
  <2>3. Serving'
    BY <1>5 DEF Provision, Step, TypeOK, Serving
  <2> QED
    BY <2>1, <2>2, <2>3
<1> QED
  BY <1>1, <1>2, <1>3, <1>4, <1>5

(* The steps of a promote, and a renewal cut anywhere (promote.py).        *)
LEMMA PromoteStep ==
  ASSUME IInv, Promote \/ ReplaceKey \/ ReplaceCert \/ DropPending \/ Cut
  PROVE  IInv'
<1> USE CertRotationAssumption DEF IInv, At, Goto, Stop, NoRenewal
<1>1. CASE Promote
  <2>1. TypeOK'
    BY <1>1 DEF Promote, TypeOK, Numbers, Phases
  <2>2. Pending'
    BY <1>1 DEF Promote, TypeOK, Numbers, Pending, LivePairIntact, TornPromoteCanBeRepeated,
                Replacing
  <2>3. Serving'
    BY <1>1 DEF Promote, Serving
  <2> QED
    BY <2>1, <2>2, <2>3
<1>2. CASE ReplaceKey
  <2>1. TypeOK'
    BY <1>2 DEF ReplaceKey, Step, TypeOK, Numbers, Phases
  <2>2. Pending'
    BY <1>2 DEF ReplaceKey, Step, TypeOK, Numbers, Pending, LivePairIntact,
                TornPromoteCanBeRepeated, Replacing
  <2>3. Serving'
    BY <1>2 DEF ReplaceKey, Step, TypeOK, Serving
  <2> QED
    BY <2>1, <2>2, <2>3
<1>3. CASE ReplaceCert
  <2>1. TypeOK'
    BY <1>3 DEF ReplaceCert, Step, TypeOK, Numbers, Phases
  <2>2. Pending'
    BY <1>3 DEF ReplaceCert, Step, TypeOK, Numbers, Pending, LivePairIntact,
                TornPromoteCanBeRepeated, Replacing
  <2>3. Serving'
    BY <1>3 DEF ReplaceCert, Step, TypeOK, Numbers, Pending, Serving
  <2> QED
    BY <2>1, <2>2, <2>3
<1>4. CASE DropPending
  <2>1. TypeOK'
    BY <1>4 DEF DropPending, Step, TypeOK, Numbers, Phases
  <2>2. Pending'
    BY <1>4 DEF DropPending, Step, TypeOK, Numbers, Pending, LivePairIntact,
                TornPromoteCanBeRepeated, Replacing
  <2>3. Serving'
    BY <1>4 DEF DropPending, Step, TypeOK, Serving
  <2> QED
    BY <2>1, <2>2, <2>3
<1>5. CASE Cut
  <2>1. TypeOK'
    BY <1>5 DEF Cut, TypeOK, Numbers, Phases
  <2>2. Pending'
    BY <1>5 DEF Cut, TypeOK, Numbers, Pending, LivePairIntact, TornPromoteCanBeRepeated, Replacing
  <2>3. Serving'
    BY <1>5 DEF Cut, Serving
  <2> QED
    BY <2>1, <2>2, <2>3
<1> QED
  BY <1>1, <1>2, <1>3, <1>4, <1>5

(* The server stops and boots, and is asked for its quote (server.py,      *)
(* attestation.py, verify-attestation.py).                                 *)
LEMMA ServerStep ==
  ASSUME IInv, Restart \/ Die \/ Boot \/ Connect \/ Verify \/ AskForQuote
  PROVE  IInv'
<1> USE CertRotationAssumption DEF IInv, At, Stop, NoRenewal
<1>1. TypeOK'
  <2>0. /\ server' \in ServerType /\ client' \in ClientType /\ quote' \in Numbers
        /\ renewal' \in RenewalType /\ (renewal' = renewal \/ renewal'.phase = "idle")
        /\ UNCHANGED <<sealed, lastKey, proxyCert, torn>>
    <3>1. CASE Restart \/ Die
      <4>1. server' = Down /\ quote' = 0 /\ client' = client
            /\ (renewal' = renewal \/ renewal' = NoRenewal)
            /\ UNCHANGED <<sealed, lastKey, proxyCert, torn>>
        BY <3>1 DEF Restart, Die, Kill
      <4>2. NoRenewal \in RenewalType
        BY DEF RenewalType, Numbers, Phases
      <4>4. NoRenewal.phase = "idle" /\ Down \in ServerType /\ 0 \in Numbers
            /\ renewal \in RenewalType /\ client \in ClientType
        BY Fields
      <4> QED
        BY ONLY <4>1, <4>2, <4>4
    <3>2. CASE Boot
      <4>1. \/ server' = Down
            \/ server' = [phase |-> "boot", key |-> 0, cert |-> sealed.cert]
            \/ server' = [server EXCEPT !.phase = "up", !.key = sealed.key]
        BY <3>2 DEF Boot
      <4>2. [phase |-> "boot", key |-> 0, cert |-> sealed.cert] \in ServerType
        BY Fields DEF ServerType
      <4>3. UNCHANGED <<sealed, lastKey, proxyCert, renewal, quote, client, torn>>
        BY <3>2 DEF Boot
      <4>4. [server EXCEPT !.phase = "up", !.key = sealed.key] \in ServerType
        BY Fields, ServerEdits
      <4>5. Down \in ServerType /\ renewal \in RenewalType /\ client \in ClientType /\ quote \in Numbers
        BY Fields DEF TypeOK
      <4> QED
        BY ONLY <4>1, <4>2, <4>3, <4>4, <4>5
    <3>3. CASE Connect
      <4>1. [phase |-> "connected", cert |-> server.cert] \in ClientType
        BY Fields DEF ClientType, ServerType
      <4> QED
        BY <3>3, <4>1, Fields DEF Connect, TypeOK
    <3>4. CASE Verify \/ AskForQuote
      <4>1. quote' \in Numbers
        BY <3>4, Fields DEF Verify, AskForQuote, Attest, TypeOK
      <4>2. client' \in {client, Away, [client EXCEPT !.phase = "alarmed"]}
        BY <3>4 DEF Verify, AskForQuote
      <4>3. UNCHANGED <<sealed, lastKey, proxyCert, renewal, server, torn>>
        BY <3>4 DEF Verify, AskForQuote
      <4>4. [client EXCEPT !.phase = "alarmed"] \in ClientType /\ Away \in ClientType
        BY Fields, ClientEdits
      <4> QED
        BY <4>1, <4>2, <4>3, <4>4, Fields
    <3> QED
      BY <3>1, <3>2, <3>3, <3>4
  <2> QED
    BY <2>0 DEF TypeOK, RenewalType, ServerType, ClientType
<1>2. Pending'
  BY DEF Restart, Die, Boot, Connect, Verify, AskForQuote, Pending, LivePairIntact,
         TornPromoteCanBeRepeated, Replacing
<1>3. Serving'
  <2>1. CASE Restart \/ Die
    <3>1. server'.phase = "down" /\ quote' = 0 /\ UNCHANGED <<sealed, lastKey, client>>
      BY <2>1 DEF Restart, Die, Kill, Down
    <3> QED
      BY <3>1 DEF Serving
  <2>2. CASE Boot
    <3>1. UNCHANGED <<sealed, lastKey, quote, client>> /\ server.phase # "up" /\ quote = 0
      BY <2>2 DEF Boot, Serving
    <3>2. \/ server'.phase = "down"
          \/ server'.cert = sealed.cert /\ sealed.cert # 0
          \/ server'.cert = server.cert /\ server.phase = "boot"
      <4>1. [server EXCEPT !.phase = "up", !.key = sealed.key].cert = server.cert
        BY Fields, ServerEdits
      <4>2. \/ sealed.cert # 0 /\ server' = [phase |-> "boot", key |-> 0, cert |-> sealed.cert]
            \/ server' = Down
            \/ server.phase = "boot" /\ server' = [server EXCEPT !.phase = "up", !.key = sealed.key]
        BY <2>2 DEF Boot
      <4>3. Down.phase = "down"
        BY DEF Down
      <4>4. CASE server' = [phase |-> "boot", key |-> 0, cert |-> sealed.cert] /\ sealed.cert # 0
        BY ONLY <4>4
      <4>5. CASE server' = Down
        BY <4>3, <4>5
      <4>6. CASE server.phase = "boot" /\ server' = [server EXCEPT !.phase = "up", !.key = sealed.key]
        BY <4>1, <4>6
      <4> QED
        BY <4>2, <4>4, <4>5, <4>6
    <3>3. sealed.cert # 0 => sealed.cert \in 1 .. lastKey
      BY Fields DEF Pending, TypeOK, Numbers
    <3> QED
      BY <3>1, <3>2, <3>3, Fields DEF Serving, TypeOK, Numbers
  <2>3. CASE Connect
    BY <2>3 DEF Connect, TypeOK, Serving
  <2>4. CASE Verify \/ AskForQuote
    BY <2>4 DEF Verify, AskForQuote, Attest, Away, TypeOK, Numbers, Pending, Serving
  <2> QED
    BY <2>1, <2>2, <2>3, <2>4
<1> QED
  BY <1>1, <1>2, <1>3

(* Every step keeps the invariant.                                         *)
LEMMA InductiveNext == IInv /\ [Next]_vars => IInv'
<1> SUFFICES ASSUME IInv, [Next]_vars PROVE IInv'
  OBVIOUS
<1>1. CASE UNCHANGED vars
  BY <1>1 DEF vars, IInv, TypeOK, Pending, Serving, LivePairIntact, TornPromoteCanBeRepeated,
              Replacing
<1>2. CASE Next
  BY <1>2, ScriptStep, PromoteStep, ServerStep DEF Next
<1> QED
  BY <1>1, <1>2

(* The invariant holds, however often and wherever renewals are cut.       *)
THEOREM Invariant == Spec => []IInv
  BY InductiveInit, InductiveNext, PTL DEF Spec

(* Types, and no certificate is sealed but the one for the script's csr.   *)
THEOREM TypeCorrect == Spec => []TypeOK
<1>1. IInv => TypeOK
  BY DEF IInv
<1> QED
  BY <1>1, Invariant, PTL

(* Only a promote between its two writes, or cut there, leaves a live pair *)
(* that a server cannot boot from (promote.py).                            *)
THEOREM LivePairCorrect == Spec => []LivePairIntact
<1>1. IInv => LivePairIntact
  BY DEF IInv, Pending
<1> QED
  BY <1>1, Invariant, PTL

(* A torn promote finds its pair again until the next csr (promote.py).    *)
THEOREM TornPromoteRepairs == Spec => []TornPromoteCanBeRepeated
<1>1. IInv => TornPromoteCanBeRepeated
  BY DEF IInv, Pending
<1> QED
  BY <1>1, Invariant, PTL

(* What AlarmOnlyAcrossRenewal says of a step.                             *)
AlarmExplained == client.phase = "connected" /\ client'.phase = "alarmed" =>
  server.cert > client.cert \/ quote' > server.cert

(* The quote is no older than the certificate loaded, and that no older    *)
(* than the one presented (verify-attestation.py, attestation.py).         *)
LEMMA AlarmStep == IInv /\ [Next]_vars => [AlarmExplained]_vars
<1> SUFFICES ASSUME IInv, Next, client.phase = "connected", client'.phase = "alarmed"
             PROVE  server.cert > client.cert \/ quote' > server.cert
  BY DEF AlarmExplained
<1> USE DEF IInv
<1>1. Verify
  <2>1. client' # client
    OBVIOUS
  <2>2. ~(Restart \/ Die)
    BY <2>1 DEF Restart, Die, Kill
  <2> QED
    BY <2>1, <2>2 DEF Next, Csr, Certbot, Fetch, CheckChain, Provision, Promote, ReplaceKey,
       ReplaceCert, DropPending, Step, Cut, Boot, Connect, AskForQuote
<1>2. quote' # client.cert /\ server.cert >= client.cert /\ server.phase = "up"
  BY <1>1 DEF Verify, Attest, Away, Serving
<1>3. quote' \in Numbers /\ client.cert \in Numbers /\ server.cert \in Numbers
  BY <1>1, Fields DEF Verify, Attest, TypeOK
<1>4. quote' >= server.cert
  BY <1>1, <1>2 DEF Verify, Attest, Serving
<1> QED
  BY <1>2, <1>3, <1>4 DEF Numbers

(* The client's alarm about the genuine server comes of a certificate      *)
(* newer than the one it was presented, loaded since or promoted and       *)
(* quoted before the restart; never of an older one.                       *)
THEOREM AlarmsExplained == Spec => AlarmOnlyAcrossRenewal
  BY Invariant, AlarmStep, PTL DEF Spec, AlarmOnlyAcrossRenewal, AlarmExplained
=============================================================================
