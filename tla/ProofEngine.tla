------------------------------- MODULE ProofEngine -------------------------------
(***************************************************************************)
(* services/proof/src/engine.ts over the proof and audit repositories and  *)
(* the event dispatcher it is given.                                       *)
(*                                                                         *)
(*   generateProof        INSERT | event logged, first handler called |    *)
(*                        the next handlers, one by one | audit row        *)
(*   generateCertificate  the settlement's proofs read | INSERT            *)
(*                                                                         *)
(* proofs, certificates and audit are tables; the rest lives in the        *)
(* process and is lost when it restarts.                                   *)
(***************************************************************************)
EXTENDS EventDispatcher

CONSTANTS Callers,      \* concurrent invocations of the engine
          Settlements,
          ProofIds,     \* what createProofId may return: bounds the proofs
          IdStart,      \* IdStart[s]: the first 31 characters of the id of s
          Throwing,     \* the handlers that may throw
          Faults,       \* may a database call fail, or the process restart?
          None

VARIABLES proofs,       \* settlement_proofs in commit order: the settlement
                        \* and the proofId of its payload
          certificates, \* settlement_certificates: the hash, and the content
                        \* it was computed from, which no column keeps
          audit,        \* PROOF_GENERATED rows: [settlement, proofId]
          pc,
          proof,        \* the proof a generateProof works on
          position,     \* where its dispatch is in the dispatcher's entries
          content       \* what a generateCertificate is about to hash

vars   == <<dispatcher, proofs, certificates, audit, pc, proof, position, content>>
tables == <<proofs, certificates, audit>>

(* A row has an id of its own besides the proofId in its payload: rows are *)
(* numbered in commit order, and row i is the one whose id is i.           *)
Proof   == [proofId : ProofIds, settlement : Settlements]
Content == [settlement : Settlements, proofs : SUBSET Nat]

ASSUME ProofAssumption == /\ Throwing \subseteq Handlers
                          /\ DOMAIN IdStart = Settlements
                          /\ Faults \in BOOLEAN
                          /\ None \notin Proof \cup Content

(* computeHash keeps 64 characters of the base64url text of a content,     *)
(* that is its first 48 bytes.  In JSON.stringify({ settlementId, proofs,  *)
(* issuedAt }) the settlement's id, 36 characters, begins at byte 17 and   *)
(* the first row id at byte 66: 31 characters of the one are kept, and     *)
(* nothing of the others.  (The signature is made from the hash alone: of  *)
(* "SIGNED:<hash>:<organization>" too only 48 bytes count.)                *)
computeHash(c) == IdStart[c.settlement]

Certificate == [content : Content, hash : { IdStart[s] : s \in Settlements }]

(* The ids of the rows, in no order.                                       *)
findProofsBySettlementId(s) == { i \in DOMAIN proofs : proofs[i].settlement = s }

verifyProof(s, proofId) ==
  \E i \in findProofsBySettlementId(s) : proofs[i].proofId = proofId

Init == /\ DispatcherInit
        /\ proofs = << >> /\ certificates = {} /\ audit = {}
        /\ pc       = [c \in Callers |-> "idle"]
        /\ proof    = [c \in Callers |-> None]
        /\ position = [c \in Callers |-> 0]
        /\ content  = [c \in Callers |-> None]

Goto(c, from, to) == pc[c] = from /\ pc' = [pc EXCEPT ![c] = to]

Return(c) == /\ pc'       = [pc EXCEPT ![c] = "idle"]
             /\ proof'    = [proof EXCEPT ![c] = None]
             /\ position' = [position EXCEPT ![c] = 0]
             /\ content'  = [content EXCEPT ![c] = None]

-----------------------------------------------------------------------------------
(* Slip: saveProof is not awaited, and its failure goes unnoticed.         *)
generateProofUnsaved(c, s) ==
  /\ Goto(c, "idle", "saved")
  /\ \E id \in ProofIds \ { proofs[i].proofId : i \in DOMAIN proofs } :
       proof' = [proof EXCEPT ![c] = [proofId |-> id, settlement |-> s]]
  /\ UNCHANGED <<dispatcher, tables, position, content>>

(* Slip: nothing is dispatched.                                            *)
generateProofSilent(c, s) ==
  /\ Goto(c, "idle", "audit")
  /\ \E id \in ProofIds \ { proofs[i].proofId : i \in DOMAIN proofs } :
       /\ proof' = [proof EXCEPT ![c] = [proofId |-> id, settlement |-> s]]
       /\ proofs' = Append(proofs, [proofId |-> id, settlement |-> s])
  /\ UNCHANGED <<dispatcher, certificates, audit, position, content>>

(* generateProof: a new id, never used before, and saveProof.              *)
generateProof(c, s) ==
  /\ Goto(c, "idle", "saved")
  /\ \E id \in ProofIds \ { proofs[i].proofId : i \in DOMAIN proofs } :
       /\ proof' = [proof EXCEPT ![c] = [proofId |-> id, settlement |-> s]]
       /\ proofs' = Append(proofs, [proofId |-> id, settlement |-> s])
  /\ UNCHANGED <<dispatcher, certificates, audit, position, content>>

(* dispatch goes on from i: it calls the next handler, or resolves, upon   *)
(* which generateProof turns to the audit log.                             *)
continueDispatch(c, i) ==
  \/ \E j \in ahead(i) :
       /\ \A k \in ahead(i) : j <= k
       /\ call(j, proof[c])
       /\ position' = [position EXCEPT ![c] = j]
       /\ pc' = [pc EXCEPT ![c] = "handling"]
  \/ /\ ahead(i) = {}
     /\ pc' = [pc EXCEPT ![c] = "audit"]
     /\ UNCHANGED <<delivered, position>>

DispatchGenerated(c) ==
  /\ pc[c] = "saved"
  /\ eventLog' = Append(eventLog, proof[c])
  /\ continueDispatch(c, 0)
  /\ UNCHANGED <<entries, tables, proof, content>>

HandlerReturns(c) ==
  /\ pc[c] = "handling"
  /\ continueDispatch(c, position[c])
  /\ UNCHANGED <<entries, eventLog, tables, proof, content>>

(* dispatch rejects, and generateProof throws a ProofGenerationError.      *)
HandlerThrows(c) ==
  /\ pc[c] = "handling"
  /\ entries[position[c]].handler \in Throwing
  /\ Return(c)
  /\ UNCHANGED <<dispatcher, tables>>

(* Slip: the row names the proof by its settlement.                        *)
LogGeneratedUnnamed(c) ==
  /\ pc[c] = "audit"
  /\ audit' = audit \cup {[proofId |-> proof[c].settlement, settlement |-> proof[c].settlement]}
  /\ Return(c)
  /\ UNCHANGED <<dispatcher, proofs, certificates>>

LogGenerated(c) ==
  /\ pc[c] = "audit"
  /\ audit' = audit \cup {proof[c]}
  /\ Return(c)
  /\ UNCHANGED <<dispatcher, proofs, certificates>>

-----------------------------------------------------------------------------------
(* Slip: only the proofs that were audited are listed.                     *)
generateCertificateAudited(c, s) ==
  /\ Goto(c, "idle", "certificate")
  /\ { i \in DOMAIN proofs : proofs[i] \in audit /\ proofs[i].settlement = s } # {}
  /\ content' = [content EXCEPT ![c] =
       [settlement |-> s,
        proofs |-> { i \in DOMAIN proofs : proofs[i] \in audit /\ proofs[i].settlement = s }]]
  /\ UNCHANGED <<dispatcher, tables, proof, position>>

(* generateCertificate: refused without a proof.  It lists the ids of the  *)
(* rows, p.id, which are not the proofIds that verifyProof compares.       *)
generateCertificate(c, s) ==
  /\ Goto(c, "idle", "certificate")
  /\ findProofsBySettlementId(s) # {}
  /\ content' = [content EXCEPT ![c] =
       [settlement |-> s, proofs |-> findProofsBySettlementId(s)]]
  /\ UNCHANGED <<dispatcher, tables, proof, position>>

saveCertificate(c) ==
  /\ pc[c] = "certificate"
  /\ certificates' = certificates \cup
       {[content |-> content[c], hash |-> computeHash(content[c])]}
  /\ Return(c)
  /\ UNCHANGED <<dispatcher, proofs, audit>>

(* A database call fails: the call throws, the rows it wrote stay.         *)
Fail(c) ==
  /\ Faults
  /\ pc[c] # "idle"
  /\ Return(c)
  /\ UNCHANGED <<dispatcher, tables>>

(* The process restarts: calls under way, handlers and event log are gone. *)
Restart ==
  /\ Faults
  /\ entries' = << >>
  /\ eventLog' = << >>
  /\ delivered' = [h \in Handlers |-> << >>]
  /\ pc'       = [c \in Callers |-> "idle"]
  /\ proof'    = [c \in Callers |-> None]
  /\ position' = [c \in Callers |-> 0]
  /\ content'  = [c \in Callers |-> None]
  /\ UNCHANGED tables

(* Whoever holds the dispatcher, a running handler too, may do these.      *)
Subscriptions == /\ \E h \in Handlers : subscribe(h) \/ unsubscribe(h)
                 /\ UNCHANGED <<tables, pc, proof, position, content>>

Call(c) == \E s \in Settlements : generateProof(c, s) \/ generateCertificate(c, s)

Step(c) == \/ DispatchGenerated(c) \/ HandlerReturns(c) \/ HandlerThrows(c)
           \/ LogGenerated(c) \/ saveCertificate(c)

Next == \/ \E c \in Callers : Call(c) \/ Step(c) \/ Fail(c)
        \/ Subscriptions
        \/ Restart

Spec == Init /\ [][Next]_vars

-----------------------------------------------------------------------------------
(* The variables have their types, and a call has what its step needs.     *)
TypeOK ==
  /\ entries \in Seq([handler : Handlers, live : BOOLEAN])
  /\ eventLog \in Seq(Proof)
  /\ delivered \in [Handlers -> Seq(Proof)]
  /\ proofs \in Seq(Proof)
  /\ certificates \subseteq Certificate
  /\ audit \subseteq Proof
  /\ pc \in [Callers -> {"idle", "saved", "handling", "audit", "certificate"}]
  /\ proof \in [Callers -> Proof \cup {None}]
  /\ position \in [Callers -> Nat]
  /\ content \in [Callers -> Content \cup {None}]
  /\ \A c \in Callers :
       /\ pc[c] \in {"saved", "handling", "audit"} => proof[c] # None
       /\ pc[c] = "handling" => position[c] \in DOMAIN entries
       /\ pc[c] = "certificate" => content[c] # None

(* A ProofGenerated event tells of a proof that verifyProof confirms from  *)
(* then on, to a handler that asks at once and whatever fails later; and   *)
(* each proof is announced at most once.                                   *)
EventsTruthful ==
  /\ \A i \in DOMAIN eventLog : verifyProof(eventLog[i].settlement, eventLog[i].proofId)
  /\ \A i, j \in DOMAIN eventLog : eventLog[i] = eventLog[j] => i = j

ResolvesAfterAll(c) ==
  pc[c] # "audit" /\ pc'[c] = "audit" =>
    \A i \in DOMAIN entries' : entries'[i].live =>
      \E k \in DOMAIN delivered'[entries'[i].handler] :
        delivered'[entries'[i].handler][k] = proof[c]

(* When a dispatch resolves, every handler that is subscribed at that      *)
(* moment was called with the event, however many subscribed or            *)
(* unsubscribed while it waited for others.                                *)
DispatchReachesAll == [][\A c \in Callers : ResolvesAfterAll(c)]_vars

(* A handler is called for an event once per subscription: only one that   *)
(* unsubscribes and subscribes again during a dispatch can see it twice.   *)
OncePerSubscription ==
  \A h \in Handlers, p \in Proof :
    Cardinality({ k \in DOMAIN delivered[h] : delivered[h][k] = p })
      <= Cardinality({ i \in DOMAIN entries : entries[i].handler = h })

LogsLast(p) == /\ \E i \in DOMAIN proofs : proofs[i] = p
               /\ \E i \in DOMAIN eventLog : eventLog[i] = p

(* A proof's audit row comes last: when it is written the proof is in the  *)
(* table and its event was dispatched, also after failures and restarts.   *)
AuditComesLast == [][\A p \in audit' \ audit : LogsLast(p)]_vars

(* However they race with generateProof, certificates list consistent      *)
(* cuts: all proofs of the settlement up to some commit, at least one.     *)
CertificatesAreCuts ==
  \A cert \in certificates :
    /\ cert.content.proofs # {}
    /\ \E n \in DOMAIN proofs :
         cert.content.proofs = { i \in 1..n : proofs[i].settlement = cert.content.settlement }

(* "A signed certificate binding all proofs for a settlement"              *)
(* (docs/domain-services.md:87): what the table keeps of a certificate,    *)
(* its hash, is the hash of one list of proofs and of no other.            *)
CertificateBindsProofs ==
  \A a, b \in certificates : a.hash = b.hash => a.content = b.content
===================================================================================
