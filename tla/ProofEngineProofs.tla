----------------------------- MODULE ProofEngineProofs -----------------------------
(***************************************************************************)
(* What holds of ProofEngine for any number of callers, settlements,       *)
(* proofs, handlers and subscriptions, with failures and restarts.         *)
(***************************************************************************)
EXTENDS ProofEngine, SequenceTheorems, FiniteSetTheorems, TLAPS

EntryType == [handler : Handlers, live : BOOLEAN]

(* Unsubscribing only switches one entry off.                              *)
LEMMA Unsubscribed ==
  ASSUME entries \in Seq(EntryType), NEW h \in Handlers, unsubscribe(h)
  PROVE  /\ entries' \in Seq(EntryType)
         /\ DOMAIN entries' = DOMAIN entries
         /\ \A j \in DOMAIN entries : /\ entries'[j].handler = entries[j].handler
                                      /\ entries'[j].live => entries[j].live
<1> DEFINE off == [handler |-> h, live |-> FALSE]
<1>1. PICK i \in DOMAIN entries : /\ entries[i].handler = h
                                  /\ entries' = [entries EXCEPT ![i] = off]
  BY DEF unsubscribe, liveEntries
<1>2. off \in EntryType /\ i \in 1..Len(entries)
  BY DEF EntryType
<1>3. entries' \in Seq(EntryType)
  BY <1>1, <1>2, ExceptSeq
<1> QED  BY <1>1, <1>3

(* Subscribing adds an entry, and changes no other.                        *)
LEMMA Subscribed ==
  ASSUME entries \in Seq(EntryType), NEW h \in Handlers, subscribe(h)
  PROVE  /\ entries' \in Seq(EntryType)
         /\ DOMAIN entries \subseteq DOMAIN entries'
         /\ \A j \in DOMAIN entries : entries'[j] = entries[j]
         /\ \A j \in DOMAIN entries' \ DOMAIN entries : \A i \in DOMAIN entries : i < j
<1>1. [handler |-> h, live |-> TRUE] \in EntryType
  BY DEF EntryType
<1>2. entries' = Append(entries, [handler |-> h, live |-> TRUE])
  BY DEF subscribe
<1> QED  BY <1>1, <1>2

(* What Append does to a sequence, entry by entry.                         *)
LEMMA Appended ==
  ASSUME NEW S, NEW q \in Seq(S), NEW x \in S
  PROVE  /\ DOMAIN Append(q, x) = DOMAIN q \cup {Len(q) + 1}
         /\ Len(q) + 1 \notin DOMAIN q
         /\ \A i \in DOMAIN q : Append(q, x)[i] = q[i]
         /\ Append(q, x)[Len(q) + 1] = x
OBVIOUS

LEMMA EntriesTyped ==
  ASSUME TypeOK
  PROVE  /\ entries \in Seq(EntryType)
         /\ \A e \in DOMAIN entries : e \in Nat /\ e > 0 /\ entries[e].handler \in Handlers
<1>1. entries \in Seq(EntryType)
  BY DEF TypeOK, EntryType
<1>2. ASSUME NEW e \in DOMAIN entries
      PROVE  e \in Nat /\ e > 0 /\ entries[e].handler \in Handlers
  <2>1. entries[e] \in EntryType /\ e \in Nat /\ e > 0
    BY <1>1
  <2> QED  BY <2>1 DEF EntryType
<1> QED  BY <1>1, <1>2

LEMMA TypeInit == Init => TypeOK
<1> SUFFICES ASSUME Init PROVE TypeOK
  OBVIOUS
<1>1. << >> \in Seq([handler : Handlers, live : BOOLEAN]) /\ << >> \in Seq(Proof)
  OBVIOUS
<1> QED  BY <1>1 DEF Init, DispatcherInit, TypeOK

(* A dispatch that goes on keeps the types.                                *)
LEMMA ContinueType ==
  ASSUME TypeOK, NEW c \in Callers, NEW i \in Nat, proof[c] # None,
         continueDispatch(c, i), UNCHANGED entries
  PROVE  /\ delivered' \in [Handlers -> Seq(Proof)]
         /\ position' \in [Callers -> Nat]
         /\ pc' \in [Callers -> {"idle", "saved", "handling", "audit", "certificate"}]
         /\ \A d \in Callers : pc'[d] = "handling" => position'[d] \in DOMAIN entries
         /\ \A d \in Callers \ {c} : pc'[d] = pc[d]
         /\ pc'[c] \in {"handling", "audit"}
<1>1. proof[c] \in Proof
  BY DEF TypeOK
<1>2. ASSUME NEW j \in ahead(i), call(j, proof[c]),
             position' = [position EXCEPT ![c] = j], pc' = [pc EXCEPT ![c] = "handling"]
      PROVE  delivered' \in [Handlers -> Seq(Proof)]
  <2>1. j \in DOMAIN entries /\ entries[j].handler \in Handlers
    BY EntriesTyped DEF ahead, liveEntries
  <2>2. Append(delivered[entries[j].handler], proof[c]) \in Seq(Proof)
    BY <1>1, <2>1 DEF TypeOK
  <2> QED  BY <1>2, <2>1, <2>2 DEF TypeOK, call
<1>3. \A j \in ahead(i) : j \in DOMAIN entries /\ j \in Nat
  BY DEF TypeOK, ahead, liveEntries
<1> QED  BY <1>2, <1>3 DEF TypeOK, continueDispatch

LEMMA TypeNext == TypeOK /\ [Next]_vars => TypeOK'
<1> SUFFICES ASSUME TypeOK, [Next]_vars PROVE TypeOK'
  OBVIOUS
<1>1. ASSUME NEW c \in Callers, NEW s \in Settlements, generateProof(c, s) PROVE TypeOK'
  <2>1. PICK id \in ProofIds : /\ proof' = [proof EXCEPT ![c] = [proofId |-> id, settlement |-> s]]
                               /\ proofs' = Append(proofs, [proofId |-> id, settlement |-> s])
    BY <1>1 DEF generateProof
  <2>2. [proofId |-> id, settlement |-> s] \in Proof \ {None}
    BY ProofAssumption DEF Proof
  <2>3. proofs' \in Seq(Proof)
    BY <2>1, <2>2 DEF TypeOK
  <2> QED  BY <1>1, <2>1, <2>2, <2>3 DEF TypeOK, generateProof, Goto, dispatcher
<1>2. ASSUME NEW c \in Callers, DispatchGenerated(c) PROVE TypeOK'
  <2>1. proof[c] # None /\ proof[c] \in Proof
    BY <1>2 DEF TypeOK, DispatchGenerated
  <2>2. eventLog' \in Seq(Proof)
    BY <1>2, <2>1 DEF TypeOK, DispatchGenerated
  <2>3. continueDispatch(c, 0) /\ UNCHANGED <<entries, tables, proof, content>>
    BY <1>2 DEF DispatchGenerated
  <2> QED  BY <2>1, <2>2, <2>3, ContinueType DEF TypeOK, tables
<1>3. ASSUME NEW c \in Callers, HandlerReturns(c) PROVE TypeOK'
  <2>1. proof[c] # None /\ position[c] \in Nat
    BY <1>3 DEF TypeOK, HandlerReturns
  <2>2. continueDispatch(c, position[c]) /\ UNCHANGED <<entries, eventLog, tables, proof, content>>
    BY <1>3 DEF HandlerReturns
  <2> QED  BY <2>1, <2>2, ContinueType DEF TypeOK, tables
<1>4. ASSUME NEW c \in Callers, Return(c), UNCHANGED <<dispatcher, tables>> PROVE TypeOK'
  BY <1>4 DEF TypeOK, Return, dispatcher, tables
<1>5. ASSUME NEW c \in Callers, LogGenerated(c) PROVE TypeOK'
  <2>1. proof[c] \in Proof
    BY <1>5 DEF TypeOK, LogGenerated
  <2> QED  BY <1>5, <2>1 DEF TypeOK, LogGenerated, Return, dispatcher
<1>6. ASSUME NEW c \in Callers, NEW s \in Settlements, generateCertificate(c, s) PROVE TypeOK'
  <2>1. findProofsBySettlementId(s) \subseteq Nat
    BY DEF TypeOK, findProofsBySettlementId
  <2>2. [settlement |-> s, proofs |-> findProofsBySettlementId(s)] \in Content \ {None}
    BY <2>1, ProofAssumption DEF Content
  <2> QED  BY <1>6, <2>2 DEF TypeOK, generateCertificate, Goto, dispatcher, tables
<1>7. ASSUME NEW c \in Callers, saveCertificate(c) PROVE TypeOK'
  <2>1. content[c] \in Content
    BY <1>7 DEF TypeOK, saveCertificate
  <2>2. [content |-> content[c], hash |-> computeHash(content[c])] \in Certificate
    BY <2>1 DEF Certificate, Content, computeHash
  <2> QED  BY <1>7, <2>2 DEF TypeOK, saveCertificate, Return, dispatcher
<1>8. CASE Restart
  <2>1. << >> \in Seq([handler : Handlers, live : BOOLEAN]) /\ << >> \in Seq(Proof)
    OBVIOUS
  <2> QED  BY <1>8, <2>1 DEF TypeOK, Restart, tables
<1>9. CASE Subscriptions
  <2>1. entries' \in Seq(EntryType) /\ DOMAIN entries \subseteq DOMAIN entries'
        /\ UNCHANGED <<eventLog, delivered>>
    <3>1. entries \in Seq(EntryType)
      BY EntriesTyped
    <3>2. CASE \E h \in Handlers : subscribe(h)
      BY <3>1, <3>2, Subscribed DEF subscribe
    <3>3. CASE \E h \in Handlers : unsubscribe(h)
      BY <3>1, <3>3, Unsubscribed DEF unsubscribe
    <3> QED  BY <1>9, <3>2, <3>3 DEF Subscriptions
  <2> QED  BY <1>9, <2>1 DEF TypeOK, Subscriptions, tables, EntryType
<1>10. CASE UNCHANGED vars
  BY <1>10 DEF TypeOK, vars, dispatcher
<1> QED
  BY <1>1, <1>2, <1>3, <1>4, <1>5, <1>6, <1>7, <1>8, <1>9, <1>10
     DEF Next, Call, Step, HandlerThrows, Fail

(* The variables keep their types in every behaviour.                      *)
THEOREM TypeCorrect == Spec => []TypeOK
BY TypeInit, TypeNext, PTL DEF Spec

-----------------------------------------------------------------------------------
(* Evidence: what events, calls and audit rows say is in the table.        *)

inTable(p)   == \E i \in DOMAIN proofs : proofs[i] = p
announced(p) == \E i \in DOMAIN eventLog : eventLog[i] = p

(* A call works on a proof that it saved, and that no other call works on. *)
OwnProof ==
  /\ \A c \in Callers : proof[c] # None => inTable(proof[c])
  /\ \A c, d \in Callers : proof[c] # None /\ proof[c] = proof[d] => c = d

(* It is announced by the step that leaves "saved", and not before.        *)
AnnouncedInOrder ==
  \A c \in Callers :
    /\ pc[c] = "saved" => ~announced(proof[c])
    /\ pc[c] \in {"handling", "audit"} => announced(proof[c])

(* EventsTruthful in terms of rows instead of verifyProof.                 *)
EventsInTable ==
  /\ \A i \in DOMAIN eventLog : inTable(eventLog[i])
  /\ \A i, j \in DOMAIN eventLog : eventLog[i] = eventLog[j] => i = j

EvidenceInv == OwnProof /\ AnnouncedInOrder /\ EventsInTable

LEMMA EvidenceInit == Init => EvidenceInv
BY DEF Init, DispatcherInit, EvidenceInv, OwnProof, AnnouncedInOrder, EventsInTable,
       inTable, announced

(* A call that ends or goes on without a word to table and log.            *)
LEMMA EvidenceQuiet ==
  ASSUME TypeOK, EvidenceInv, UNCHANGED <<proofs, eventLog>>, NEW c \in Callers,
         \A d \in Callers \ {c} : proof'[d] = proof[d] /\ pc'[d] = pc[d],
         \/ proof'[c] = None /\ pc'[c] = "idle"
         \/ proof'[c] = proof[c] /\ pc'[c] = "certificate"
         \/ proof'[c] = proof[c] /\ pc[c] = "handling" /\ pc'[c] \in {"handling", "audit"}
  PROVE  EvidenceInv'
BY DEF EvidenceInv, OwnProof, AnnouncedInOrder, EventsInTable, inTable, announced

LEMMA EvidenceNext == TypeOK /\ EvidenceInv /\ [Next]_vars => EvidenceInv'
<1> SUFFICES ASSUME TypeOK, EvidenceInv, [Next]_vars PROVE EvidenceInv'
  OBVIOUS
<1>1. ASSUME NEW c \in Callers, NEW s \in Settlements, generateProof(c, s)
      PROVE  EvidenceInv'
  <2>1. PICK id \in ProofIds :
          /\ \A i \in DOMAIN proofs : proofs[i].proofId # id
          /\ proof' = [proof EXCEPT ![c] = [proofId |-> id, settlement |-> s]]
          /\ proofs' = Append(proofs, [proofId |-> id, settlement |-> s])
    BY <1>1 DEF generateProof
  <2> DEFINE new == [proofId |-> id, settlement |-> s]
  <2>2. new \in Proof /\ new # None /\ new.proofId = id
    BY ProofAssumption DEF Proof
  <2>3. proof' = [proof EXCEPT ![c] = new] /\ proofs' = Append(proofs, new)
    BY <2>1
  <2> HIDE DEF new
  <2>4. ~inTable(new)
    BY <2>1, <2>2 DEF inTable
  <2>5. /\ DOMAIN proofs' = DOMAIN proofs \cup {Len(proofs) + 1}
        /\ \A i \in DOMAIN proofs : proofs'[i] = proofs[i]
        /\ proofs'[Len(proofs) + 1] = new
    <3>1. proofs \in Seq(Proof)
      BY DEF TypeOK
    <3> QED  BY <2>2, <2>3, <3>1, Appended
  <2>6. inTable(new)' /\ \A p : inTable(p) => inTable(p)'
    BY <2>5 DEF inTable
  <2>7. ~announced(new)
    BY <2>4 DEF EvidenceInv, EventsInTable, inTable, announced
  <2>8. UNCHANGED eventLog /\ pc' = [pc EXCEPT ![c] = "saved"]
    BY <1>1 DEF generateProof, Goto, dispatcher
  <2>9. proof' \in [Callers -> Proof \cup {None}] /\ proof'[c] = new
        /\ \A d \in Callers \ {c} : proof'[d] = proof[d]
    BY <2>2, <2>3 DEF TypeOK
  <2>10. OwnProof'
    BY <2>4, <2>6, <2>9 DEF OwnProof, EvidenceInv
  <2>11. AnnouncedInOrder'
    BY <2>7, <2>8, <2>9 DEF TypeOK, AnnouncedInOrder, EvidenceInv, announced
  <2>12. EventsInTable'
    BY <2>5, <2>8 DEF EvidenceInv, EventsInTable, inTable
  <2> QED  BY <2>10, <2>11, <2>12 DEF EvidenceInv
<1>2. ASSUME NEW c \in Callers, DispatchGenerated(c) PROVE EvidenceInv'
  <2>1. /\ pc[c] = "saved" /\ proof[c] # None /\ proof[c] \in Proof
        /\ eventLog' = Append(eventLog, proof[c]) /\ UNCHANGED <<proofs, proof>>
    BY <1>2 DEF TypeOK, DispatchGenerated, tables
  <2>2. /\ \A d \in Callers \ {c} : pc'[d] = pc[d]
        /\ pc'[c] \in {"handling", "audit"}
    BY <1>2, <2>1, ContinueType DEF DispatchGenerated
  <2>3. /\ DOMAIN eventLog' = DOMAIN eventLog \cup {Len(eventLog) + 1}
        /\ \A i \in DOMAIN eventLog : eventLog'[i] = eventLog[i]
        /\ eventLog'[Len(eventLog) + 1] = proof[c]
    <3>1. eventLog \in Seq(Proof)
      BY DEF TypeOK
    <3> QED  BY <2>1, <3>1, Appended
  <2>8. \A p : announced(p)' <=> announced(p) \/ p = proof[c]
    BY <2>3 DEF announced
  <2>4. AnnouncedInOrder'
    BY <2>1, <2>2, <2>8 DEF EvidenceInv, OwnProof, AnnouncedInOrder
  <2>5. ~announced(proof[c]) /\ inTable(proof[c])
    BY <2>1 DEF EvidenceInv, OwnProof, AnnouncedInOrder
  <2>6. EventsInTable'
    BY <2>1, <2>3, <2>5 DEF EvidenceInv, EventsInTable, inTable, announced
  <2>7. OwnProof'
    BY <2>1 DEF EvidenceInv, OwnProof, inTable
  <2> QED  BY <2>4, <2>6, <2>7 DEF EvidenceInv
<1>3. ASSUME NEW c \in Callers, HandlerReturns(c) PROVE EvidenceInv'
  <2>1. /\ pc[c] = "handling" /\ proof[c] # None /\ position[c] \in Nat
        /\ UNCHANGED <<eventLog, proofs, proof>>
    BY <1>3 DEF TypeOK, HandlerReturns, tables
  <2>2. /\ \A d \in Callers \ {c} : pc'[d] = pc[d]
        /\ pc'[c] \in {"handling", "audit"}
    BY <1>3, <2>1, ContinueType DEF HandlerReturns
  <2> QED  BY <2>1, <2>2, EvidenceQuiet
<1>4. ASSUME NEW c \in Callers, Return(c), UNCHANGED <<proofs, eventLog>>
      PROVE  EvidenceInv'
  <2>1. /\ proof'[c] = None /\ pc'[c] = "idle"
        /\ \A d \in Callers \ {c} : proof'[d] = proof[d] /\ pc'[d] = pc[d]
    BY <1>4 DEF TypeOK, Return
  <2> QED  BY <1>4, <2>1, EvidenceQuiet
<1>5. ASSUME NEW c \in Callers, NEW s \in Settlements, generateCertificate(c, s)
      PROVE  EvidenceInv'
  <2>1. /\ proof' = proof /\ pc'[c] = "certificate"
        /\ \A d \in Callers \ {c} : pc'[d] = pc[d]
        /\ UNCHANGED <<proofs, eventLog>>
    BY <1>5 DEF TypeOK, generateCertificate, Goto, dispatcher, tables
  <2> QED  BY <2>1, EvidenceQuiet
<1>6. CASE Restart
  BY <1>6 DEF Restart, tables, EvidenceInv, OwnProof, AnnouncedInOrder, EventsInTable,
              inTable, announced
<1>7. CASE UNCHANGED <<proofs, eventLog, proof, pc>>
  BY <1>7 DEF EvidenceInv, OwnProof, AnnouncedInOrder, EventsInTable, inTable, announced
<1> QED
  BY <1>1, <1>2, <1>3, <1>4, <1>5, <1>6, <1>7
     DEF Next, Call, Step, HandlerThrows, Fail, LogGenerated, saveCertificate,
         Subscriptions, subscribe, unsubscribe, vars, dispatcher, tables

(* Whatever fails or restarts, a ProofGenerated event tells of a proof     *)
(* that verifyProof confirms, and tells of it once.                        *)
THEOREM EventsAreTruthful == Spec => []EventsTruthful
<1>1. TypeOK /\ EvidenceInv => EventsTruthful
  <2>1. ASSUME NEW p, inTable(p) PROVE verifyProof(p.settlement, p.proofId)
    BY <2>1 DEF inTable, verifyProof, findProofsBySettlementId
  <2> QED  BY <2>1 DEF EvidenceInv, EventsInTable, EventsTruthful
<1> QED  BY <1>1, TypeInit, TypeNext, EvidenceInit, EvidenceNext, PTL DEF Spec

(* An audit row is written for a proof in the table whose event was        *)
(* dispatched.                                                             *)
THEOREM AuditIsLast == Spec => AuditComesLast
<1> DEFINE Late == \A p \in audit' \ audit : LogsLast(p)
<1>1. ASSUME TypeOK, EvidenceInv, [Next]_vars PROVE [Late]_vars
  <2>1. CASE audit' = audit
    BY <2>1
  <2>2. ASSUME NEW c \in Callers, LogGenerated(c) PROVE Late
    BY <1>1, <2>2 DEF LogGenerated, TypeOK, EvidenceInv, OwnProof, AnnouncedInOrder,
                     inTable, announced, LogsLast
  <2> QED
    BY <1>1, <2>1, <2>2 DEF Next, Call, Step, generateProof, generateCertificate, DispatchGenerated,
         HandlerReturns, HandlerThrows, saveCertificate, Fail, Restart, Subscriptions,
         tables, vars
<1>2. Spec => [](TypeOK /\ EvidenceInv)
  BY TypeInit, TypeNext, EvidenceInit, EvidenceNext, PTL DEF Spec
<1> QED  BY <1>1, <1>2, PTL DEF Spec, AuditComesLast

-----------------------------------------------------------------------------------
(* Dispatch: the live entries up to a call's position have been called.    *)

got(h, p) == \E k \in DOMAIN delivered[h] : delivered[h][k] = p

visited(c, i) ==
  \A e \in DOMAIN entries : e <= i /\ entries[e].live => got(entries[e].handler, proof[c])

DispatchInv == \A c \in Callers : pc[c] = "handling" => visited(c, position[c])

(* What a dispatch does from position i on, its caller's and others'.      *)
LEMMA Continue ==
  ASSUME TypeOK, NEW c \in Callers, NEW i \in Nat, proof[c] # None, visited(c, i),
         continueDispatch(c, i), UNCHANGED <<entries, proof>>
  PROVE  /\ \A h \in Handlers : \A p : got(h, p) => got(h, p)'
         /\ pc'[c] = "handling" => visited(c, position[c])'
         /\ pc'[c] = "audit" => ResolvesAfterAll(c)
<1>1. /\ proof[c] \in Proof /\ entries \in Seq(EntryType)
      /\ \A e \in DOMAIN entries : e \in Nat /\ entries[e].handler \in Handlers
  BY EntriesTyped DEF TypeOK
<1>2. ASSUME NEW j \in ahead(i), \A k \in ahead(i) : j <= k, call(j, proof[c]),
             position' = [position EXCEPT ![c] = j], pc' = [pc EXCEPT ![c] = "handling"]
      PROVE  /\ \A h \in Handlers : \A p : got(h, p) => got(h, p)'
             /\ visited(c, position[c])' /\ pc'[c] = "handling"
  <2>0. PICK hj \in Handlers : hj = entries[j].handler
    BY <1>1 DEF ahead, liveEntries
  <2>1. delivered[hj] \in Seq(Proof) /\ j \in Nat /\ j \in DOMAIN entries
    BY <1>1 DEF TypeOK, ahead, liveEntries
  <2>2. /\ delivered'[hj] = Append(delivered[hj], proof[c])
        /\ \A h \in Handlers \ {hj} : delivered'[h] = delivered[h]
    BY <1>2, <2>0, <2>1 DEF TypeOK, call
  <2>3. /\ DOMAIN delivered'[hj] = DOMAIN delivered[hj] \cup {Len(delivered[hj]) + 1}
        /\ \A k \in DOMAIN delivered[hj] : delivered'[hj][k] = delivered[hj][k]
        /\ delivered'[hj][Len(delivered[hj]) + 1] = proof[c]
    BY <1>1, <2>1, <2>2, Appended
  <2>4. \A h \in Handlers : \A p : got(h, p) => got(h, p)'
    BY <2>2, <2>3 DEF got
  <2>5. got(hj, proof[c])'
    BY <2>3 DEF got
  <2>6. ASSUME NEW e \in DOMAIN entries, e <= j, entries[e].live
        PROVE  got(entries[e].handler, proof[c])'
    <3>1. CASE e <= i
      BY <1>1, <2>4, <2>6, <3>1 DEF visited
    <3>2. CASE ~(e <= i)
      <4>1. e \in ahead(i)
        BY <1>1, <2>6, <3>2 DEF ahead, liveEntries
      <4>2. e = j
        BY <1>1, <1>2, <2>1, <2>6, <4>1
      <4> QED  BY <2>0, <2>5, <4>2
    <3> QED  BY <3>1, <3>2
  <2>7. position'[c] = j /\ pc'[c] = "handling"
    BY <1>2 DEF TypeOK
  <2> QED  BY <2>4, <2>6, <2>7 DEF visited
<1>3. CASE /\ ahead(i) = {} /\ pc' = [pc EXCEPT ![c] = "audit"]
           /\ UNCHANGED <<delivered, position>>
  <2>1. pc'[c] = "audit" /\ \A h, p : got(h, p) <=> got(h, p)'
    BY <1>3 DEF TypeOK, got
  <2>2. \A e \in DOMAIN entries : entries[e].live => e <= i
    BY <1>1, <1>3 DEF ahead, liveEntries
  <2>3. \A e \in DOMAIN entries : entries[e].live => got(entries[e].handler, proof[c])
    BY <2>2 DEF visited
  <2>4. ResolvesAfterAll(c)
    BY <1>3, <2>3 DEF ResolvesAfterAll, got
  <2> QED  BY <2>1, <2>4
<1> QED  BY <1>2, <1>3 DEF continueDispatch

LEMMA DispatchNext ==
  TypeOK /\ DispatchInv /\ [Next]_vars
    => DispatchInv' /\ [\A c \in Callers : ResolvesAfterAll(c)]_vars
<1> SUFFICES ASSUME TypeOK, DispatchInv, [Next]_vars
             PROVE  DispatchInv' /\ \A c \in Callers : ResolvesAfterAll(c)
  OBVIOUS
<1>1. ASSUME NEW c \in Callers, NEW i \in Nat, proof[c] # None, visited(c, i),
             continueDispatch(c, i), UNCHANGED <<entries, proof>>
      PROVE  DispatchInv' /\ \A d \in Callers : ResolvesAfterAll(d)
  <2>1. \A d \in Callers \ {c} : pc'[d] = pc[d] /\ position'[d] = position[d]
    BY <1>1 DEF TypeOK, continueDispatch
  <2>2. pc'[c] \in {"handling", "audit"}
    BY <1>1, ContinueType
  <2>3. /\ \A h \in Handlers : \A p : got(h, p) => got(h, p)'
        /\ pc'[c] = "handling" => visited(c, position[c])'
        /\ pc'[c] = "audit" => ResolvesAfterAll(c)
    BY <1>1, Continue
  <2>4. \A e \in DOMAIN entries : entries[e].handler \in Handlers
    BY EntriesTyped
  <2>5. \A d \in Callers : ResolvesAfterAll(d)
    BY <2>1, <2>2, <2>3 DEF ResolvesAfterAll
  <2>6. ASSUME NEW d \in Callers \ {c}, pc'[d] = "handling" PROVE visited(d, position[d])'
    BY <1>1, <2>1, <2>3, <2>4, <2>6 DEF DispatchInv, visited
  <2> QED  BY <2>3, <2>5, <2>6 DEF DispatchInv
<1>2. ASSUME NEW c \in Callers, DispatchGenerated(c)
      PROVE  DispatchInv' /\ \A d \in Callers : ResolvesAfterAll(d)
  <2>1. visited(c, 0) /\ proof[c] # None
    BY <1>2, EntriesTyped DEF TypeOK, visited, DispatchGenerated
  <2> QED  BY <1>1, <1>2, <2>1 DEF DispatchGenerated
<1>3. ASSUME NEW c \in Callers, HandlerReturns(c)
      PROVE  DispatchInv' /\ \A d \in Callers : ResolvesAfterAll(d)
  <2>1. visited(c, position[c]) /\ proof[c] # None /\ position[c] \in Nat
    BY <1>3 DEF TypeOK, HandlerReturns, DispatchInv
  <2> QED  BY <1>1, <1>3, <2>1 DEF HandlerReturns
<1>4. ASSUME \A c \in Callers : \/ pc'[c] \in {"idle", "saved", "certificate"}
                                \/ /\ pc'[c] = pc[c] /\ proof'[c] = proof[c]
                                   /\ position'[c] = position[c],
             UNCHANGED <<entries, delivered>>
      PROVE  DispatchInv' /\ \A c \in Callers : ResolvesAfterAll(c)
  BY <1>4 DEF DispatchInv, visited, got, ResolvesAfterAll
<1>5. CASE Subscriptions
  <2>1. entries \in Seq(EntryType) /\ DOMAIN entries \subseteq Nat
    BY EntriesTyped
  <2>2. ASSUME NEW h \in Handlers, subscribe(h) PROVE DispatchInv'
    <3>1. /\ DOMAIN entries \subseteq DOMAIN entries' /\ DOMAIN entries' \subseteq Nat
          /\ \A j \in DOMAIN entries : entries'[j] = entries[j]
          /\ \A j \in DOMAIN entries' \ DOMAIN entries : \A i \in DOMAIN entries : i < j
          /\ UNCHANGED delivered
      BY <2>1, <2>2, Subscribed DEF subscribe
    <3>2. \A c \in Callers, e \in DOMAIN entries' :
            pc[c] = "handling" /\ e <= position[c] => e \in DOMAIN entries
      BY <2>1, <3>1 DEF TypeOK
    <3>3. UNCHANGED <<pc, proof, position>>
      BY <1>5 DEF Subscriptions
    <3> QED  BY <3>1, <3>2, <3>3 DEF DispatchInv, visited, got
  <2>3. ASSUME NEW h \in Handlers, unsubscribe(h) PROVE DispatchInv'
    <3>1. /\ DOMAIN entries' = DOMAIN entries /\ UNCHANGED delivered
          /\ \A j \in DOMAIN entries : /\ entries'[j].handler = entries[j].handler
                                       /\ entries'[j].live => entries[j].live
      BY <2>1, <2>3, Unsubscribed DEF unsubscribe
    <3>2. UNCHANGED <<pc, proof, position>>
      BY <1>5 DEF Subscriptions
    <3> QED  BY <3>1, <3>2 DEF DispatchInv, visited, got
  <2> QED  BY <1>5, <2>2, <2>3 DEF Subscriptions, ResolvesAfterAll
<1>6. CASE Restart
  BY <1>6 DEF Restart, DispatchInv, ResolvesAfterAll
<1>7. ASSUME NEW c \in Callers, Return(c), UNCHANGED <<entries, delivered>>
      PROVE  DispatchInv' /\ \A d \in Callers : ResolvesAfterAll(d)
  BY <1>4, <1>7 DEF TypeOK, Return
<1>8. ASSUME NEW c \in Callers, NEW s \in Settlements,
             generateProof(c, s) \/ generateCertificate(c, s)
      PROVE  DispatchInv' /\ \A d \in Callers : ResolvesAfterAll(d)
  BY <1>4, <1>8 DEF TypeOK, generateProof, generateCertificate, Goto, dispatcher
<1>9. CASE UNCHANGED vars
  BY <1>4, <1>9 DEF vars, dispatcher
<1> QED
  BY <1>2, <1>3, <1>5, <1>6, <1>7, <1>8, <1>9
     DEF Next, Call, Step, HandlerThrows, LogGenerated, saveCertificate, Fail, dispatcher

(* When a dispatch resolves, every handler subscribed at that moment was   *)
(* called with the event, though handlers come and go while it runs.       *)
THEOREM DispatchIsComplete == Spec => DispatchReachesAll
<1>1. Init => DispatchInv
  BY DEF Init, DispatchInv
<1> QED  BY <1>1, TypeInit, TypeNext, DispatchNext, PTL DEF Spec, DispatchReachesAll

-----------------------------------------------------------------------------------
(* Certificates: cuts of the table of proofs.                              *)

upTo(n, s) == { i \in 1..n : proofs[i].settlement = s }

isCut(ct) == ct.proofs # {} /\ \E n \in DOMAIN proofs : ct.proofs = upTo(n, ct.settlement)

CutInv == /\ \A c \in Callers : pc[c] = "certificate" => isCut(content[c])
          /\ \A cert \in certificates : isCut(cert.content)

(* A proof more does not change the cuts there were.                       *)
LEMMA CutsStay ==
  ASSUME TypeOK, NEW p \in Proof, proofs' = Append(proofs, p), NEW ct, isCut(ct)
  PROVE  /\ ct.proofs # {}
         /\ \E n \in DOMAIN proofs' :
              ct.proofs = { i \in 1..n : proofs'[i].settlement = ct.settlement }
<1>1. PICK n \in DOMAIN proofs : ct.proofs = upTo(n, ct.settlement)
  BY DEF isCut
<1>2. proofs \in Seq(Proof) /\ n \in 1..Len(proofs)
  BY DEF TypeOK
<1>3. n \in DOMAIN proofs' /\ \A j \in 1..n : proofs'[j] = proofs[j]
  BY <1>2, Appended
<1>4. { i \in 1..n : proofs'[i].settlement = ct.settlement } = upTo(n, ct.settlement)
  BY <1>3 DEF upTo
<1> QED  BY <1>1, <1>3, <1>4 DEF isCut

LEMMA CutNext == TypeOK /\ CutInv /\ [Next]_vars => CutInv'
<1> SUFFICES ASSUME TypeOK, CutInv, [Next]_vars PROVE CutInv'
  OBVIOUS
<1>1. ASSUME NEW c \in Callers, NEW s \in Settlements, generateProof(c, s) PROVE CutInv'
  <2>1. PICK p \in Proof : proofs' = Append(proofs, p)
    BY <1>1 DEF generateProof, Proof
  <2>2. /\ UNCHANGED <<certificates, content>>
        /\ \A d \in Callers : pc'[d] = "certificate" => pc[d] = "certificate"
    BY <1>1 DEF TypeOK, generateProof, Goto
  <2> QED  BY <2>1, <2>2, CutsStay DEF CutInv, isCut, upTo
<1>2. ASSUME NEW c \in Callers, NEW s \in Settlements, generateCertificate(c, s) PROVE CutInv'
  <2>1. content'[c] = [settlement |-> s, proofs |-> findProofsBySettlementId(s)]
        /\ findProofsBySettlementId(s) # {}
    BY <1>2 DEF TypeOK, generateCertificate
  <2>2. DOMAIN proofs = 1..Len(proofs) /\ Len(proofs) \in Nat
    BY DEF TypeOK
  <2>3. Len(proofs) \in DOMAIN proofs
    BY <2>1, <2>2 DEF findProofsBySettlementId
  <2>4. findProofsBySettlementId(s) = upTo(Len(proofs), s)
    BY <2>2 DEF findProofsBySettlementId, upTo
  <2>5. isCut(content'[c])
    BY <2>1, <2>3, <2>4 DEF isCut
  <2>6. /\ UNCHANGED <<proofs, certificates>>
        /\ \A d \in Callers \ {c} : pc'[d] = pc[d] /\ content'[d] = content[d]
    BY <1>2 DEF TypeOK, generateCertificate, Goto, tables
  <2> QED  BY <2>5, <2>6 DEF CutInv, isCut, upTo
<1>3. ASSUME NEW c \in Callers, saveCertificate(c) PROVE CutInv'
  <2>1. isCut(content[c]) /\ UNCHANGED proofs
    BY <1>3 DEF CutInv, saveCertificate
  <2>2. \A cert \in certificates' : cert \in certificates \/ cert.content = content[c]
    BY <1>3 DEF saveCertificate
  <2>3. /\ pc'[c] = "idle"
        /\ \A d \in Callers \ {c} : pc'[d] = pc[d] /\ content'[d] = content[d]
    BY <1>3 DEF TypeOK, saveCertificate, Return
  <2> QED  BY <2>1, <2>2, <2>3 DEF CutInv, isCut, upTo
<1>4. ASSUME UNCHANGED <<proofs, certificates>>,
             \A c \in Callers : pc'[c] = "certificate" =>
                               pc[c] = "certificate" /\ content'[c] = content[c]
      PROVE  CutInv'
  BY <1>4 DEF CutInv, isCut, upTo
<1>5. ASSUME NEW c \in Callers, Return(c), UNCHANGED <<proofs, certificates>> PROVE CutInv'
  BY <1>4, <1>5 DEF TypeOK, Return
<1>6. ASSUME NEW c \in Callers, NEW i \in Nat, proof[c] # None, continueDispatch(c, i),
             UNCHANGED <<entries, proofs, certificates, content>>
      PROVE  CutInv'
  <2>1. pc'[c] # "certificate" /\ \A d \in Callers \ {c} : pc'[d] = pc[d]
    BY <1>6, ContinueType
  <2> QED  BY <1>4, <1>6, <2>1
<1>7. ASSUME NEW c \in Callers, DispatchGenerated(c) \/ HandlerReturns(c) PROVE CutInv'
  <2>1. proof[c] # None /\ position[c] \in Nat
    BY <1>7 DEF TypeOK, DispatchGenerated, HandlerReturns
  <2> QED  BY <1>6, <1>7, <2>1 DEF DispatchGenerated, HandlerReturns, tables
<1>8. CASE Restart \/ Subscriptions \/ UNCHANGED vars
  BY <1>4, <1>8 DEF Restart, Subscriptions, vars, tables
<1> QED
  BY <1>1, <1>2, <1>3, <1>5, <1>7, <1>8
     DEF Next, Call, Step, HandlerThrows, LogGenerated, Fail, tables

(* However they race with generateProof, certificates list all the proofs  *)
(* their settlement had at some commit, and at least one.                  *)
THEOREM CertificatesConsistent == Spec => []CertificatesAreCuts
<1>1. Init => CutInv
  BY DEF Init, CutInv
<1>2. CutInv => CertificatesAreCuts
  BY DEF CutInv, isCut, upTo, CertificatesAreCuts
<1> QED  BY <1>1, <1>2, TypeInit, TypeNext, CutNext, PTL DEF Spec

-----------------------------------------------------------------------------------
(* Calls of handlers: a dispatch at a position has called each handler for *)
(* at most as many entries as stand up to there.  (Operators of what the   *)
(* handlers were called with and of the entries, to speak of both states.) *)

given(calls, h, p) == { k \in DOMAIN calls[h] : calls[h][k] = p }
slots(list, h, n) == { e \in DOMAIN list : list[e].handler = h /\ e <= n }
allSlots(list, h) == { e \in DOMAIN list : list[e].handler = h }

OnceInv ==
  /\ \A h \in Handlers : \A k \in DOMAIN delivered[h] :
       \E i \in DOMAIN eventLog : eventLog[i] = delivered[h][k]
  /\ \A c \in Callers, h \in Handlers : pc[c] = "handling" =>
       Cardinality(given(delivered, h, proof[c])) <= Cardinality(slots(entries, h, position[c]))
  /\ \A h \in Handlers, p \in Proof :
       Cardinality(given(delivered, h, p)) <= Cardinality(allSlots(entries, h))

LEMMA FiniteCounts ==
  ASSUME NEW D \in [Handlers -> Seq(Proof)], NEW E \in Seq(EntryType), NEW h \in Handlers
  PROVE  /\ \A p : IsFiniteSet(given(D, h, p)) /\ Cardinality(given(D, h, p)) \in Nat
         /\ \A n : IsFiniteSet(slots(E, h, n)) /\ Cardinality(slots(E, h, n)) \in Nat
         /\ IsFiniteSet(allSlots(E, h)) /\ Cardinality(allSlots(E, h)) \in Nat
         /\ \A n : Cardinality(slots(E, h, n)) <= Cardinality(allSlots(E, h))
<1>1. D[h] \in Seq(Proof)
  OBVIOUS
<1>2. /\ DOMAIN D[h] = 1..Len(D[h]) /\ Len(D[h]) \in Nat
      /\ DOMAIN E = 1..Len(E) /\ Len(E) \in Nat
  BY <1>1
<1>3. IsFiniteSet(DOMAIN D[h]) /\ IsFiniteSet(DOMAIN E)
  BY <1>2, FS_Interval
<1>4. \A p : IsFiniteSet(given(D, h, p))
  BY <1>3, FS_Subset DEF given
<1>5. IsFiniteSet(allSlots(E, h)) /\ \A n : IsFiniteSet(slots(E, h, n))
  BY <1>3, FS_Subset DEF slots, allSlots
<1>6. \A n : slots(E, h, n) \in SUBSET allSlots(E, h)
  BY DEF slots, allSlots
<1> QED  BY <1>4, <1>5, <1>6, FS_CardinalityType, FS_Subset

(* A call adds one to the calls of one handler with one event.             *)
LEMMA CallCounts ==
  ASSUME TypeOK, NEW p \in Proof, NEW j \in liveEntries, call(j, p),
         NEW g \in Handlers, g = entries[j].handler
  PROVE  /\ delivered' \in [Handlers -> Seq(Proof)]
         /\ \A h \in Handlers : \A q : q # p \/ h # g =>
              given(delivered', h, q) = given(delivered, h, q)
         /\ Cardinality(given(delivered', g, p)) = Cardinality(given(delivered, g, p)) + 1
         /\ \A h \in Handlers : \A k \in DOMAIN delivered'[h] :
              delivered'[h][k] = p \/ \E m \in DOMAIN delivered[h] : delivered'[h][k] = delivered[h][m]
<1>2. delivered[g] \in Seq(Proof) /\ delivered \in [Handlers -> Seq(Proof)]
      /\ entries \in Seq(EntryType)
  BY EntriesTyped DEF TypeOK
<1>3. /\ delivered'[g] = Append(delivered[g], p)
      /\ \A h \in Handlers \ {g} : delivered'[h] = delivered[h]
      /\ delivered' \in [Handlers -> Seq(Proof)]
  BY <1>2 DEF call
<1>4. /\ DOMAIN delivered'[g] = DOMAIN delivered[g] \cup {Len(delivered[g]) + 1}
      /\ Len(delivered[g]) + 1 \notin DOMAIN delivered[g]
      /\ \A k \in DOMAIN delivered[g] : delivered'[g][k] = delivered[g][k]
      /\ delivered'[g][Len(delivered[g]) + 1] = p
  BY <1>2, <1>3, Appended
<1>5. given(delivered', g, p) = given(delivered, g, p) \cup {Len(delivered[g]) + 1}
  BY <1>4 DEF given
<1>6. Len(delivered[g]) + 1 \notin given(delivered, g, p)
  BY <1>4 DEF given
<1>7. Cardinality(given(delivered, g, p) \cup {Len(delivered[g]) + 1})
        = Cardinality(given(delivered, g, p)) + 1
  BY <1>2, <1>6, FiniteCounts, FS_AddElement
<1>8. \A q : q # p => given(delivered', g, q) = given(delivered, g, q)
  BY <1>4 DEF given
<1>9. \A h \in Handlers \ {g} : \A q : given(delivered', h, q) = given(delivered, h, q)
  BY <1>3 DEF given
<1>10. \A h \in Handlers : \A k \in DOMAIN delivered'[h] :
         delivered'[h][k] = p \/ \E m \in DOMAIN delivered[h] : delivered'[h][k] = delivered[h][m]
  BY <1>3, <1>4
<1> QED  BY <1>3, <1>5, <1>7, <1>8, <1>9, <1>10

(* The entry a dispatch moves to is one more of its handler's entries.     *)
LEMMA SlotCounts ==
  ASSUME TypeOK, NEW i \in Nat, NEW j \in ahead(i), NEW h \in Handlers
  PROVE  /\ Cardinality(slots(entries, h, i)) <= Cardinality(slots(entries, h, j))
         /\ h = entries[j].handler =>
              Cardinality(slots(entries, h, i)) + 1 <= Cardinality(slots(entries, h, j))
<1>0. entries \in Seq(EntryType) /\ delivered \in [Handlers -> Seq(Proof)]
  BY EntriesTyped DEF TypeOK
<1>1. j \in DOMAIN entries /\ j > i /\ j \in Nat /\ \A e \in DOMAIN entries : e \in Nat
  BY EntriesTyped DEF ahead, liveEntries
<1>2. slots(entries, h, i) \in SUBSET slots(entries, h, j) /\ j \notin slots(entries, h, i)
  BY <1>1 DEF slots
<1>3. h = entries[j].handler => slots(entries, h, i) \cup {j} \in SUBSET slots(entries, h, j)
  BY <1>1, <1>2 DEF slots
<1>4. Cardinality(slots(entries, h, i) \cup {j}) = Cardinality(slots(entries, h, i)) + 1
  BY <1>0, <1>2, FiniteCounts, FS_AddElement
<1> QED  BY <1>0, <1>2, <1>3, <1>4, FiniteCounts, FS_Subset

(* A dispatch goes on, or resolves.                                        *)
LEMMA ContinueOnce ==
  ASSUME TypeOK, OwnProof, OnceInv, NEW c \in Callers, NEW i \in Nat, proof[c] # None,
         \A h \in Handlers :
           Cardinality(given(delivered, h, proof[c])) <= Cardinality(slots(entries, h, i)),
         continueDispatch(c, i), UNCHANGED <<entries, proof>>,
         \A p : (\E k \in DOMAIN eventLog : eventLog[k] = p) \/ p = proof[c] =>
                  \E k \in DOMAIN eventLog' : eventLog'[k] = p
  PROVE  OnceInv'
<1>0. proof[c] \in Proof /\ entries \in Seq(EntryType) /\ delivered \in [Handlers -> Seq(Proof)]
  BY EntriesTyped DEF TypeOK
<1>1. \A d \in Callers \ {c} : pc'[d] = pc[d] /\ position'[d] = position[d]
  BY DEF continueDispatch, TypeOK
<1>2. ASSUME UNCHANGED delivered, pc'[c] = "audit" PROVE OnceInv'
  BY <1>1, <1>2 DEF OnceInv
<1>3. ASSUME NEW j \in ahead(i), call(j, proof[c]), position'[c] = j PROVE OnceInv'
  <2>0. PICK g \in Handlers : g = entries[j].handler
    BY EntriesTyped DEF ahead, liveEntries
  <2>1. j \in liveEntries
    BY DEF ahead
  <2>2. /\ \A h \in Handlers : \A q : q # proof[c] \/ h # g =>
             given(delivered', h, q) = given(delivered, h, q)
        /\ Cardinality(given(delivered', g, proof[c])) = Cardinality(given(delivered, g, proof[c])) + 1
        /\ \A h \in Handlers : \A k \in DOMAIN delivered'[h] :
             delivered'[h][k] = proof[c]
             \/ \E m \in DOMAIN delivered[h] : delivered'[h][k] = delivered[h][m]
        /\ delivered' \in [Handlers -> Seq(Proof)]
    BY <1>0, <1>3, <2>0, <2>1, CallCounts
  <2>4. ASSUME NEW h \in Handlers
        PROVE  Cardinality(given(delivered', h, proof[c])) <= Cardinality(slots(entries, h, j))
    <3>1. Cardinality(given(delivered, h, proof[c])) \in Nat
          /\ Cardinality(slots(entries, h, i)) \in Nat
          /\ Cardinality(slots(entries, h, j)) \in Nat
      BY <1>0, FiniteCounts
    <3>2. Cardinality(given(delivered, h, proof[c])) <= Cardinality(slots(entries, h, i))
      OBVIOUS
    <3>3. CASE h = g
      BY <1>3, <2>0, <2>2, <3>1, <3>2, <3>3, SlotCounts
    <3>4. CASE h # g
      BY <1>3, <2>2, <3>1, <3>2, <3>4, SlotCounts
    <3> QED  BY <3>3, <3>4
  <2>5. \A h \in Handlers : \A k \in DOMAIN delivered'[h] :
          \E n \in DOMAIN eventLog' : eventLog'[n] = delivered'[h][k]
    <3>1. \A h \in Handlers : \A m \in DOMAIN delivered[h] :
            \E n \in DOMAIN eventLog' : eventLog'[n] = delivered[h][m]
      BY DEF OnceInv
    <3>2. \E n \in DOMAIN eventLog' : eventLog'[n] = proof[c]
      OBVIOUS
    <3>3. ASSUME NEW h \in Handlers, NEW k \in DOMAIN delivered'[h]
          PROVE  \E n \in DOMAIN eventLog' : eventLog'[n] = delivered'[h][k]
      <4>1. CASE delivered'[h][k] = proof[c]
        BY <3>2, <4>1
      <4>2. CASE \E m \in DOMAIN delivered[h] : delivered'[h][k] = delivered[h][m]
        BY <3>1, <4>2
      <4> QED  BY <2>2, <4>1, <4>2
    <3> QED  BY <3>3
  <2>6. ASSUME NEW d \in Callers, NEW h \in Handlers, pc'[d] = "handling"
        PROVE  Cardinality(given(delivered', h, proof[d])) <= Cardinality(slots(entries, h, position'[d]))
    <3>1. CASE d = c
      BY <1>3, <2>4, <3>1
    <3>2. CASE d # c
      <4>1. proof[d] # None /\ pc[d] = "handling" /\ position'[d] = position[d]
        BY <1>1, <2>6, <3>2 DEF TypeOK
      <4>2. proof[d] # proof[c]
        BY <3>2, <4>1 DEF OwnProof
      <4> QED  BY <2>2, <4>1, <4>2 DEF OnceInv
    <3> QED  BY <3>1, <3>2
  <2>7. ASSUME NEW h \in Handlers, NEW p \in Proof
        PROVE  Cardinality(given(delivered', h, p)) <= Cardinality(allSlots(entries, h))
    <3>1. CASE p = proof[c]
      <4>1. /\ Cardinality(slots(entries, h, j)) <= Cardinality(allSlots(entries, h))
            /\ Cardinality(slots(entries, h, j)) \in Nat /\ Cardinality(allSlots(entries, h)) \in Nat
        BY <1>0, FiniteCounts
      <4>2. Cardinality(given(delivered', h, proof[c])) \in Nat
        BY <1>0, <2>2, FiniteCounts
      <4> QED  BY <2>4, <3>1, <4>1, <4>2
    <3>2. CASE p # proof[c]
      BY <2>2, <3>2 DEF OnceInv
    <3> QED  BY <3>1, <3>2
  <2> QED  BY <2>5, <2>6, <2>7 DEF OnceInv
<1> QED  BY <1>2, <1>3 DEF continueDispatch, TypeOK

LEMMA OnceNext == TypeOK /\ EvidenceInv /\ OnceInv /\ [Next]_vars => OnceInv'
<1> SUFFICES ASSUME TypeOK, EvidenceInv, OnceInv, [Next]_vars PROVE OnceInv'
  OBVIOUS
<1>0. entries \in Seq(EntryType) /\ delivered \in [Handlers -> Seq(Proof)]
  BY EntriesTyped DEF TypeOK
<1>1. ASSUME UNCHANGED <<entries, delivered, eventLog>>,
             \A c \in Callers : pc'[c] = "handling" =>
               pc[c] = "handling" /\ proof'[c] = proof[c] /\ position'[c] = position[c]
      PROVE  OnceInv'
  BY <1>1 DEF OnceInv
<1>2. ASSUME NEW c \in Callers, Return(c), UNCHANGED <<entries, delivered, eventLog>>
      PROVE  OnceInv'
  BY <1>1, <1>2 DEF Return, TypeOK
<1>3. ASSUME NEW c \in Callers, NEW s \in Settlements,
             generateProof(c, s) \/ generateCertificate(c, s)
      PROVE  OnceInv'
  BY <1>1, <1>3 DEF generateProof, generateCertificate, Goto, TypeOK, dispatcher
<1>4. ASSUME NEW c \in Callers, DispatchGenerated(c) PROVE OnceInv'
  <2>1. proof[c] # None /\ proof[c] \in Proof /\ eventLog' = Append(eventLog, proof[c])
    BY <1>4 DEF DispatchGenerated, TypeOK
  <2>2. \A p : (\E k \in DOMAIN eventLog : eventLog[k] = p) \/ p = proof[c] =>
                 \E k \in DOMAIN eventLog' : eventLog'[k] = p
    <3>1. eventLog \in Seq(Proof)
      BY DEF TypeOK
    <3>2. /\ DOMAIN eventLog' = DOMAIN eventLog \cup {Len(eventLog) + 1}
          /\ \A k \in DOMAIN eventLog : eventLog'[k] = eventLog[k]
          /\ eventLog'[Len(eventLog) + 1] = proof[c]
      BY <2>1, <3>1, Appended
    <3> QED  BY <3>2
  <2>3. ASSUME NEW h \in Handlers
        PROVE  Cardinality(given(delivered, h, proof[c])) <= Cardinality(slots(entries, h, 0))
    <3>1. ~announced(proof[c])
      BY <1>4 DEF DispatchGenerated, EvidenceInv, AnnouncedInOrder
    <3>2. given(delivered, h, proof[c]) = {}
      BY <3>1 DEF given, OnceInv, announced
    <3>3. Cardinality({}) = 0
      BY FS_EmptySet
    <3>4. Cardinality(slots(entries, h, 0)) \in Nat
      BY <1>0, FiniteCounts
    <3> QED  BY <3>2, <3>3, <3>4
  <2>4. continueDispatch(c, 0) /\ UNCHANGED <<entries, proof>>
    BY <1>4 DEF DispatchGenerated
  <2> QED  BY <2>1, <2>2, <2>3, <2>4, ContinueOnce DEF EvidenceInv
<1>5. ASSUME NEW c \in Callers, HandlerReturns(c) PROVE OnceInv'
  <2>1. proof[c] # None /\ position[c] \in Nat
    BY <1>5 DEF HandlerReturns, TypeOK
  <2>2. \A h \in Handlers :
          Cardinality(given(delivered, h, proof[c])) <= Cardinality(slots(entries, h, position[c]))
    BY <1>5 DEF HandlerReturns, OnceInv
  <2>3. announced(proof[c]) /\ UNCHANGED eventLog
    BY <1>5 DEF HandlerReturns, EvidenceInv, AnnouncedInOrder
  <2>4. \A p : (\E k \in DOMAIN eventLog : eventLog[k] = p) \/ p = proof[c] =>
                 \E k \in DOMAIN eventLog' : eventLog'[k] = p
    BY <2>3 DEF announced
  <2>5. continueDispatch(c, position[c]) /\ UNCHANGED <<entries, proof>>
    BY <1>5 DEF HandlerReturns
  <2> QED  BY <2>1, <2>2, <2>4, <2>5, ContinueOnce DEF EvidenceInv
<1>6. CASE Restart
  <2>1. Cardinality({}) = 0
    BY FS_EmptySet
  <2>2. \A h \in Handlers : \A p : given(delivered', h, p) = {}
    BY <1>6 DEF Restart, given
  <2>3. \A h \in Handlers : allSlots(entries', h) = {}
    BY <1>6 DEF Restart, allSlots
  <2>4. \A h \in Handlers : DOMAIN delivered'[h] = {}
    BY <1>6 DEF Restart
  <2>5. \A c \in Callers : pc'[c] = "idle"
    BY <1>6 DEF Restart
  <2>6. \A h \in Handlers : \A p :
          Cardinality(given(delivered', h, p)) <= Cardinality(allSlots(entries', h))
    BY <2>1, <2>2, <2>3
  <2> QED  BY <2>4, <2>5, <2>6 DEF OnceInv
<1>7. CASE Subscriptions
  <2>1. /\ entries' \in Seq(EntryType) /\ DOMAIN entries \subseteq DOMAIN entries'
        /\ \A e \in DOMAIN entries : entries'[e].handler = entries[e].handler
        /\ UNCHANGED <<eventLog, delivered>>
    <3>1. ASSUME NEW h \in Handlers, subscribe(h)
          PROVE  /\ entries' \in Seq(EntryType) /\ DOMAIN entries \subseteq DOMAIN entries'
                 /\ \A e \in DOMAIN entries : entries'[e].handler = entries[e].handler
                 /\ UNCHANGED <<eventLog, delivered>>
      BY <1>0, <3>1, Subscribed DEF subscribe
    <3>2. ASSUME NEW h \in Handlers, unsubscribe(h)
          PROVE  /\ entries' \in Seq(EntryType) /\ DOMAIN entries \subseteq DOMAIN entries'
                 /\ \A e \in DOMAIN entries : entries'[e].handler = entries[e].handler
                 /\ UNCHANGED <<eventLog, delivered>>
      BY <1>0, <3>2, Unsubscribed DEF unsubscribe
    <3> QED  BY <1>7, <3>1, <3>2 DEF Subscriptions
  <2>2. ASSUME NEW h \in Handlers, NEW n
        PROVE  /\ Cardinality(slots(entries, h, n)) <= Cardinality(slots(entries', h, n))
               /\ Cardinality(allSlots(entries, h)) <= Cardinality(allSlots(entries', h))
    <3>1. /\ slots(entries, h, n) \in SUBSET slots(entries', h, n)
          /\ allSlots(entries, h) \in SUBSET allSlots(entries', h)
      BY <2>1 DEF slots, allSlots
    <3>2. IsFiniteSet(slots(entries', h, n)) /\ IsFiniteSet(allSlots(entries', h))
      BY <1>0, <2>1, FiniteCounts
    <3> QED  BY <3>1, <3>2, FS_Subset
  <2>3. \A h \in Handlers : \A n, p :
          /\ Cardinality(given(delivered, h, p)) \in Nat
          /\ Cardinality(slots(entries, h, n)) \in Nat /\ Cardinality(slots(entries', h, n)) \in Nat
          /\ Cardinality(allSlots(entries, h)) \in Nat /\ Cardinality(allSlots(entries', h)) \in Nat
    BY <1>0, <2>1, FiniteCounts
  <2>4. UNCHANGED <<pc, proof, position>>
    BY <1>7 DEF Subscriptions
  <2>5. ASSUME NEW c \in Callers, NEW h \in Handlers, pc[c] = "handling"
        PROVE  Cardinality(given(delivered, h, proof[c])) <= Cardinality(slots(entries', h, position[c]))
    <3>1. Cardinality(given(delivered, h, proof[c])) <= Cardinality(slots(entries, h, position[c]))
      BY <2>5 DEF OnceInv
    <3> QED  BY <2>2, <2>3, <3>1
  <2>6. ASSUME NEW h \in Handlers, NEW p \in Proof
        PROVE  Cardinality(given(delivered, h, p)) <= Cardinality(allSlots(entries', h))
    <3>1. Cardinality(given(delivered, h, p)) <= Cardinality(allSlots(entries, h))
      BY DEF OnceInv
    <3> QED  BY <2>2, <2>3, <3>1
  <2> QED  BY <2>1, <2>4, <2>5, <2>6 DEF OnceInv
<1>8. CASE UNCHANGED vars
  BY <1>1, <1>8 DEF vars, dispatcher
<1> QED
  BY <1>2, <1>3, <1>4, <1>5, <1>6, <1>7, <1>8
     DEF Next, Call, Step, HandlerThrows, LogGenerated, saveCertificate, Fail, dispatcher

(* A handler is called for an event at most as often as it has subscribed: *)
(* the iterator never comes back to an entry.                              *)
THEOREM CalledOncePerSubscription == Spec => []OncePerSubscription
<1>1. Init => OnceInv
  <2> SUFFICES ASSUME Init PROVE OnceInv
    OBVIOUS
  <2>1. Cardinality({}) = 0
    BY FS_EmptySet
  <2>2. \A h \in Handlers : \A p : given(delivered, h, p) = {}
    BY DEF Init, DispatcherInit, given
  <2>3. \A h \in Handlers : allSlots(entries, h) = {}
    BY DEF Init, DispatcherInit, allSlots
  <2>4. \A h \in Handlers : DOMAIN delivered[h] = {}
    BY DEF Init, DispatcherInit
  <2>5. \A c \in Callers : pc[c] = "idle"
    BY DEF Init
  <2> QED  BY <2>1, <2>2, <2>3, <2>4, <2>5 DEF OnceInv
<1>2. OnceInv => OncePerSubscription
  BY DEF OnceInv, OncePerSubscription, given, allSlots
<1> QED
  BY <1>1, <1>2, TypeInit, TypeNext, EvidenceInit, EvidenceNext, OnceNext, PTL DEF Spec
===================================================================================
