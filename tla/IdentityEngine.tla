------------------------------ MODULE IdentityEngine ------------------------------
(***************************************************************************)
(* services/identity/src/engine.ts over the identity and audit             *)
(* repositories.                                                           *)
(*                                                                         *)
(*   verifyIdentity   profile? | INSERT it | profile? | status |           *)
(*                    verification record | audit row, answer              *)
(*                                                                         *)
(* A profile exists once for an organization and a user, and keeps the     *)
(* level it was created with.                                              *)
(***************************************************************************)
EXTENDS OrganizationEngine, Naturals

CONSTANT Levels \* the KYC levels asked for

VARIABLES profiles,     \* profiles[k]: the profile [level, status] of k, or None
          records,      \* verification_records: [key, level]
          verifiedAudit,\* IDENTITY_VERIFIED rows: [key, score, trust]
          answers       \* what verifyIdentity has returned: likewise

identityTables == <<profiles, records, verifiedAudit, answers>>

Keys    == Organizations \X Users
Profile == [level : Levels, status : {"UNVERIFIED", "VERIFIED"}]

ASSUME IdentityAssumption == None \notin Profile

-----------------------------------------------------------------------------------
(* KYC_SCORE_MAP[level] ?? 30                                              *)
score(level) == CASE level = "LEVEL_1"       -> 40
                  [] level = "LEVEL_2"       -> 65
                  [] level = "LEVEL_3"       -> 85
                  [] level = "INSTITUTIONAL" -> 100
                  [] OTHER                   -> 30

scoreToLevel(points) == CASE points >= 100                 -> "INSTITUTIONAL"
                          [] points >= 80 /\ points < 100  -> "HIGH"
                          [] points >= 60 /\ points < 80   -> "MEDIUM"
                          [] points >= 30 /\ points < 60   -> "LOW"
                          [] points < 30                   -> "UNVERIFIED"

result(r) == [key |-> r.key, score |-> score(r.level), trust |-> scoreToLevel(score(r.level))]

calculateTrustScore(k) ==
  IF profiles[k] # None /\ profiles[k].status = "VERIFIED" THEN score(profiles[k].level) ELSE 0

-----------------------------------------------------------------------------------
IdentityInit == /\ profiles = [k \in Keys |-> None]
                /\ records = {} /\ verifiedAudit = {} /\ answers = {}

(* verifyIdentity: the profile is looked for.                              *)
verifyIdentity(c, k, level) ==
  /\ Begin(c, IF profiles[k] = None THEN "create" ELSE "status", [key |-> k, level |-> level])
  /\ UNCHANGED identityTables

(* Slip: a refused INSERT is taken for a profile that is there already.    *)
createProfileIgnored(c) ==
  LET k == req[c].key
  IN  /\ Goto(c, "create", "refetch")
      /\ profiles' = IF k[1] \in organizations /\ profiles[k] = None
                     THEN [profiles EXCEPT ![k] = [level |-> req[c].level, status |-> "UNVERIFIED"]]
                     ELSE profiles
      /\ UNCHANGED <<records, verifiedAudit, answers>>

(* Refused if the organization is missing, or another call was faster.     *)
createProfile(c) ==
  LET k == req[c].key
  IN  /\ \/ /\ Goto(c, "create", "refetch")
            /\ k[1] \in organizations /\ profiles[k] = None
            /\ profiles' = [profiles EXCEPT ![k] =
                              [level |-> req[c].level, status |-> "UNVERIFIED"]]
         \/ /\ Return(c, "create")
            /\ k[1] \notin organizations \/ profiles[k] # None
            /\ UNCHANGED profiles
      /\ UNCHANGED <<records, verifiedAudit, answers>>

(* The new profile is read back; no code deletes one in between.           *)
Refetch(c) ==
  /\ Goto(c, "refetch", "status")
  /\ profiles[req[c].key] # None
  /\ UNCHANGED identityTables

(* Slip: the verification is not recorded.                                 *)
updateProfileStatusOnly(c) ==
  /\ Goto(c, "status", "logVerified")
  /\ profiles' = [profiles EXCEPT ![req[c].key].status = "VERIFIED"]
  /\ UNCHANGED <<records, verifiedAudit, answers>>

updateProfileStatus(c) ==
  /\ Goto(c, "status", "record")
  /\ profiles' = [profiles EXCEPT ![req[c].key].status = "VERIFIED"]
  /\ UNCHANGED <<records, verifiedAudit, answers>>

(* One transaction inserts the record and sets the status again.           *)
addVerificationRecord(c) ==
  /\ Goto(c, "record", "logVerified")
  /\ records'  = records \cup {req[c]}
  /\ profiles' = [profiles EXCEPT ![req[c].key].status = "VERIFIED"]
  /\ UNCHANGED <<verifiedAudit, answers>>

LogVerified(c) ==
  /\ Return(c, "logVerified")
  /\ verifiedAudit' = verifiedAudit \cup {result(req[c])}
  /\ answers'       = answers \cup {result(req[c])}
  /\ UNCHANGED <<profiles, records>>

IdentityStep(c) == \/ createProfile(c) \/ Refetch(c) \/ updateProfileStatus(c)
                   \/ addVerificationRecord(c) \/ LogVerified(c)
===================================================================================
