-------------------------------- MODULE Onboarding --------------------------------
(***************************************************************************)
(* OrganizationEngine and IdentityEngine on one database: calls of both    *)
(* engines run at the same time and may fail at any step.                  *)
(***************************************************************************)
EXTENDS IdentityEngine

vars == <<calls, organizationTables, identityTables>>

Init == CallsInit /\ OrganizationInit /\ IdentityInit

(* A database call fails and the call throws: what was committed stays.    *)
Fail(c) == /\ Faults
           /\ pc[c] # "idle"
           /\ Return(c, pc[c])
           /\ UNCHANGED <<organizationTables, identityTables>>

Next == \E c \in Callers :
  \/ (OrganizationCall(c) \/ OrganizationStep(c)) /\ UNCHANGED identityTables
  \/ /\ (\E k \in Keys, level \in Levels : verifyIdentity(c, k, level)) \/ IdentityStep(c)
     /\ UNCHANGED organizationTables
  \/ Fail(c)

Spec == Init /\ [][Next]_vars

-----------------------------------------------------------------------------------
Verification == [key : Keys, level : Levels]
Result       == { result(r) : r \in Verification }
MemberSteps  == {"invite", "logInvited", "assign"}
FoundSteps   == {"refetch", "status", "record", "logVerified"}
VerifySteps  == FoundSteps \cup {"create"}

(* The variables have their types, and a call holds the arguments its step *)
(* needs.                                                                  *)
TypeOK ==
  /\ organizations \subseteq Organizations /\ members \subseteq Member
  /\ orgAudit \subseteq Created \cup Invited
  /\ profiles \in [Keys -> Profile \cup {None}]
  /\ records \subseteq Verification /\ verifiedAudit \subseteq Result /\ answers \subseteq Result
  /\ pc \in [Callers -> {"idle", "logCreated"} \cup MemberSteps \cup VerifySteps]
  /\ DOMAIN req = Callers
  /\ \A c \in Callers : /\ pc[c] = "logCreated" => req[c] \in [org : Organizations]
                        /\ pc[c] \in MemberSteps => req[c] \in Member
                        /\ pc[c] \in VerifySteps => req[c] \in Verification
                        /\ pc[c] \in FoundSteps => profiles[req[c].key] # None

(* What verifyIdentity answers is on record by then: its audit row, its    *)
(* verification record, and a profile that is VERIFIED in an organization  *)
(* that exists, whatever calls raced with it or failed.                    *)
VerificationsRecorded ==
  /\ answers \subseteq verifiedAudit
  /\ \A a \in verifiedAudit : \E r \in records : result(r) = a
  /\ \A r \in records : /\ profiles[r.key] # None /\ profiles[r.key].status = "VERIFIED"
                        /\ r.key[1] \in organizations

(* "Creates/updates identity profile, computes trust score"                *)
(* (docs/domain-services.md:73): the score that verifyIdentity answers is  *)
(* the one that calculateTrustScore computes from the profile then.        *)
TrustScoreAsAnswered ==
  [][\A a \in answers' \ answers : calculateTrustScore(a.key)' = a.score]_vars

(* A MEMBER_INVITED row tells of a member who has the role it names, also  *)
(* when two calls add the same user with different roles.                  *)
InvitationsTruthful ==
  \A m \in Member : [event |-> "MEMBER_INVITED", member |-> m] \in orgAudit => m \in members
===================================================================================
