----------------------------- MODULE OnboardingProofs -----------------------------
(***************************************************************************)
(* Proofs about Onboarding, for any number of calls, organizations, users, *)
(* roles and levels.                                                       *)
(***************************************************************************)
EXTENDS Onboarding, TLAPS

(* The steps of one call, by engine.                                       *)
MemberAction(c) ==
  /\ \/ createOrganization(c) \/ LogCreated(c)
     \/ \E m \in Member : inviteMember(c, m) \/ assignRole(c, m)
     \/ Invite(c) \/ LogInvited(c) \/ Assign(c)
  /\ UNCHANGED identityTables

VerifyAction(c) ==
  /\ \/ \E k \in Keys, level \in Levels : verifyIdentity(c, k, level)
     \/ createProfile(c) \/ Refetch(c) \/ updateProfileStatus(c)
     \/ addVerificationRecord(c) \/ LogVerified(c)
  /\ UNCHANGED organizationTables

LEMMA NextSplits ==
  ASSUME [Next]_vars
  PROVE  \/ \E c \in Callers : MemberAction(c) \/ VerifyAction(c) \/ Fail(c)
         \/ UNCHANGED vars
BY DEF Next, OrganizationCall, OrganizationStep, IdentityStep, MemberAction, VerifyAction

LEMMA TypeInit == Init => TypeOK
BY DEF Init, CallsInit, OrganizationInit, IdentityInit, TypeOK, MemberSteps, VerifySteps, FoundSteps

LEMMA MemberType ==
  ASSUME TypeOK, NEW c \in Callers, MemberAction(c)
  PROVE  TypeOK'
<1> USE DEF TypeOK, identityTables, organizationTables, Begin, Goto, Return
<1>1. CASE createOrganization(c)
  BY <1>1 DEF MemberAction, createOrganization, MemberSteps, VerifySteps, FoundSteps
<1>2. CASE LogCreated(c)
  <2>1. [event |-> "ORG_CREATED", org |-> req[c].org] \in Created
    BY <1>2 DEF LogCreated, Created
  <2> QED
    BY <1>2, <2>1 DEF MemberAction, LogCreated, MemberSteps, VerifySteps, FoundSteps
<1>3. ASSUME NEW m \in Member, inviteMember(c, m) \/ assignRole(c, m) PROVE TypeOK'
  BY <1>3 DEF MemberAction, inviteMember, assignRole, MemberSteps, VerifySteps, FoundSteps
<1>4. CASE Invite(c)
  BY <1>4 DEF MemberAction, Invite, addMember, MemberSteps, VerifySteps, FoundSteps
<1>5. CASE LogInvited(c)
  <2>1. [event |-> "MEMBER_INVITED", member |-> req[c]] \in Invited
    BY <1>5 DEF LogInvited, Invited, MemberSteps
  <2> QED
    BY <1>5, <2>1 DEF MemberAction, LogInvited, MemberSteps, VerifySteps, FoundSteps
<1>6. CASE Assign(c)
  BY <1>6 DEF MemberAction, Assign, addMember, MemberSteps, VerifySteps, FoundSteps
<1> QED
  BY <1>1, <1>2, <1>3, <1>4, <1>5, <1>6 DEF MemberAction

(* Setting the status of a profile that exists sets nothing else.          *)
VerifiedIn(table, k) ==
  /\ table \in [Keys -> Profile \cup {None}]
  /\ table[k] = [level |-> profiles[k].level, status |-> "VERIFIED"]
  /\ table[k] # None
  /\ \A j \in Keys \ {k} : table[j] = profiles[j]

LEMMA SetVerified ==
  ASSUME TypeOK, NEW k \in Keys, profiles[k] # None
  PROVE  /\ profiles[k] \in Profile
         /\ VerifiedIn([profiles EXCEPT ![k].status = "VERIFIED"], k)
<1>1. profiles[k] \in Profile
  BY DEF TypeOK
<1>2. [profiles[k] EXCEPT !.status = "VERIFIED"] =
        [level |-> profiles[k].level, status |-> "VERIFIED"]
  BY <1>1 DEF Profile
<1>3. [level |-> profiles[k].level, status |-> "VERIFIED"] \in Profile
  BY <1>1 DEF Profile
<1> QED
  BY <1>1, <1>2, <1>3, IdentityAssumption DEF VerifiedIn, TypeOK

LEMMA VerifyType ==
  ASSUME TypeOK, NEW c \in Callers, VerifyAction(c)
  PROVE  TypeOK'
<1> USE DEF TypeOK, identityTables, organizationTables, Begin, Goto, Return, Profile
<1>1. ASSUME NEW k \in Keys, NEW level \in Levels, verifyIdentity(c, k, level) PROVE TypeOK'
  BY <1>1 DEF VerifyAction, verifyIdentity, Verification, MemberSteps, VerifySteps, FoundSteps
<1>2. CASE createProfile(c)
  <2>1. [level |-> req[c].level, status |-> "UNVERIFIED"] \in Profile \ {None}
    BY <1>2, IdentityAssumption DEF createProfile, Verification, VerifySteps
  <2>2. profiles' \in [Keys -> Profile \cup {None}]
    BY <1>2, <2>1 DEF createProfile
  <2>3. \A k \in Keys : profiles[k] # None => profiles'[k] # None
    BY <1>2, <2>1 DEF createProfile
  <2>4. CASE profiles[req[c].key] = None /\ req[c].key[1] \in organizations
    <3>1. pc[c] = "create" /\ req[c].key \in Keys
      BY <1>2 DEF createProfile, Verification, VerifySteps
    <3>2. profiles'[req[c].key] # None
      BY <1>2, <2>1, <2>4, <3>1 DEF createProfile
    <3> QED
      BY <1>2, <2>2, <2>3, <2>4, <3>1, <3>2
      DEF VerifyAction, createProfile, Verification, MemberSteps, VerifySteps, FoundSteps
  <2>5. CASE ~(profiles[req[c].key] = None /\ req[c].key[1] \in organizations)
    BY <1>2, <2>5 DEF VerifyAction, createProfile, MemberSteps, VerifySteps, FoundSteps
  <2> QED
    BY <2>4, <2>5
<1>3. CASE Refetch(c)
  BY <1>3 DEF VerifyAction, Refetch, MemberSteps, VerifySteps, FoundSteps
<1>4. CASE updateProfileStatus(c)
  <2>1. VerifiedIn(profiles', req[c].key)
    BY <1>4, SetVerified DEF updateProfileStatus, VerifySteps, FoundSteps, Verification
  <2>2. \A k \in Keys : profiles[k] # None => profiles'[k] # None
    BY <2>1 DEF VerifiedIn
  <2> QED
    BY <1>4, <2>1, <2>2 DEF VerifyAction, updateProfileStatus, VerifiedIn,
       Verification, MemberSteps, VerifySteps, FoundSteps
<1>5. CASE addVerificationRecord(c)
  <2>1. VerifiedIn(profiles', req[c].key)
    BY <1>5, SetVerified DEF addVerificationRecord, VerifySteps, FoundSteps, Verification
  <2>2. \A k \in Keys : profiles[k] # None => profiles'[k] # None
    BY <2>1 DEF VerifiedIn
  <2> QED
    BY <1>5, <2>1, <2>2 DEF VerifyAction, addVerificationRecord, VerifiedIn,
       Verification, MemberSteps, VerifySteps, FoundSteps
<1>6. CASE LogVerified(c)
  <2>1. result(req[c]) \in Result
    BY <1>6 DEF LogVerified, Result, VerifySteps, FoundSteps
  <2> QED
    BY <1>6, <2>1 DEF VerifyAction, LogVerified, MemberSteps, VerifySteps, FoundSteps
<1> QED
  BY <1>1, <1>2, <1>3, <1>4, <1>5, <1>6 DEF VerifyAction

LEMMA TypeNext == TypeOK /\ [Next]_vars => TypeOK'
<1> SUFFICES ASSUME TypeOK, [Next]_vars PROVE TypeOK'
  OBVIOUS
<1>1. ASSUME NEW c \in Callers, Fail(c) PROVE TypeOK'
  BY <1>1 DEF Fail, Return, TypeOK, organizationTables, identityTables, MemberSteps, VerifySteps, FoundSteps
<1>2. CASE UNCHANGED vars
  BY <1>2 DEF vars, calls, TypeOK, organizationTables, identityTables
<1> QED
  BY <1>1, <1>2, NextSplits, MemberType, VerifyType

(* The variables keep their types, and a profile that a call has found or  *)
(* created is there until the call ends.                                   *)
THEOREM TypeCorrect == Spec => []TypeOK
BY TypeInit, TypeNext, PTL DEF Spec

-----------------------------------------------------------------------------------
(* No step removes a profile, changes its level or takes VERIFIED back, or *)
(* creates one in an organization that does not exist.                     *)
ProfilesStay ==
  \A k \in Keys :
    /\ profiles[k] # None => /\ profiles'[k] # None
                             /\ profiles'[k].level = profiles[k].level
                             /\ profiles[k].status = "VERIFIED" => profiles'[k].status = "VERIFIED"
    /\ profiles[k] = None /\ profiles'[k] # None => k[1] \in organizations

LEMMA ProfilesKept == TypeOK /\ [Next]_vars => ProfilesStay
<1> SUFFICES ASSUME TypeOK, [Next]_vars PROVE ProfilesStay
  OBVIOUS
<1>0. profiles' = profiles => ProfilesStay
  BY DEF ProfilesStay
<1>1. ASSUME NEW c \in Callers, VerifyAction(c) PROVE ProfilesStay
  <2> USE DEF identityTables
  <2>1. CASE createProfile(c)
    <3>1. req[c].key \in Keys
      BY <2>1 DEF createProfile, TypeOK, Goto, Return, Verification, VerifySteps
    <3> QED
      BY <2>1, <3>1, <1>0 DEF createProfile, TypeOK, ProfilesStay
  <2>2. ASSUME updateProfileStatus(c) \/ addVerificationRecord(c) PROVE ProfilesStay
    <3>1. req[c].key \in Keys /\ profiles[req[c].key] # None
      BY <2>2 DEF updateProfileStatus, addVerificationRecord, Goto, TypeOK,
         Verification, VerifySteps, FoundSteps
    <3>2. VerifiedIn(profiles', req[c].key)
      BY <2>2, <3>1, SetVerified DEF updateProfileStatus, addVerificationRecord
    <3> QED
      BY <3>1, <3>2 DEF VerifiedIn, ProfilesStay
  <2> QED
    BY <1>0, <1>1, <2>1, <2>2 DEF VerifyAction, verifyIdentity, Refetch, LogVerified
<1>2. ASSUME NEW c \in Callers, MemberAction(c) \/ Fail(c) \/ UNCHANGED vars
      PROVE  profiles' = profiles
  BY <1>2 DEF MemberAction, Fail, vars, identityTables
<1>3. CASE UNCHANGED vars
  BY <1>0, <1>3 DEF vars, identityTables
<1> QED
  BY <1>0, <1>1, <1>2, <1>3, NextSplits

(* What follows from that: the trust score of a user, once it is not zero, *)
(* never changes again, whatever verifications at other levels answer.     *)
TrustScoreFinal ==
  [][\A k \in Keys : calculateTrustScore(k) # 0 => calculateTrustScore(k)' = calculateTrustScore(k)]_vars

ScoresStay == \A k \in Keys :
  calculateTrustScore(k) # 0 => calculateTrustScore(k)' = calculateTrustScore(k)

(* verifyIdentity updates the status of a profile and never its kycLevel,  *)
(* so that no later verification can raise, or lower, the trust score.     *)
THEOREM TrustScoreNeverChanges == Spec => TrustScoreFinal
<1>1. TypeOK /\ [Next]_vars => ScoresStay
  BY ProfilesKept DEF ProfilesStay, ScoresStay, calculateTrustScore
<1>2. TypeOK /\ [Next]_vars => [ScoresStay]_vars
  BY <1>1
<1>3. Spec => [][ScoresStay]_vars
  BY <1>2, TypeCorrect, PTL DEF Spec
<1> QED
  BY <1>3 DEF TrustScoreFinal, ScoresStay

-----------------------------------------------------------------------------------
(* Profiles belong to organizations that exist, and what is logged has     *)
(* been recorded.                                                          *)
ProfilesPlaced == \A k \in Keys : profiles[k] # None => k[1] \in organizations
RecordedFirst  == \A c \in Callers : pc[c] = "logVerified" => req[c] \in records

RecordInv == ProfilesPlaced /\ RecordedFirst /\ VerificationsRecorded

(* Profiles that stay, in organizations that stay, keep records truthful.  *)
LEMMA RecordsQuiet ==
  ASSUME TypeOK, RecordInv, ProfilesStay, organizations \subseteq organizations',
         UNCHANGED <<records, verifiedAudit, answers>>
  PROVE  ProfilesPlaced' /\ VerificationsRecorded'
<1>1. ProfilesPlaced'
  BY DEF ProfilesStay, RecordInv, ProfilesPlaced
<1>2. VerificationsRecorded'
  BY DEF ProfilesStay, RecordInv, VerificationsRecorded, TypeOK, Verification
<1> QED
  BY <1>1, <1>2

LEMMA RecordNext == TypeOK /\ RecordInv /\ [Next]_vars => RecordInv'
<1> SUFFICES ASSUME TypeOK, RecordInv, [Next]_vars PROVE RecordInv'
  OBVIOUS
<1>0. ProfilesStay
  BY ProfilesKept
<1> USE DEF organizationTables, identityTables, Begin, Goto, Return
<1>1. ASSUME NEW c \in Callers, MemberAction(c) PROVE RecordInv'
  <2>1. organizations \subseteq organizations' /\ UNCHANGED <<records, verifiedAudit, answers>>
    BY <1>1 DEF MemberAction, createOrganization, LogCreated, inviteMember, assignRole,
       Invite, LogInvited, Assign
  <2>2. RecordedFirst'
    BY <1>1 DEF MemberAction, createOrganization, LogCreated, inviteMember, assignRole,
       Invite, LogInvited, Assign, RecordInv, RecordedFirst, TypeOK
  <2> QED
    BY <1>0, <2>1, <2>2, RecordsQuiet DEF RecordInv
<1>2. ASSUME NEW c \in Callers, VerifyAction(c), UNCHANGED <<records, verifiedAudit, answers>>,
             \/ \E k \in Keys, level \in Levels : verifyIdentity(c, k, level)
             \/ createProfile(c) \/ Refetch(c) \/ updateProfileStatus(c)
      PROVE  RecordInv'
  <2>1. RecordedFirst'
    BY <1>2 DEF verifyIdentity, createProfile, Refetch, updateProfileStatus,
       RecordInv, RecordedFirst, TypeOK
  <2> QED
    BY <1>0, <1>2, <2>1, RecordsQuiet DEF RecordInv, VerifyAction
<1>3. ASSUME NEW c \in Callers, VerifyAction(c), addVerificationRecord(c) PROVE RecordInv'
  <2>1. req[c] \in Verification /\ profiles[req[c].key] # None
    BY <1>3 DEF addVerificationRecord, TypeOK, VerifySteps, FoundSteps
  <2>2. req[c].key \in Keys
    BY <2>1 DEF Verification
  <2>3. profiles'[req[c].key] # None /\ profiles'[req[c].key].status = "VERIFIED"
    <3>1. VerifiedIn(profiles', req[c].key)
      BY <1>3, <2>1, <2>2, SetVerified DEF addVerificationRecord
    <3> QED
      BY <3>1 DEF VerifiedIn
  <2>4. ProfilesPlaced' /\ RecordedFirst'
    BY <1>0, <1>3 DEF VerifyAction, addVerificationRecord, RecordInv, RecordedFirst,
       ProfilesPlaced, ProfilesStay, TypeOK
  <2>5. \A r \in records' : /\ profiles'[r.key] # None /\ profiles'[r.key].status = "VERIFIED"
                            /\ r.key[1] \in organizations'
    <3>1. records' = records \cup {req[c]} /\ organizations' = organizations
      BY <1>3 DEF VerifyAction, addVerificationRecord
    <3>2. ASSUME NEW r \in records
          PROVE  /\ profiles'[r.key] # None /\ profiles'[r.key].status = "VERIFIED"
                 /\ r.key[1] \in organizations
      <4>1. r.key \in Keys
        BY DEF TypeOK, Verification
      <4> QED
        BY <1>0, <4>1 DEF RecordInv, VerificationsRecorded, ProfilesStay
    <3>3. req[c].key[1] \in organizations
      BY <2>1, <2>2 DEF RecordInv, ProfilesPlaced
    <3> QED
      BY <2>3, <3>1, <3>2, <3>3
  <2>6. VerificationsRecorded'
    BY <1>3, <2>5 DEF addVerificationRecord, RecordInv, VerificationsRecorded, result
  <2> QED
    BY <2>4, <2>6 DEF RecordInv
<1>4. ASSUME NEW c \in Callers, VerifyAction(c), LogVerified(c) PROVE RecordInv'
  <2>1. req[c] \in records
    BY <1>4 DEF LogVerified, RecordInv, RecordedFirst
  <2>2. ProfilesPlaced' /\ RecordedFirst'
    BY <1>4 DEF VerifyAction, LogVerified, RecordInv, RecordedFirst, ProfilesPlaced, TypeOK
  <2>3. VerificationsRecorded'
    BY <1>4, <2>1 DEF VerifyAction, LogVerified, RecordInv, VerificationsRecorded, result
  <2> QED
    BY <2>2, <2>3 DEF RecordInv
<1>5. ASSUME NEW c \in Callers, Fail(c) PROVE RecordInv'
  <2>1. RecordedFirst'
    BY <1>5 DEF Fail, RecordInv, RecordedFirst, TypeOK
  <2> QED
    BY <1>0, <1>5, <2>1, RecordsQuiet DEF RecordInv, Fail
<1>6. CASE UNCHANGED vars
  <2>1. RecordedFirst'
    BY <1>6 DEF vars, calls, RecordInv, RecordedFirst
  <2> QED
    BY <1>0, <1>6, <2>1, RecordsQuiet DEF RecordInv, vars
<1>7. ASSUME NEW c \in Callers, VerifyAction(c) PROVE RecordInv'
  BY <1>2, <1>3, <1>4, <1>7 DEF VerifyAction, verifyIdentity, createProfile, Refetch,
     updateProfileStatus
<1> QED
  BY <1>1, <1>5, <1>6, <1>7, NextSplits

(* What verifyIdentity answered has its audit row, its verification record *)
(* and its VERIFIED profile, however calls race and fail.                  *)
THEOREM VerificationsOnRecord == Spec => []VerificationsRecorded
<1>1. Init => RecordInv
  BY DEF Init, CallsInit, IdentityInit, RecordInv, ProfilesPlaced, RecordedFirst,
     VerificationsRecorded
<1>2. RecordInv => VerificationsRecorded
  BY DEF RecordInv
<1> QED
  BY <1>1, <1>2, RecordNext, TypeCorrect, PTL DEF Spec

-----------------------------------------------------------------------------------
(* A member is one of its organization once, and an invitation that is     *)
(* being logged or was logged has added its member.                        *)
OneMembership == \A m, n \in members : m.org = n.org /\ m.user = n.user => m = n
InvitedFirst  == \A c \in Callers : pc[c] = "logInvited" => req[c] \in members

MemberInv == OneMembership /\ InvitedFirst /\ InvitationsTruthful

(* addMember keeps memberships unique: the constraint of the table.        *)
LEMMA AddMemberUnique ==
  ASSUME OneMembership, NEW m, addMember(m)
  PROVE  OneMembership' /\ members \subseteq members' /\ m \in members'
BY DEF addMember, insertable, OneMembership

LEMMA MemberNext == TypeOK /\ MemberInv /\ [Next]_vars => MemberInv' /\ members \subseteq members'
<1> SUFFICES ASSUME TypeOK, MemberInv, [Next]_vars
             PROVE  MemberInv' /\ members \subseteq members'
  OBVIOUS
<1> USE DEF organizationTables, identityTables, Begin, Goto, Return
<1>1. ASSUME UNCHANGED members PROVE OneMembership' /\ members \subseteq members'
  BY <1>1 DEF MemberInv, OneMembership
<1>2. ASSUME NEW c \in Callers, Invite(c) \/ Assign(c) PROVE MemberInv' /\ members \subseteq members'
  <2>1. OneMembership' /\ members \subseteq members'
    BY <1>1, <1>2, AddMemberUnique DEF Invite, Assign, MemberInv
  <2>2. orgAudit' = orgAudit
    BY <1>2 DEF Invite, Assign
  <2>3. InvitationsTruthful'
    BY <2>1, <2>2 DEF MemberInv, InvitationsTruthful
  <2>4. InvitedFirst'
    <3> SUFFICES ASSUME NEW d \in Callers, pc'[d] = "logInvited" PROVE req'[d] \in members'
      BY DEF InvitedFirst
    <3>1. CASE d = c
      BY <1>2, <3>1, AddMemberUnique DEF Invite, Assign, TypeOK, MemberInv
    <3>2. CASE d # c
      BY <1>2, <2>1, <3>2 DEF Invite, Assign, TypeOK, MemberInv, InvitedFirst
    <3> QED
      BY <3>1, <3>2
  <2> QED
    BY <2>1, <2>3, <2>4 DEF MemberInv
<1>3. ASSUME NEW c \in Callers, LogInvited(c) PROVE MemberInv' /\ members \subseteq members'
  <2>1. req[c] \in members
    BY <1>3 DEF LogInvited, MemberInv, InvitedFirst
  <2>2. InvitationsTruthful'
    BY <1>3, <2>1 DEF LogInvited, MemberInv, InvitationsTruthful
  <2>3. InvitedFirst'
    BY <1>3 DEF LogInvited, MemberInv, InvitedFirst, TypeOK
  <2> QED
    BY <1>1, <1>3, <2>2, <2>3 DEF LogInvited, MemberInv
<1>4. ASSUME NEW c \in Callers, UNCHANGED members,
             MemberAction(c) \/ VerifyAction(c) \/ Fail(c), ~LogInvited(c), ~Invite(c), ~Assign(c)
      PROVE  MemberInv' /\ members \subseteq members'
  <2>1. InvitedFirst'
    BY <1>4 DEF MemberAction, createOrganization, LogCreated, inviteMember, assignRole,
       VerifyAction, verifyIdentity, createProfile, Refetch, updateProfileStatus,
       addVerificationRecord, LogVerified, Fail, MemberInv, InvitedFirst, TypeOK
  <2>2. InvitationsTruthful'
    <3>1. CASE LogCreated(c)
      BY <1>4, <3>1 DEF LogCreated, MemberInv, InvitationsTruthful
    <3>2. CASE ~LogCreated(c)
      BY <1>4, <3>2 DEF MemberAction, createOrganization, inviteMember, assignRole,
         VerifyAction, Fail, MemberInv, InvitationsTruthful
    <3> QED
      BY <3>1, <3>2
  <2> QED
    BY <1>1, <1>4, <2>1, <2>2 DEF MemberInv
<1>5. CASE UNCHANGED vars
  BY <1>5 DEF vars, calls, MemberInv, OneMembership, InvitedFirst, InvitationsTruthful
<1>6. ASSUME NEW c \in Callers, MemberAction(c) \/ VerifyAction(c) \/ Fail(c)
      PROVE  MemberInv' /\ members \subseteq members'
  BY <1>2, <1>3, <1>4, <1>6 DEF MemberAction, createOrganization, LogCreated, inviteMember,
     assignRole, LogInvited, VerifyAction, Fail
<1> QED
  BY <1>5, <1>6, NextSplits

LEMMA MemberInit == Init => MemberInv
BY DEF Init, CallsInit, OrganizationInit, MemberInv, OneMembership, InvitedFirst,
   InvitationsTruthful

(* Every MEMBER_INVITED row names a member and the role that member has.   *)
THEOREM InvitationsHold == Spec => []InvitationsTruthful
<1>1. MemberInv => InvitationsTruthful
  BY DEF MemberInv
<1> QED
  BY <1>1, MemberInit, MemberNext, TypeCorrect, PTL DEF Spec

(* A user is a member of an organization once, and keeps the role he came  *)
(* with.                                                                   *)
RolesFinal ==
  [][/\ members \subseteq members'
     /\ \A m, n \in members' : m.org = n.org /\ m.user = n.user => m = n]_vars

MembersStay == /\ members \subseteq members'
               /\ \A m, n \in members' : m.org = n.org /\ m.user = n.user => m = n

(* No member leaves or changes role: what docs/domain-services.md:102      *)
(* says of assignRole, "Re-assigns a member's role", never happens.        *)
THEOREM RolesNeverChange == Spec => RolesFinal
<1>1. TypeOK /\ MemberInv /\ [Next]_vars => MemberInv' /\ [MembersStay]_vars
  BY MemberNext DEF MemberInv, OneMembership, MembersStay
<1>2. Spec => [][MembersStay]_vars
  BY <1>1, MemberInit, TypeCorrect, PTL DEF Spec
<1> QED
  BY <1>2 DEF RolesFinal, MembersStay
===================================================================================
