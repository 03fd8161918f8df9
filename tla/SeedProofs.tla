-------------------------------- MODULE SeedProofs --------------------------------
(***************************************************************************)
(* Proofs about Seed, for any number of runs of the script, of calls, of   *)
(* organizations, users, roles and levels.                                 *)
(***************************************************************************)
EXTENDS Seed, OnboardingProofs

RunAction(s) == StartSeed(s) \/ SeedRow(s) \/ SeedOrganization(s) \/ SeedMember(s)
                \/ SeedProfile(s) \/ SeedFails(s)

LEMMA SeededNextSplits ==
  ASSUME [SeededNext]_<<vars, seed>>
  PROVE  \/ Next /\ UNCHANGED seed
         \/ \E s \in SeedRuns : RunAction(s) /\ UNCHANGED <<calls, records, verifiedAudit, answers>>
         \/ upsertCountryPolicy /\ UNCHANGED <<vars, seedAt, seedOrg>>
         \/ UNCHANGED <<vars, seed>>
BY DEF SeededNext, SeedNext, RunAction

(* Where the statements stand in the script.                               *)
LEMMA ScriptIs ==
  /\ Len(Script) = 13 /\ DOMAIN Script = 1..13
  /\ Script[1] = "roles" /\ Script[2] = "organization" /\ Script[3] = "user"
  /\ Script[4] = "member" /\ Script[13] = "identityProfile"
  /\ \A i \in 5..12 : Script[i] \notin EngineTables \cup {"user", "roles"}
  /\ \A i \in 1..13 : Script[i] \in EngineTables => i \in {2, 4, 13}
  /\ \A i \in 1..4 : i # 2 => (Script[i] \in GlobalTables <=> i # 4)
BY DEF Script, EngineTables, GlobalTables

LEMMA Places ==
  ASSUME NEW s \in SeedRuns, SeededTypeOK
  PROVE  /\ at(s, "organization") => seedAt[s] = 2
         /\ at(s, "member") => seedAt[s] = 4
         /\ at(s, "identityProfile") => seedAt[s] = 13
BY ScriptIs DEF at, EngineTables

(* What a statement that succeeds does to the place of its run.            *)
LEMMA Proceeds ==
  ASSUME NEW s \in SeedRuns, SeededTypeOK, Proceed(s)
  PROVE  /\ seedAt' \in [SeedRuns -> 0..13]
         /\ \A t \in SeedRuns \ {s} : seedAt'[t] = seedAt[t]
         /\ seedAt[s] < 13 => seedAt'[s] = seedAt[s] + 1
         /\ seedAt[s] = 13 => seedAt'[s] = 0
<1>1. Len(Script) = 13
  BY ScriptIs
<1>2. seedAt[s] \in 0..13 /\ seedAt \in [SeedRuns -> 0..13]
  BY <1>1 DEF SeededTypeOK
<1>3. (seedAt[s] + 1) % (Len(Script) + 1) = IF seedAt[s] = 13 THEN 0 ELSE seedAt[s] + 1
  <2>1. Len(Script) + 1 = 14
    BY <1>1
  <2>2. (seedAt[s] + 1) % 14 = IF seedAt[s] = 13 THEN 0 ELSE seedAt[s] + 1
    BY <1>2
  <2> QED
    BY <2>1, <2>2
<1>4. seedAt' = [seedAt EXCEPT ![s] = IF seedAt[s] = 13 THEN 0 ELSE seedAt[s] + 1]
  BY <1>3 DEF Proceed
<1> QED
  BY <1>2, <1>4

LEMMA Exits ==
  ASSUME NEW s \in SeedRuns, SeededTypeOK, Exit(s)
  PROVE  /\ seedAt' \in [SeedRuns -> 0..13]
         /\ \A t \in SeedRuns \ {s} : seedAt'[t] = seedAt[t]
         /\ seedAt'[s] = 0
BY ScriptIs DEF Exit, SeededTypeOK

Tables == { Script[i] : i \in DOMAIN Script }
Rows   == [table : Tables, org : Organizations \cup {None}]

LEMMA RowTyped ==
  ASSUME SeededTypeOK, NEW s \in SeedRuns, NEW table \in Tables
  PROVE  row(s, table) \in Rows
BY DEF row, Rows, SeededTypeOK

-----------------------------------------------------------------------------------
LEMMA RunKeepsEngineTypes ==
  ASSUME SeededTypeOK, NEW s \in SeedRuns, RunAction(s),
         UNCHANGED <<calls, records, verifiedAudit, answers>>
  PROVE  TypeOK' /\ organizations \subseteq organizations' /\ members \subseteq members'
<1> USE DEF SeededTypeOK, TypeOK, calls, organizationTables
<1>1. CASE UNCHANGED <<organizationTables, profiles>>
  BY <1>1
<1>2. CASE SeedOrganization(s)
  BY <1>2 DEF SeedOrganization
<1>3. CASE SeedMember(s)
  <2>1. CASE addMember(admin(s))
    <3>1. admin(s) \in Member
      BY <2>1, SeedAssumption DEF addMember, insertable, admin, Member
    <3> QED
      BY <1>3, <2>1, <3>1 DEF SeedMember, addMember
  <2> QED
    BY <1>3, <2>1 DEF SeedMember
<1>4. CASE SeedProfile(s)
  <2>1. seedProfile \in Profile /\ seedProfile # None
    BY SeedAssumption, IdentityAssumption DEF seedProfile, Profile
  <2>2. seedOrg[s] \in organizations
    BY <1>4, Places DEF SeedProfile
  <2>3. <<seedOrg[s], Admin>> \in Keys
    BY <2>2, SeedAssumption DEF Keys
  <2>4. profiles' \in [Keys -> Profile \cup {None}]
    BY <1>4, <2>1, <2>3 DEF SeedProfile
  <2>5. \A k \in Keys : profiles[k] # None => profiles'[k] # None
    BY <1>4, <2>1, <2>3 DEF SeedProfile
  <2>6. \A c \in Callers : pc[c] \in FoundSteps => profiles[req[c].key] # None /\ req[c].key \in Keys
    BY DEF Verification, VerifySteps
  <2>7. \A c \in Callers : pc'[c] \in FoundSteps => profiles'[req'[c].key] # None
    BY <2>5, <2>6
  <2>8. UNCHANGED <<organizationTables, calls, records, verifiedAudit, answers>>
    BY <1>4 DEF SeedProfile
  <2> QED
    BY <2>4, <2>7, <2>8
<1> QED
  BY <1>1, <1>2, <1>3, <1>4 DEF RunAction, StartSeed, SeedRow, SeedFails

LEMMA RunKeepsTypes ==
  ASSUME SeededTypeOK, NEW s \in SeedRuns, RunAction(s),
         UNCHANGED <<calls, records, verifiedAudit, answers>>
  PROVE  SeededTypeOK'
<1>1. TypeOK' /\ organizations \subseteq organizations'
  BY RunKeepsEngineTypes
<1>2. organizations \subseteq Organizations /\ organizations' \subseteq Organizations
  BY <1>1 DEF SeededTypeOK, TypeOK
<1>3. Len(Script) = 13 /\ DOMAIN Script = 1..13
  BY ScriptIs
<1>4. SeededTypeOK <=> /\ TypeOK
                       /\ seedAt \in [SeedRuns -> 0..13]
                       /\ seedOrg \in [SeedRuns -> Organizations \cup {None}]
                       /\ seeded \subseteq Rows
                       /\ \A t \in SeedRuns : seedAt[t] > 2 => seedOrg[t] \in organizations
  BY <1>3 DEF SeededTypeOK, Rows, Tables
<1>5. ASSUME Exit(s), UNCHANGED <<seedOrg, seeded>> PROVE SeededTypeOK'
  BY <1>1, <1>3, <1>4, <1>5, Exits DEF SeededTypeOK, Rows, Tables
<1>6. CASE StartSeed(s)
  BY <1>1, <1>3, <1>4, <1>6 DEF StartSeed, SeededTypeOK, Rows, Tables
<1>7. CASE SeedRow(s) /\ Proceed(s)
  <2>1. seeded' \subseteq Rows
    BY <1>3, <1>4, <1>7, RowTyped DEF SeedRow, Tables
  <2>2. seedAt[s] # 2
    BY <1>7, ScriptIs DEF SeedRow, EngineTables
  <2>3. UNCHANGED seedOrg
    BY <1>7 DEF SeedRow
  <2> QED
    BY <1>1, <1>3, <1>4, <1>7, <2>1, <2>2, <2>3, Proceeds DEF SeededTypeOK, Rows, Tables
<1>8. CASE SeedOrganization(s)
  <2>1. seedOrg' \in [SeedRuns -> Organizations \cup {None}]
    BY <1>4, <1>8 DEF SeedOrganization
  <2>2. seedOrg'[s] \in organizations' /\ \A t \in SeedRuns \ {s} : seedOrg'[t] = seedOrg[t]
    BY <1>4, <1>8 DEF SeedOrganization
  <2>3. Proceed(s) /\ seeded' = seeded
    BY <1>8 DEF SeedOrganization
  <2> QED
    BY <1>1, <1>3, <1>4, <2>1, <2>2, <2>3, Proceeds DEF SeededTypeOK, Rows, Tables
<1>9. CASE SeedMember(s) /\ Proceed(s)
  <2>1. seedAt[s] = 4 /\ UNCHANGED <<seedOrg, seeded>>
    BY <1>9, Places DEF SeedMember
  <2> QED
    BY <1>1, <1>3, <1>4, <1>9, <2>1, Proceeds DEF SeededTypeOK, Rows, Tables
<1>10. CASE SeedProfile(s) /\ Proceed(s)
  <2>1. seedAt[s] = 13 /\ UNCHANGED seedOrg
    BY <1>10, Places DEF SeedProfile
  <2>2. "identityProfile" \in Tables
    BY ScriptIs DEF Tables
  <2>3. seeded' \subseteq Rows
    BY <1>4, <1>10, <2>2, RowTyped DEF SeedProfile
  <2> QED
    BY <1>1, <1>3, <1>4, <1>10, <2>1, <2>3, Proceeds DEF SeededTypeOK, Rows, Tables
<1> QED
  BY <1>5, <1>6, <1>7, <1>8, <1>9, <1>10
  DEF RunAction, SeedRow, SeedMember, SeedProfile, SeedFails

LEMMA SeededTypeInit == SeededInit => SeededTypeOK
BY TypeInit, ScriptIs DEF SeededInit, SeedInit, SeededTypeOK

(* The engines never remove an organization or a member.                   *)
LEMMA EnginesGrow ==
  ASSUME [Next]_vars
  PROVE  organizations \subseteq organizations' /\ members \subseteq members'
<1>1. ASSUME NEW c \in Callers, MemberAction(c)
      PROVE  organizations \subseteq organizations' /\ members \subseteq members'
  BY <1>1 DEF MemberAction, createOrganization, LogCreated, inviteMember, assignRole,
     Invite, LogInvited, Assign, addMember, organizationTables
<1>2. ASSUME NEW c \in Callers, VerifyAction(c) \/ Fail(c) \/ UNCHANGED vars
      PROVE  UNCHANGED <<organizations, members>>
  BY <1>2 DEF VerifyAction, Fail, vars, organizationTables
<1>3. UNCHANGED vars => UNCHANGED <<organizations, members>>
  BY DEF vars, organizationTables
<1> QED
  BY <1>1, <1>2, <1>3, NextSplits

LEMMA SeededTypeNext ==
  SeededTypeOK /\ [SeededNext]_<<vars, seed>> =>
    SeededTypeOK' /\ organizations \subseteq organizations' /\ members \subseteq members'
<1> SUFFICES ASSUME SeededTypeOK, [SeededNext]_<<vars, seed>>
             PROVE  SeededTypeOK' /\ organizations \subseteq organizations' /\ members \subseteq members'
  OBVIOUS
<1>1. CASE Next /\ UNCHANGED seed
  BY <1>1, TypeNext, EnginesGrow DEF SeededTypeOK, seed
<1>2. ASSUME NEW s \in SeedRuns, RunAction(s), UNCHANGED <<calls, records, verifiedAudit, answers>>
      PROVE  SeededTypeOK' /\ organizations \subseteq organizations' /\ members \subseteq members'
  BY <1>2, RunKeepsTypes, RunKeepsEngineTypes
<1>3. CASE UNCHANGED vars /\ UNCHANGED <<seedAt, seedOrg>>
           /\ (upsertCountryPolicy \/ UNCHANGED seeded)
  <2>1. TypeOK' /\ organizations \subseteq organizations' /\ members \subseteq members'
    BY <1>3, TypeNext, EnginesGrow DEF SeededTypeOK
  <2>2. {"policyUS", "policyKP"} \subseteq { Script[i] : i \in DOMAIN Script }
    BY DEF Script
  <2>3. seeded' \subseteq [table : { Script[i] : i \in DOMAIN Script }, org : Organizations \cup {None}]
    BY <1>3, <2>2 DEF upsertCountryPolicy, SeededTypeOK
  <2> QED
    BY <1>3, <2>1, <2>3 DEF SeededTypeOK, vars, organizationTables
<1> QED
  BY <1>1, <1>2, <1>3, SeededNextSplits DEF seed

(* The variables keep their types, and a run that is past its organization *)
(* knows it.                                                               *)
THEOREM SeededTypeCorrect == SeededSpec => []SeededTypeOK
BY SeededTypeInit, SeededTypeNext, PTL DEF SeededSpec

-----------------------------------------------------------------------------------
(* One run at a time is past the user, whose e-mail is unique; every row   *)
(* of an organization comes after the user, and is of the organization of  *)
(* the run that is past him.                                               *)
UserFirst ==
  /\ \A s \in SeedRuns : seedAt[s] > 3 => exists("user")
  /\ \A s, t \in SeedRuns : seedAt[s] > 3 /\ seedAt[t] > 3 => s = t
  /\ \A r \in seeded : r.org # None =>
       /\ exists("user")
       /\ \A s \in SeedRuns : seedAt[s] > 3 => r.org = seedOrg[s]

TenantInv == UserFirst /\ OneTenantFilled

(* A step that adds no row of an organization and moves no run past the    *)
(* user.                                                                   *)
LEMMA TenantQuiet ==
  ASSUME TenantInv, seeded \subseteq seeded',
         \A r \in seeded' \ seeded : r.org = None,
         \A s \in SeedRuns : seedAt'[s] > 3 => seedAt[s] > 3 /\ seedOrg'[s] = seedOrg[s]
  PROVE  TenantInv'
BY DEF TenantInv, UserFirst, OneTenantFilled, exists

LEMMA TenantRun ==
  ASSUME SeededTypeOK, TenantInv, NEW s \in SeedRuns, RunAction(s)
  PROVE  TenantInv'
<1>0. seedAt \in [SeedRuns -> 0..13] /\ DOMAIN Script = 1..13
  BY ScriptIs DEF SeededTypeOK
<1>1. ASSUME Exit(s), UNCHANGED <<seedOrg, seeded>> PROVE TenantInv'
  BY <1>0, <1>1, Exits, TenantQuiet
<1>2. CASE StartSeed(s)
  BY <1>0, <1>2, TenantQuiet DEF StartSeed, SeededTypeOK
<1>3. CASE SeedOrganization(s)
  <2>1. seedAt[s] = 2 /\ seedAt'[s] = 3
    BY <1>3, Places, Proceeds DEF SeedOrganization
  <2> QED
    BY <1>0, <1>3, <2>1, Proceeds, TenantQuiet DEF SeedOrganization, SeededTypeOK
<1>4. CASE SeedMember(s) /\ Proceed(s)
  BY <1>0, <1>4, Places, Proceeds, TenantQuiet DEF SeedMember
<1>5. ASSUME NEW table, seedAt[s] > 3, seeded' = seeded \cup {row(s, table)}, Proceed(s),
             UNCHANGED seedOrg
      PROVE  TenantInv'
  <2>1. \A t \in SeedRuns : seedAt'[t] > 3 => seedAt[t] > 3
    BY <1>0, <1>5, Proceeds
  <2>2. row(s, table).org \in {None, seedOrg[s]}
    BY DEF row
  <2>3. exists("user")'
    BY <1>5 DEF TenantInv, UserFirst, exists
  <2>4. UserFirst'
    BY <1>5, <2>1, <2>2, <2>3 DEF TenantInv, UserFirst
  <2>5. OneTenantFilled'
    BY <1>5, <2>2 DEF TenantInv, UserFirst, OneTenantFilled
  <2> QED
    BY <2>4, <2>5 DEF TenantInv
<1>6. CASE SeedRow(s) /\ Proceed(s) /\ seedAt[s] < 3
  <2>1. seedAt[s] = 1
    BY <1>0, <1>6, ScriptIs DEF SeedRow, EngineTables
  <2>2. seeded' = seeded \cup {row(s, "roles")} /\ UNCHANGED seedOrg
    BY <1>0, <1>6, <2>1, ScriptIs DEF SeedRow, Proceed, Exit
  <2>3. row(s, "roles").org = None
    BY DEF row, GlobalTables
  <2> QED
    BY <1>0, <1>6, <2>1, <2>2, <2>3, Proceeds, TenantQuiet
<1>7. CASE SeedRow(s) /\ Proceed(s) /\ seedAt[s] = 3
  <2>1. Script[seedAt[s]] = "user"
    BY <1>7, ScriptIs
  <2>2. ~exists("user") /\ seeded' = seeded \cup {row(s, "user")} /\ UNCHANGED seedOrg
    <3>1. ~Exit(s)
      BY <1>0, <1>7, Exits, Proceeds
    <3>2. ~taken(Script[seedAt[s]]) /\ seeded' = seeded \cup {row(s, Script[seedAt[s]])}
      BY <1>7, <3>1 DEF SeedRow
    <3>3. ~taken("user") /\ seeded' = seeded \cup {row(s, "user")}
      BY <2>1, <3>2
    <3> QED
      BY <1>7, <3>3 DEF SeedRow, taken, UniqueRows
  <2>3. row(s, "user").table = "user" /\ row(s, "user").org = None
    BY DEF row, GlobalTables
  <2>4. exists("user")'
    BY <2>2, <2>3 DEF exists
  <2>5. \A r \in seeded' : r.org = None
    <3>1. \A r \in seeded : r.org = None
      BY <2>2 DEF TenantInv, UserFirst
    <3> QED
      BY <2>2, <2>3, <3>1
  <2>6. \A t \in SeedRuns : seedAt'[t] > 3 => t = s
    BY <1>0, <1>7, <2>2, Proceeds DEF TenantInv, UserFirst
  <2>7. UserFirst' /\ OneTenantFilled'
    BY <2>4, <2>5, <2>6 DEF UserFirst, OneTenantFilled
  <2> QED
    BY <2>7 DEF TenantInv
<1>8. CASE SeedRow(s) /\ Proceed(s) /\ seedAt[s] > 3
  <2>1. seedAt'[s] = seedAt[s] + 1 \/ seedAt[s] = 13
    BY <1>0, <1>8, Proceeds
  <2>2. Script[13] \in EngineTables
    BY ScriptIs DEF EngineTables
  <2>3. seedAt'[s] # 0
    BY <1>0, <1>8, <2>1, <2>2 DEF SeedRow
  <2>4. seeded' = seeded \cup {row(s, Script[seedAt[s]])} /\ UNCHANGED seedOrg
    BY <1>8, <2>3, Exits DEF SeedRow
  <2> QED
    BY <1>5, <1>8, <2>4
<1>9. CASE SeedProfile(s) /\ Proceed(s)
  <2>1. seedAt[s] = 13 /\ UNCHANGED seedOrg
    BY <1>9, Places DEF SeedProfile
  <2>2. CASE UNCHANGED seeded
    BY <1>0, <1>9, <2>1, <2>2, Proceeds, TenantQuiet
  <2> QED
    BY <1>5, <1>9, <2>1, <2>2 DEF SeedProfile
<1> QED
  BY <1>0, <1>1, <1>2, <1>3, <1>4, <1>6, <1>7, <1>8, <1>9
  DEF RunAction, SeedRow, SeedMember, SeedProfile, SeedFails

LEMMA TenantNext ==
  SeededTypeOK /\ TenantInv /\ [SeededNext]_<<vars, seed>> => TenantInv'
<1> SUFFICES ASSUME SeededTypeOK, TenantInv, [SeededNext]_<<vars, seed>> PROVE TenantInv'
  OBVIOUS
<1>1. CASE UNCHANGED seed
  BY <1>1, TenantQuiet DEF seed
<1>2. CASE upsertCountryPolicy /\ UNCHANGED <<vars, seedAt, seedOrg>>
  BY <1>2, TenantQuiet DEF upsertCountryPolicy
<1> QED
  BY <1>1, <1>2, TenantRun, SeededNextSplits

(* The script fills one organization, however often and however many times *)
(* at once it is run: the e-mail of its user is unique, and no row of an   *)
(* organization is written before him.                                     *)
THEOREM OneTenant == SeededSpec => []OneTenantFilled
<1>1. SeededInit => TenantInv
  BY DEF SeededInit, SeedInit, TenantInv, UserFirst, OneTenantFilled, exists
<1>2. TenantInv => OneTenantFilled
  BY DEF TenantInv
<1> QED
  BY <1>1, <1>2, TenantNext, SeededTypeCorrect, PTL DEF SeededSpec

-----------------------------------------------------------------------------------
(* The rows a run has passed are there, and its administrator.             *)
Behind(s) ==
  /\ \A i \in DOMAIN Script : i < seedAt[s] /\ i \notin {2, 4} => row(s, Script[i]) \in seeded
  /\ seedAt[s] > 4 => admin(s) \in members

CompleteInv == /\ \A s \in SeedRuns : Behind(s)
               /\ ProfileMeansComplete

(* A step that adds no profile, while rows and members stay.               *)
LEMMA CompleteQuiet ==
  ASSUME CompleteInv, seeded \subseteq seeded', members \subseteq members',
         \A r \in seeded' \ seeded : r.table # "identityProfile"
  PROVE  ProfileMeansComplete'
BY DEF CompleteInv, ProfileMeansComplete

LEMMA BehindQuiet ==
  ASSUME CompleteInv, seeded \subseteq seeded', members \subseteq members',
         NEW s \in SeedRuns, seedAt'[s] = seedAt[s], seedOrg'[s] = seedOrg[s]
  PROVE  Behind(s)'
BY DEF CompleteInv, Behind, row, admin

(* A run that moves on leaves one row or the administrator behind it.      *)
LEMMA BehindMoves ==
  ASSUME SeededTypeOK, CompleteInv, seeded \subseteq seeded', members \subseteq members',
         NEW s \in SeedRuns, seedAt'[s] = seedAt[s] + 1, seedOrg'[s] = seedOrg[s],
         seedAt[s] \notin {2, 4} => row(s, Script[seedAt[s]]) \in seeded',
         seedAt[s] = 4 => admin(s) \in members'
  PROVE  Behind(s)'
<1>1. seedAt[s] \in 0..13 /\ DOMAIN Script = 1..13
  BY ScriptIs DEF SeededTypeOK
<1>2. Behind(s)
  BY DEF CompleteInv
<1>3. \A i \in DOMAIN Script : i < seedAt'[s] => i < seedAt[s] \/ i = seedAt[s]
  BY <1>1
<1>4. \A i \in DOMAIN Script : i < seedAt'[s] /\ i \notin {2, 4} => row(s, Script[i]) \in seeded'
  BY <1>2, <1>3 DEF Behind
<1>5. seedAt'[s] > 4 => admin(s) \in members'
  BY <1>1, <1>2 DEF Behind
<1> QED
  BY <1>4, <1>5 DEF Behind, row, admin

LEMMA CompleteRun ==
  ASSUME SeededTypeOK, CompleteInv, members \subseteq members', NEW s \in SeedRuns, RunAction(s)
  PROVE  CompleteInv'
<1>0. seedAt \in [SeedRuns -> 0..13] /\ DOMAIN Script = 1..13
  BY ScriptIs DEF SeededTypeOK
<1>1. seeded \subseteq seeded'
  BY DEF RunAction, StartSeed, SeedRow, SeedOrganization, SeedMember, SeedProfile, SeedFails
<1>2. \A t \in SeedRuns \ {s} : seedAt'[t] = seedAt[t] /\ seedOrg'[t] = seedOrg[t]
  <2>1. \A t \in SeedRuns \ {s} : seedAt'[t] = seedAt[t]
    BY <1>0, Exits, Proceeds
    DEF RunAction, StartSeed, SeedRow, SeedOrganization, SeedMember, SeedProfile, SeedFails
  <2>2. \A t \in SeedRuns \ {s} : seedOrg'[t] = seedOrg[t]
    BY DEF RunAction, StartSeed, SeedRow, SeedOrganization, SeedMember, SeedProfile, SeedFails,
       SeededTypeOK
  <2> QED
    BY <2>1, <2>2
<1>3. \A t \in SeedRuns \ {s} : Behind(t)'
  BY <1>1, <1>2, BehindQuiet
<1>4. ASSUME seedAt'[s] \in {0, 1}, ProfileMeansComplete' PROVE CompleteInv'
  <2>1. Behind(s)'
    BY <1>0, <1>4 DEF Behind
  <2> QED
    BY <1>3, <1>4, <2>1 DEF CompleteInv
<1>5. CASE seeded' = seeded /\ seedAt'[s] \in {0, 1}
  BY <1>4, <1>5, CompleteQuiet
<1>6. CASE SeedRow(s) /\ ~taken(Script[seedAt[s]])
  <2>1. seedAt[s] \in 1..12 \ {2, 4}
    BY <1>0, <1>6, ScriptIs DEF SeedRow, EngineTables
  <2>2. seeded' = seeded \cup {row(s, Script[seedAt[s]])} /\ Proceed(s) /\ UNCHANGED seedOrg
    BY <1>6 DEF SeedRow
  <2>3. Behind(s)'
    BY <1>1, <2>1, <2>2, Proceeds, BehindMoves
  <2>4. row(s, Script[seedAt[s]]).table # "identityProfile"
    BY <1>6 DEF SeedRow, row, EngineTables
  <2>5. ProfileMeansComplete'
    BY <1>1, <2>2, <2>4, CompleteQuiet
  <2> QED
    BY <1>3, <2>3, <2>5 DEF CompleteInv
<1>7. CASE SeedOrganization(s)
  <2>1. seedAt[s] = 2 /\ seedAt'[s] = 3 /\ seeded' = seeded
    BY <1>7, Places, Proceeds DEF SeedOrganization
  <2>2. row(s, Script[1]) \in seeded
    BY <1>0, <2>1 DEF CompleteInv, Behind
  <2>3. row(s, Script[1])' = row(s, Script[1])
    BY ScriptIs DEF row, GlobalTables
  <2>4. Behind(s)'
    BY <1>0, <2>1, <2>2, <2>3 DEF Behind
  <2> QED
    BY <1>3, <2>1, <2>4, CompleteQuiet DEF CompleteInv
<1>8. CASE SeedMember(s) /\ insertable(admin(s))
  <2>1. /\ seedAt[s] = 4 /\ Proceed(s) /\ UNCHANGED <<seedOrg, seeded>>
        /\ admin(s) \in members'
    BY <1>8, Places DEF SeedMember, addMember
  <2>2. Behind(s)'
    BY <2>1, Proceeds, BehindMoves
  <2> QED
    BY <1>3, <2>1, <2>2, CompleteQuiet DEF CompleteInv
<1>9. CASE SeedProfile(s) /\ profiles[<<seedOrg[s], Admin>>] = None
  <2>1. seedAt[s] = 13 /\ seedAt'[s] = 0
    BY <1>9, Places, Proceeds DEF SeedProfile
  <2>2. seeded' = seeded \cup {row(s, "identityProfile")}
    BY <1>9 DEF SeedProfile
  <2>3. row(s, "identityProfile") = [table |-> "identityProfile", org |-> seedOrg[s]]
    BY DEF row, GlobalTables
  <2>4. Behind(s)
    BY DEF CompleteInv
  <2>5. \A i \in DOMAIN Script : Script[i] \notin {"organization", "member"} =>
           \E q \in seeded' : q.table = Script[i] /\ q.org \in {seedOrg[s], None}
    <3>1. ASSUME NEW i \in DOMAIN Script, Script[i] \notin {"organization", "member"}
          PROVE  row(s, Script[i]) \in seeded'
      BY <1>0, <2>1, <2>2, <2>4, <3>1, ScriptIs DEF Behind
    <3> QED
      BY <3>1 DEF row
  <2>6. [org |-> seedOrg[s], user |-> Admin, role |-> SuperAdmin] \in members'
    BY <2>1, <2>4 DEF Behind, admin
  <2>7. ProfileMeansComplete'
    BY <2>2, <2>3, <2>5, <2>6 DEF CompleteInv, ProfileMeansComplete
  <2> QED
    BY <1>4, <2>1, <2>7
<1>10. ASSUME Exit(s), seeded' = seeded PROVE CompleteInv'
  BY <1>5, <1>10, Exits
<1>11. CASE StartSeed(s)
  BY <1>0, <1>5, <1>11 DEF StartSeed
<1> QED
  BY <1>6, <1>7, <1>8, <1>9, <1>10, <1>11
  DEF RunAction, SeedRow, SeedMember, SeedProfile, SeedFails, addMember

LEMMA CompleteNext ==
  SeededTypeOK /\ CompleteInv /\ [SeededNext]_<<vars, seed>> => CompleteInv'
<1> SUFFICES ASSUME SeededTypeOK, CompleteInv, [SeededNext]_<<vars, seed>> PROVE CompleteInv'
  OBVIOUS
<1>0. members \subseteq members'
  BY SeededTypeNext
<1>1. CASE UNCHANGED seed
  BY <1>0, <1>1, BehindQuiet, CompleteQuiet DEF seed, CompleteInv
<1>2. CASE upsertCountryPolicy /\ UNCHANGED <<vars, seedAt, seedOrg>>
  <2>1. seeded \subseteq seeded' /\ \A r \in seeded' \ seeded : r.table # "identityProfile"
    BY <1>2 DEF upsertCountryPolicy
  <2> QED
    BY <1>0, <1>2, <2>1, BehindQuiet, CompleteQuiet DEF CompleteInv
<1> QED
  BY <1>0, <1>1, <1>2, CompleteRun, SeededNextSplits

(* Where the script's profile is, all it writes is: a run gets to its last *)
(* statement only by the others, and nothing removes what they wrote.      *)
THEOREM ProfileComesLast == SeededSpec => []ProfileMeansComplete
<1>1. SeededInit => CompleteInv
  BY ScriptIs DEF SeededInit, SeedInit, CompleteInv, Behind, ProfileMeansComplete
<1>2. CompleteInv => ProfileMeansComplete
  BY DEF CompleteInv
<1> QED
  BY <1>1, <1>2, CompleteNext, SeededTypeCorrect, PTL DEF SeededSpec
===================================================================================
