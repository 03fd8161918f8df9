----------------------------------- MODULE Seed -----------------------------------
(***************************************************************************)
(* prisma/seed.ts, run against the database the organization and identity  *)
(* engines work on.  A run of the script executes one statement after the  *)
(* other, outside any transaction; it exits at the first one that fails,   *)
(* may be killed before any of them, and may be started again at any time, *)
(* also while another run is under way.                                    *)
(***************************************************************************)
EXTENDS Onboarding, Sequences

CONSTANTS SeedRuns,  \* runs that may be under way at the same time
          Admin,     \* the user it creates
          SuperAdmin \* the role it gives him

VARIABLES seedAt,  \* seedAt[s]: the next statement of run s, 0 if none is under way
          seedOrg, \* seedOrg[s]: the organization run s has created
          seeded   \* the rows of tables no engine here writes: [table, org]

seed == <<seedAt, seedOrg, seeded>>

ASSUME SeedAssumption == /\ Admin \in Users /\ SuperAdmin \in Roles
                         /\ "LEVEL_3" \in Levels
                         /\ None \notin Organizations

(* The statements, by the table they write.  The six upserts of roles make *)
(* one, for a run that was stopped among them is repeated by the next.     *)
Script == <<"roles", "organization", "user", "member", "treasuryAccount", "liquidityPool",
            "reserveAllocation", "limitRule", "sanctionsRule", "policyUS", "policyKP",
            "apiKey", "identityProfile">>

EngineTables == {"organization", "member", "identityProfile"}
GlobalTables == {"roles", "user", "policyUS", "policyKP"}
UniqueRows   == {"user", "policyUS", "policyKP", "apiKey"}

exists(table) == \E r \in seeded : r.table = table

(* Slip: the user is upserted, as the roles are.                           *)
takenUpsert(table) == table \in UniqueRows \ {"user"} /\ exists(table)

(* The unique e-mail, country codes and key hash are there already.        *)
taken(table) == table \in UniqueRows /\ exists(table)

row(s, table) == [table |-> table,
                  org   |-> IF table \in GlobalTables THEN None ELSE seedOrg[s]]

SeedInit == /\ seedAt  = [s \in SeedRuns |-> 0]
            /\ seedOrg = [s \in SeedRuns |-> None]
            /\ seeded  = {}

at(s, table) == seedAt[s] \in DOMAIN Script /\ Script[seedAt[s]] = table

(* The statement succeeds, and the next one is due, unless it was the last.*)
Proceed(s) == seedAt' = [seedAt EXCEPT ![s] = (seedAt[s] + 1) % (Len(Script) + 1)]

(* main rejects, and the process exits.                                    *)
Exit(s) == seedAt' = [seedAt EXCEPT ![s] = 0]

-----------------------------------------------------------------------------------
StartSeed(s) ==
  /\ seedAt[s] = 0
  /\ seedAt'  = [seedAt EXCEPT ![s] = 1]
  /\ seedOrg' = [seedOrg EXCEPT ![s] = None]
  /\ UNCHANGED <<seeded, organizationTables, profiles>>

SeedRow(s) ==
  /\ seedAt[s] \in DOMAIN Script
  /\ LET table == Script[seedAt[s]]
     IN  /\ table \notin EngineTables
         /\ \/ ~taken(table) /\ Proceed(s) /\ seeded' = seeded \cup {row(s, table)}
            \/ taken(table) /\ Exit(s) /\ UNCHANGED seeded
  /\ UNCHANGED <<seedOrg, organizationTables, profiles>>

(* Slip: its id is not kept.                                               *)
SeedOrganizationUnnamed(s) ==
  /\ at(s, "organization") /\ Proceed(s)
  /\ \E o \in Organizations \ organizations : organizations' = organizations \cup {o}
  /\ UNCHANGED <<seedOrg, seeded, members, orgAudit, profiles>>

(* Every run creates an organization: names are not unique.                *)
SeedOrganization(s) ==
  /\ at(s, "organization") /\ Proceed(s)
  /\ \E o \in Organizations \ organizations :
       /\ organizations' = organizations \cup {o}
       /\ seedOrg' = [seedOrg EXCEPT ![s] = o]
  /\ UNCHANGED <<seeded, members, orgAudit, profiles>>

admin(s) == [org |-> seedOrg[s], user |-> Admin, role |-> SuperAdmin]

(* Slip: a member who is there already is left alone.                      *)
SeedMemberIgnored(s) ==
  /\ at(s, "member") /\ Proceed(s)
  /\ \/ addMember(admin(s))
     \/ ~insertable(admin(s)) /\ UNCHANGED members
  /\ UNCHANGED <<seedOrg, seeded, organizations, orgAudit, profiles>>

(* Refused if the new user was made a member of the new organization by an *)
(* engine in the meantime.                                                 *)
SeedMember(s) ==
  /\ at(s, "member")
  /\ \/ addMember(admin(s)) /\ Proceed(s)
     \/ ~insertable(admin(s)) /\ Exit(s) /\ UNCHANGED members
  /\ UNCHANGED <<seedOrg, seeded, organizations, orgAudit, profiles>>

seedProfile == [level |-> "LEVEL_3", status |-> "UNVERIFIED"]

(* Refused if a verification was faster.                                   *)
SeedProfile(s) ==
  /\ at(s, "identityProfile")
  /\ LET k == <<seedOrg[s], Admin>>
     IN  \/ /\ profiles[k] = None /\ Proceed(s)
            /\ profiles' = [profiles EXCEPT ![k] = seedProfile]
            /\ seeded' = seeded \cup {row(s, "identityProfile")}
         \/ profiles[k] # None /\ Exit(s) /\ UNCHANGED <<profiles, seeded>>
  /\ UNCHANGED <<seedOrg, organizationTables>>

(* A statement fails, or the run is killed.                                *)
SeedFails(s) ==
  /\ Faults
  /\ seedAt[s] # 0
  /\ Exit(s)
  /\ UNCHANGED <<seedOrg, seeded, organizationTables, profiles>>

SeedNext == \E s \in SeedRuns :
  \/ StartSeed(s) \/ SeedRow(s) \/ SeedOrganization(s) \/ SeedMember(s) \/ SeedProfile(s)
  \/ SeedFails(s)

(* An operator sets the policy of a country: the repository has a method   *)
(* for it, and no engine calls it.                                         *)
upsertCountryPolicy == \E table \in {"policyUS", "policyKP"} :
  seeded' = seeded \cup {[table |-> table, org |-> None]}

(* Callers pass the ids of users and roles that exist.                     *)
IdsKnown == \A c \in Callers :
  /\ pc[c] \in MemberSteps => /\ exists("roles")
                              /\ req[c].user = Admin => exists("user")
  /\ pc[c] \in VerifySteps /\ req[c].key[2] = Admin => exists("user")

SeededInit == Init /\ SeedInit

SeededNext == \/ Next /\ UNCHANGED seed /\ IdsKnown'
              \/ SeedNext /\ UNCHANGED <<calls, records, verifiedAudit, answers>>
              \/ upsertCountryPolicy /\ UNCHANGED <<vars, seedAt, seedOrg>>

SeededSpec == SeededInit /\ [][SeededNext]_<<vars, seed>>

-----------------------------------------------------------------------------------
(* The variables have their types, those of the engines as well, and a run *)
(* that has created its organization knows it.                             *)
SeededTypeOK ==
  /\ TypeOK
  /\ seedAt \in [SeedRuns -> 0..Len(Script)]
  /\ seedOrg \in [SeedRuns -> Organizations \cup {None}]
  /\ seeded \subseteq [table : { Script[i] : i \in DOMAIN Script }, org : Organizations \cup {None}]
  /\ \A s \in SeedRuns : seedAt[s] > 2 => seedOrg[s] \in organizations

(* However often the script is run, stopped and run again, and however its *)
(* runs overlap, it fills one organization at most.                        *)
OneTenantFilled == \A q, r \in seeded : q.org # None /\ r.org # None => q.org = r.org

(* The last row, the profile, tells that all is there: a row of every      *)
(* table, for the same organization, and the administrator in his role,    *)
(* although statements are not in a transaction and engines interfere.     *)
ProfileMeansComplete ==
  \A r \in seeded : r.table = "identityProfile" =>
    /\ \A i \in DOMAIN Script :
         Script[i] \notin {"organization", "member"} =>
           \E q \in seeded : q.table = Script[i] /\ q.org \in {r.org, None}
    /\ [org |-> r.org, user |-> Admin, role |-> SuperAdmin] \in members
===================================================================================
