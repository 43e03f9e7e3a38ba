----------------------------- MODULE Entries_proofs ------------------------------
(***************************************************************************)
(* Proofs about the life of a config entry (EntrySetup), for any set of      *)
(* passwords: a reauthentication is asked for only of a router that refused  *)
(* the stored password.                                                      *)
(*                                                                          *)
(* That alone is not inductive: a new set-up forgets the refusal.  It starts  *)
(* from the confirmed checklist, from a retry or from the form itself, so     *)
(* the invariant adds that no form is open in the first two.                  *)
(***************************************************************************)
EXTENDS MCEntries, TLAPS

LifeInv ==
  /\ Life!TypeOK
  /\ Life!ReauthOnlyAfterRefusal
  /\ form = "checklist" => entry = "none"
  /\ entry \in {"none", "retry", "setup"} => reauth = "none"

LEMMA PasswordExists == \E pw \in Passwords : TRUE
  BY EntriesAssumptions DEF Life!PasswordsAssumption

\* The counter of the refusals at its start.
LEMMA NoRefusals == 0 \in 0..3
  OBVIOUS

LEMMA LifeInit == Life!Init => LifeInv
  BY NoRefusals DEF Life!Init, LifeInv, Life!TypeOK, Life!ReauthOnlyAfterRefusal, Life!Grants,
     Life!ReauthForms

\* A step that leaves the entry, its session and the forms alone, or touches the session only.
LEMMA AsideKeeps ==
  ASSUME LifeInv, UNCHANGED <<entry, step, stored, blocked, refusals, refused, reauth, form,
                              typed, caps>>,
         steady' \in BOOLEAN, link' \in {"up", "down", "starting"}, password' \in Passwords,
         file' \in {"absent", "corrupt", "old", "current"}, granted' \in Life!Grants,
         session' \in Life!Grants \cup {"none", "dead"}
  PROVE  LifeInv'
  BY DEF LifeInv, Life!TypeOK, Life!ReauthOnlyAfterRefusal

\* What rpcd has loaded, before and after a deployment.
LEMMA CarriedTypes ==
  ASSUME Life!TypeOK, NEW r, Life!Carried(r)
  PROVE  /\ file' \in {"absent", "corrupt", "old", "current"} /\ granted' \in Life!Grants
         /\ UNCHANGED <<steady, link, password>>
  BY DEF Life!Carried, Life!Loaded, Life!TypeOK, Life!Grants

LEMMA SetupKeeps == LifeInv /\ Life!SetupSteps => LifeInv'
<1> SUFFICES ASSUME LifeInv, Life!SetupSteps PROVE LifeInv'
  OBVIOUS
<1> USE DEF LifeInv, Life!TypeOK, Life!ReauthOnlyAfterRefusal, Life!router, Life!forms,
            Life!Grants, Life!ReauthForms
<1>1. CASE Life!SetupRetried
  BY <1>1, NoRefusals DEF Life!SetupRetried, Life!Start
<1>2. ASSUME NEW x, Life!SetupLogin(x) PROVE LifeInv'
  BY <1>2 DEF Life!SetupLogin, Life!NotReady, Life!StartReauth
<1>3. ASSUME NEW x, Life!SetupRelogin(x) PROVE LifeInv'
  BY <1>3 DEF Life!SetupRelogin
<1>4. ASSUME NEW x, Life!SetupRefresh(x) PROVE LifeInv'
  BY <1>4, NoRefusals DEF Life!SetupRefresh, Life!NotReady, Life!PollOk
<1>5. ASSUME NEW r, Life!SetupAcl(r) PROVE LifeInv'
  <2>1. /\ file' \in {"absent", "corrupt", "old", "current"} /\ granted' \in Life!Grants
        /\ UNCHANGED <<steady, link, password>>
    BY <1>5, CarriedTypes DEF Life!SetupAcl
  <2> QED
    BY <1>5, <2>1 DEF Life!SetupAcl
<1> QED
  BY <1>1, <1>2, <1>3, <1>4, <1>5 DEF Life!SetupSteps

LEMMA PollKeeps == LifeInv /\ Life!Polls => LifeInv'
<1> SUFFICES ASSUME LifeInv, NEW x, Life!Poll(x) PROVE LifeInv'
  BY DEF Life!Polls
<1> USE DEF LifeInv, Life!TypeOK, Life!ReauthOnlyAfterRefusal, Life!router, Life!forms,
            Life!Grants, Life!ReauthForms
<1>1. CASE x = "ok"
  <2>1. /\ UNCHANGED <<Life!router, entry, step, stored, Life!forms, refused, reauth>>
        /\ session' \in Life!Grants \cup {"none", "dead"} /\ blocked' \in BOOLEAN
        /\ refusals' \in 0..3
    BY <1>1, NoRefusals DEF Life!Poll, Life!PollOk
  <2> QED
    BY <2>1
<1>2. CASE x = "auth"
  BY <1>2 DEF Life!Poll, Life!StartReauth
<1>3. CASE x \notin {"ok", "auth"}
  BY <1>3 DEF Life!Poll
<1> QED
  BY <1>1, <1>2, <1>3

\* The forms of a reauthentication: a form that closes reloads the entry.
LEMMA ReloadKeeps ==
  ASSUME LifeInv, NEW pw \in Passwords, Life!Reload(pw),
         UNCHANGED <<Life!router, Life!forms>>, reauth # "none"
  PROVE  LifeInv'
  BY NoRefusals
  DEF LifeInv, Life!TypeOK, Life!ReauthOnlyAfterRefusal, Life!router, Life!forms, Life!Grants,
      Life!ReauthForms, Life!Reload, Life!Start

LEMMA ReauthKeeps == LifeInv /\ (Life!ReauthSteps \/ Life!Confirm) => LifeInv'
<1> SUFFICES ASSUME LifeInv, Life!ReauthSteps \/ Life!Confirm PROVE LifeInv'
  OBVIOUS
<1>1. ASSUME NEW x \in Life!Outcomes, Life!Diagnose(x), reauth # "none",
             UNCHANGED <<Life!router, Life!forms>>
      PROVE  LifeInv'
  <2>1. CASE x = "ok"
    <3>1. stored \in Passwords
      BY DEF LifeInv, Life!TypeOK
    <3> QED
      BY <1>1, <2>1, <3>1, ReloadKeeps DEF Life!Diagnose
  <2>2. CASE x # "ok"
    <3>1. /\ reauth' \in Life!ReauthForms /\ UNCHANGED <<entry, step, stored, Life!api>>
      BY <1>1, <2>2 DEF Life!Diagnose, Life!Outcomes, Life!Lost, Life!ReauthForms
    <3> QED
      BY <1>1, <3>1
      DEF LifeInv, Life!TypeOK, Life!ReauthOnlyAfterRefusal, Life!router, Life!api, Life!forms,
          Life!ReauthForms
  <2> QED
    BY <2>1, <2>2
<1>2. ASSUME NEW x \in Life!Outcomes, Life!ReauthOpens(x) \/ Life!ReauthRetried(x)
      PROVE  LifeInv'
  BY <1>1, <1>2 DEF Life!ReauthOpens, Life!ReauthRetried
<1>3. ASSUME NEW pw \in Passwords, NEW x, Life!ReauthConfirmed(pw, x) PROVE LifeInv'
  BY <1>3, ReloadKeeps DEF Life!ReauthConfirmed
<1> QED
  BY <1>2, <1>3 DEF Life!ReauthSteps, Life!Confirm

LEMMA NewEntryKeeps == LifeInv /\ Life!NewEntry => LifeInv'
<1> SUFFICES ASSUME LifeInv, Life!NewEntry PROVE LifeInv'
  OBVIOUS
<1> USE DEF LifeInv, Life!TypeOK, Life!ReauthOnlyAfterRefusal, Life!router, Life!api,
            Life!ReauthForms, Life!Shown
<1>1. ASSUME NEW pw \in Passwords, NEW x, NEW y, Life!UserSubmits(pw, x, y) PROVE LifeInv'
  BY <1>1 DEF Life!UserSubmits
<1>2. ASSUME NEW r, NEW x, NEW y, Life!ChecklistDeploys(r, x, y) PROVE LifeInv'
  <2>1. /\ file' \in {"absent", "corrupt", "old", "current"} /\ granted' \in Life!Grants
        /\ UNCHANGED <<steady, link, password>>
    BY <1>2, CarriedTypes DEF Life!ChecklistDeploys
  <2> QED
    BY <1>2, <2>1 DEF Life!ChecklistDeploys
<1>3. CASE Life!ChecklistConfirms
  BY <1>3, NoRefusals DEF Life!ChecklistConfirms, Life!Start
<1>4. CASE Life!FormOpens
  BY <1>4 DEF Life!FormOpens
<1> QED
  BY <1>1, <1>2, <1>3, <1>4 DEF Life!NewEntry

LEMMA EnvironmentKeeps ==
  LifeInv /\ (\/ Life!LinkChanges \/ Life!PasswordChanges \/ Life!FileSpoilt
              \/ Life!SessionExpires \/ Life!SteadyChanges) => LifeInv'
<1> SUFFICES ASSUME LifeInv,
                    \/ Life!LinkChanges \/ Life!PasswordChanges \/ Life!FileSpoilt
                    \/ Life!SessionExpires \/ Life!SteadyChanges
             PROVE  LifeInv'
  OBVIOUS
<1>1. Life!TypeOK
  BY DEF LifeInv
<1> USE <1>1 DEF Life!TypeOK, Life!router, Life!api, Life!forms, Life!Grants
<1>2. CASE Life!LinkChanges
  BY <1>2, AsideKeeps DEF Life!LinkChanges, Life!Ended, Life!Loaded
<1>3. CASE Life!PasswordChanges
  BY <1>3, AsideKeeps DEF Life!PasswordChanges
<1>4. CASE Life!FileSpoilt
  BY <1>4, AsideKeeps DEF Life!FileSpoilt
<1>5. CASE Life!SessionExpires
  BY <1>5, AsideKeeps DEF Life!SessionExpires
<1>6. CASE Life!SteadyChanges
  BY <1>6, AsideKeeps DEF Life!SteadyChanges
<1> QED
  BY <1>2, <1>3, <1>4, <1>5, <1>6

\* Through every order of set-ups, retries, polls, forms and faults of the router, a
\* reauthentication is open only if the router refused the stored password since the last
\* set-up; a router that is away or restarts never opens one.
THEOREM ReauthStaysDue == Life!Spec => []ReauthIsDue
<1>1. LifeInv /\ UNCHANGED Life!vars => LifeInv'
  BY AsideKeeps DEF LifeInv, Life!TypeOK, Life!vars, Life!router, Life!api, Life!forms
<1>2. LifeInv /\ [Life!Next]_(Life!vars) => LifeInv'
  BY <1>1, SetupKeeps, PollKeeps, ReauthKeeps, NewEntryKeeps, EnvironmentKeeps DEF Life!Next
<1>3. LifeInv => ReauthIsDue
  BY DEF LifeInv, ReauthIsDue
<1> QED
  BY <1>2, <1>3, LifeInit, PTL DEF Life!Spec
================================================================================
