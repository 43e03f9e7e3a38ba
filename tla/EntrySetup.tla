------------------------------- MODULE EntrySetup ------------------------------
(***************************************************************************)
(* The config entry of one router: the form that creates it, its set-up with *)
(* the deployment of the rpcd ACL, and the forms of a reauthentication        *)
(* (config_flow.py, __init__.py, acl_provisioning.py), against a router that   *)
(* goes away, restarts, changes its password or refuses to be written to.     *)
(*                                                                          *)
(* One step is what runs up to an answer of the router that decides how to go *)
(* on; the calls of ensure_acl are one step with an answer each.  Home         *)
(* Assistant (external) retries a set-up that is not ready, opens the form of  *)
(* a reauthentication once, and finishes a set-up before it reloads.          *)
(***************************************************************************)
EXTENDS Naturals

CONSTANT Passwords

PasswordsAssumption == Passwords # {}

VARIABLES
  \* The router (environment)
  steady,    \* it answers, can be deployed to, and its password stays
  link,      \* "up", "down", or "starting": HTTP without a healthy rpcd
  password,  \* of the user
  file,      \* the ACL file: "absent", "corrupt", "old" or "current"
  granted,   \* what rpcd has loaded of it: "bare" (nothing), "old" or "current"
  \* The entry
  entry,     \* "none", "setup", "loaded", "retry" (not ready) or "failed" (authentication)
  step,      \* of a set-up: "login", "acl", "relogin", "again", "refresh"; else "-"
  stored,    \* its password
  session,   \* of its API object: "none", "dead", or what it may do
  blocked,   \* _acl_blocked is not empty
  refusals,  \* _consecutive_auth_failures; 3: no further poll
  refused,   \* history: the router refused the stored password since the last set-up
  reauth,    \* the form of its reauthentication, "none" if there is none
  \* The form for a new entry
  form,      \* "none", "user" or "checklist"
  typed,     \* _user_data
  caps       \* _capabilities: "none" (unknown), "some" or "all"

router == <<steady, link, password, file, granted>>
api == <<session, blocked, refusals, refused>>
forms == <<form, typed, caps>>
vars == <<router, entry, step, stored, api, reauth, forms>>

Grants == {"bare", "old", "current"}
ReauthForms == {"reauth", "rpcd_setup", "cannot_connect", "confirm"}

TypeOK ==
  /\ steady \in BOOLEAN /\ link \in {"up", "down", "starting"} /\ password \in Passwords
  /\ file \in {"absent", "corrupt", "old", "current"} /\ granted \in Grants
  /\ entry \in {"none", "setup", "loaded", "retry", "failed"}
  /\ step \in {"-", "login", "acl", "relogin", "again", "refresh"}
  /\ (entry = "setup") <=> (step # "-")
  /\ stored \in Passwords /\ typed \in Passwords
  /\ session \in Grants \cup {"none", "dead"} /\ blocked \in BOOLEAN
  /\ refusals \in 0..3 /\ refused \in BOOLEAN
  /\ reauth \in ReauthForms \cup {"none"} /\ form \in {"none", "user", "checklist"}
  /\ caps \in {"none", "some", "all"}

Init ==
  /\ steady \in BOOLEAN /\ link = "up" /\ password \in Passwords
  /\ file \in {"absent", "old"} /\ granted = (IF file = "old" THEN "old" ELSE "bare")
  /\ entry = "none" /\ step = "-" /\ stored = password
  /\ session = "none" /\ blocked = FALSE /\ refusals = 0 /\ refused = FALSE
  /\ reauth = "none" /\ form = "user" /\ typed = password /\ caps = "none"

-------------------------------------------------------------------------------
(* Answers of the router.                                                   *)

Lost == {"connection", "timeout"}

\* A login: refused credentials are told from an rpcd that is not healthy, and from
\* a lost message.
LoginAnswers(pw) ==
  CASE link = "down" -> Lost
    [] link = "starting" -> {"response", "connection"}
    [] link = "up" ->
           {IF pw = password THEN "ok" ELSE "auth"} \cup (IF steady THEN {} ELSE Lost)

\* What rpcd has read at its start.
Loaded(f) == IF f \in {"absent", "corrupt"} THEN "bare" ELSE f

\* file/read of the ACL file, for a session that may do s.  A call that is refused
\* ends as OpenWrtMethodNotFoundError, like that of a file which is not there.
ReadAnswers(s) ==
  LET content == IF file = "absent" THEN "missing" ELSE file
      judged == CASE s = "current" -> {content}
                  [] s = "old" -> {content, "missing"}
                  [] OTHER -> {"missing"} IN
  IF steady THEN judged ELSE judged \cup {"response", "timeout"}

\* Errors that are treated alike have one representative.
StatAnswers == IF steady THEN {"ok"} ELSE {"ok", "missing", "response", "timeout"}
WriteAnswers == IF steady THEN {"ok", "missing"} ELSE {"ok", "missing", "timeout"}
ExecAnswers == IF steady THEN {"ok"} ELSE {"ok", "missing", "timeout"}

\* The shell command: all of it, the write only (the rest or the answer was lost),
\* or nothing.
ShellAnswers == IF steady THEN {"ok"} ELSE {"ok", "written", "fail"}

AclAnswers(s) ==
  [read: ReadAnswers(s), stat: StatAnswers, write: WriteAnswers, exec: ExecAnswers,
   shell: ShellAnswers]

-------------------------------------------------------------------------------
(* acl_provisioning.py                                                      *)

\* Why ensure_acl deploys; "current" if it does not.  A file that cannot be read is
\* left alone only if the read was lost and the file exists.
Reason(a) ==
  CASE a.read = "current" -> "current"
    [] a.read = "old" -> "outdated"
    [] a.read = "corrupt" -> "corrupted"
    [] a.read = "missing" \/ a.stat = "missing" -> "missing"
    [] a.stat # "ok" -> "unverifiable"
    [] OTHER -> IF a.read \in Lost THEN "current" ELSE "outdated"

\* _deploy_acl: over ubus, and over SSH if rpcd refuses.  A restart that fails is
\* not an error.
Deploy(a) ==
  CASE a.write = "ok" -> [deployed |-> TRUE, error |-> FALSE,
                          written |-> TRUE, restarts |-> a.exec \in {"ok"} \cup Lost]
    [] a.write \in Lost -> [deployed |-> FALSE, error |-> TRUE,
                            written |-> FALSE, restarts |-> FALSE]
    [] OTHER -> [deployed |-> a.shell = "ok", error |-> a.shell # "ok",
                 written |-> a.shell # "fail", restarts |-> a.shell = "ok"]

EnsureAcl(a) ==
  IF Reason(a) = "current"
  THEN [deployed |-> FALSE, error |-> FALSE, written |-> FALSE, restarts |-> FALSE]
  ELSE Deploy(a)

Provisioning(s) == {EnsureAcl(a) : a \in AclAnswers(s)}

\* A restart of rpcd reads the file and ends all sessions.
Carried(r) ==
  /\ file' = IF r.written THEN "current" ELSE file
  /\ granted' = IF r.restarts THEN Loaded(file') ELSE granted
  /\ UNCHANGED <<steady, link, password>>

-------------------------------------------------------------------------------
(* async_setup_entry                                                        *)

\* A new API object logs in.
Start == /\ entry' = "setup" /\ step' = "login"
         /\ session' = "none" /\ blocked' = FALSE /\ refusals' = 0 /\ refused' = FALSE

NotReady == entry' = "retry" /\ step' = "-"

SetupRetried == entry = "retry" /\ Start /\ UNCHANGED <<router, stored, reauth, forms>>

\* Home Assistant opens the form of a reauthentication unless one is open.
StartReauth == reauth' = IF reauth = "none" THEN "reauth" ELSE reauth

\* Fault: a router that answers, but not as rpcd, is taken to refuse.
SetupLoginHasty(x) ==
  /\ step = "login" /\ x \in LoginAnswers(stored)
  /\ CASE x = "ok" -> /\ step' = "acl" /\ session' = granted
                      /\ UNCHANGED <<entry, refused, reauth>>
       [] x \in {"auth", "response"} ->
            /\ entry' = "failed" /\ step' = "-"
            /\ refused' = (x = "auth") /\ StartReauth /\ UNCHANGED session
       [] OTHER -> NotReady /\ UNCHANGED <<session, refused, reauth>>
  /\ UNCHANGED <<router, stored, blocked, refusals, forms>>

SetupLogin(x) ==
  /\ step = "login" /\ x \in LoginAnswers(stored)
  /\ CASE x = "ok" -> /\ step' = "acl" /\ session' = granted
                      /\ UNCHANGED <<entry, refused, reauth>>
       [] x = "auth" -> /\ entry' = "failed" /\ step' = "-"
                        /\ refused' = TRUE /\ StartReauth /\ UNCHANGED session
       [] OTHER -> NotReady /\ UNCHANGED <<session, refused, reauth>>
  /\ UNCHANGED <<router, stored, blocked, refusals, forms>>

\* Whatever ensure_acl does or raises, the set-up goes on; without a deployment with
\* the refusals forgotten (reset_acl_blocked).
SetupAcl(r) ==
  /\ step = "acl"
  /\ Carried(r)
  /\ step' = IF r.deployed THEN "relogin" ELSE "refresh"
  /\ session' = IF r.restarts THEN "dead" ELSE session
  /\ blocked' = FALSE
  /\ UNCHANGED <<entry, stored, refusals, refused, reauth, forms>>

\* Fault: the set-up goes on with the session of before the deployment.
SetupReloginSkipped(x) ==
  /\ step \in {"relogin", "again"} /\ x \in LoginAnswers(stored)
  /\ step' = "refresh"
  /\ blocked' = TRUE
  /\ UNCHANGED <<router, entry, stored, session, refusals, refused, reauth, forms>>

\* A new session for the new permissions, with a second attempt; a failure of both
\* is not an error.  The refusals are forgotten.
SetupRelogin(x) ==
  /\ step \in {"relogin", "again"} /\ x \in LoginAnswers(stored)
  /\ step' = IF x = "ok" \/ step = "again" THEN "refresh" ELSE "again"
  /\ session' = IF x = "ok" THEN granted ELSE session
  /\ blocked' = FALSE
  /\ UNCHANGED <<router, entry, stored, refusals, refused, reauth, forms>>

\* What a poll finds: the session is renewed if it ended, and what the ACL refuses
\* is remembered.  A method of the core that the ACL of a past version refuses may
\* have been granted since by hand.
PollAnswer ==
  IF session \in Grants /\ link = "up" THEN {"ok"} \cup (IF steady THEN {} ELSE Lost)
  ELSE LoginAnswers(stored)

PollOk ==
  LET s == IF session \in Grants THEN session ELSE granted IN
  /\ session' = s
  /\ \/ blocked' = TRUE /\ s # "current"
     \/ UNCHANGED blocked
  /\ refusals' = 0

\* The first refresh, and the platforms.  A failure, also of the login, is not ready.
SetupRefresh(x) ==
  /\ step = "refresh" /\ x \in PollAnswer
  /\ IF x = "ok" THEN entry' = "loaded" /\ step' = "-" /\ PollOk
     ELSE NotReady /\ UNCHANGED <<session, blocked, refusals>>
  /\ UNCHANGED <<router, stored, refused, reauth, forms>>

\* A poll; the third authentication error in a row opens the form of a
\* reauthentication, and there is no further poll until the entry is reloaded.
Poll(x) ==
  /\ entry = "loaded" /\ refusals < 3 /\ x \in PollAnswer
  /\ CASE x = "ok" -> PollOk /\ UNCHANGED <<refused, reauth>>
       [] x = "auth" -> /\ refusals' = refusals + 1 /\ refused' = TRUE
                        /\ IF refusals' = 3 THEN StartReauth ELSE UNCHANGED reauth
                        /\ UNCHANGED <<session, blocked>>
       [] OTHER -> refusals' = 0 /\ UNCHANGED <<session, blocked, refused, reauth>>
  /\ UNCHANGED <<router, entry, step, stored, forms>>

-------------------------------------------------------------------------------
(* config_flow.py                                                           *)

\* The capabilities a login and check_capabilities show; unknown if both logins of
\* the form failed.
Shown(x) == IF x # "ok" THEN "none" ELSE IF granted' = "current" THEN "all" ELSE "some"

\* Validates and, unless the router is set up already, goes on to the checklist.
UserSubmits(pw, x, y) ==
  /\ form = "user" /\ x \in LoginAnswers(pw) /\ y \in LoginAnswers(pw)
  /\ x = "ok"
  /\ typed' = pw
  /\ UNCHANGED <<router, entry, step, stored, api, reauth>>
  /\ IF entry # "none" THEN form' = "none" /\ UNCHANGED caps
     ELSE form' = "checklist" /\ caps' = Shown(y)

\* The deployment of the checklist, whatever becomes of it, and a new check.  It is
\* offered while something is missing.
ChecklistDeploys(r, x, y) ==
  /\ form = "checklist" /\ caps # "all"
  /\ x \in LoginAnswers(typed)
  /\ IF x = "ok" THEN r \in Provisioning(granted) /\ Carried(r) ELSE UNCHANGED router
  /\ y \in LoginAnswers(typed) /\ caps' = Shown(y)
  /\ UNCHANGED <<entry, step, stored, api, reauth, form, typed>>

\* The entry is created and set up.
ChecklistConfirms ==
  /\ form = "checklist"
  /\ stored' = typed /\ form' = "none"
  /\ Start
  /\ UNCHANGED <<router, reauth, typed, caps>>

\* async_update_reload_and_abort
Reload(pw) == entry # "setup" /\ stored' = pw /\ Start /\ reauth' = "none"

\* Fault: credentials that turn out valid close the form without a reload.
DiagnoseOnly(x) ==
  IF x = "ok" THEN reauth' = "none" /\ UNCHANGED <<entry, step, stored, api>>
  ELSE /\ reauth' = CASE x = "response" -> "rpcd_setup"
                    [] x \in Lost -> "cannot_connect"
                    [] x = "auth" -> "confirm"
       /\ UNCHANGED <<entry, step, stored, api>>

\* The stored credentials are validated: they are still good, or the form is chosen
\* by what is wrong.
Diagnose(x) ==
  IF x = "ok" THEN Reload(stored)
  ELSE /\ reauth' = CASE x = "response" -> "rpcd_setup"
                    [] x \in Lost -> "cannot_connect"
                    [] x = "auth" -> "confirm"
       /\ UNCHANGED <<entry, step, stored, api>>

\* async_step_reauth
ReauthOpens(x) ==
  /\ reauth = "reauth" /\ x \in LoginAnswers(stored)
  /\ Diagnose(x)
  /\ UNCHANGED <<router, forms>>

\* The button of the two forms without a password.
ReauthRetried(x) ==
  /\ reauth \in {"rpcd_setup", "cannot_connect"} /\ x \in LoginAnswers(stored)
  /\ Diagnose(x)
  /\ UNCHANGED <<router, forms>>

\* async_step_reauth_confirm: any failure shows the form again.
ReauthConfirmed(pw, x) ==
  /\ reauth = "confirm" /\ x \in LoginAnswers(pw)
  /\ x = "ok"
  /\ Reload(pw)
  /\ UNCHANGED <<router, forms>>

-------------------------------------------------------------------------------
(* Environment.                                                             *)

Ended(s) == IF s \in Grants THEN "dead" ELSE s

LinkChanges ==
  /\ ~steady
  /\ link' \in {"up", "down", "starting"} \ {link}
  /\ session' = IF link' = "starting" THEN Ended(session) ELSE session
  /\ granted' = IF link' = "starting" THEN Loaded(file) ELSE granted
  /\ UNCHANGED <<steady, password, file, entry, step, stored, blocked, refusals, refused,
                 reauth, forms>>

PasswordChanges ==
  /\ ~steady /\ password' \in Passwords
  /\ UNCHANGED <<steady, link, file, granted, entry, step, stored, api, reauth, forms>>

\* Somebody deletes the file, or a write is cut off.
FileSpoilt ==
  /\ ~steady /\ file' \in {"absent", "corrupt"}
  /\ UNCHANGED <<steady, link, password, granted, entry, step, stored, api, reauth, forms>>

SessionExpires ==
  /\ session \in Grants /\ session' = "dead"
  /\ UNCHANGED <<router, entry, step, stored, blocked, refusals, refused, reauth, forms>>

SteadyChanges ==
  /\ link = "up" /\ steady' = ~steady
  /\ UNCHANGED <<link, password, file, granted, entry, step, stored, api, reauth, forms>>

\* The user opens the form for a new entry once more.
FormOpens ==
  /\ form = "none" /\ form' = "user"
  /\ UNCHANGED <<router, entry, step, stored, api, reauth, typed, caps>>

Outcomes == {"ok", "auth", "response", "connection", "timeout"}

SetupSteps ==
  \/ SetupRetried
  \/ \E x \in Outcomes : SetupLogin(x) \/ SetupRelogin(x) \/ SetupRefresh(x)
  \/ step = "acl" /\ \E r \in Provisioning(session) : SetupAcl(r)

Polls == \E x \in Outcomes : Poll(x)
ReauthSteps == \E x \in Outcomes : ReauthOpens(x) \/ ReauthRetried(x)
Confirm == \E pw \in Passwords, x \in Outcomes : ReauthConfirmed(pw, x)

NewEntry ==
  \/ \E pw \in Passwords, x, y \in Outcomes : UserSubmits(pw, x, y)
  \/ form = "checklist" /\ \E r \in Provisioning(granted), x, y \in Outcomes :
                                ChecklistDeploys(r, x, y)
  \/ ChecklistConfirms \/ FormOpens

Next ==
  \/ SetupSteps \/ Polls \/ ReauthSteps \/ Confirm \/ NewEntry
  \/ LinkChanges \/ PasswordChanges \/ FileSpoilt \/ SessionExpires \/ SteadyChanges

Spec == Init /\ [][Next]_vars

\* Set-ups, retries and polls go on; the user presses the button of a form that asks
\* for it, and at last types the password the router has.
Fairness == WF_vars(SetupSteps) /\ WF_vars(Polls) /\ WF_vars(ReauthSteps) /\ SF_vars(Confirm)

LiveSpec == Spec /\ Fairness

-------------------------------------------------------------------------------
(* Properties                                                               *)

\* A reauthentication is asked for only of a router that refused the stored password
\* in this set-up, never of one that is away or restarts (login).
ReauthOnlyAfterRefusal == reauth # "none" => refused

\* However the failures came, an entry is loaded and polled in the end once its
\* router is steady, if the user answers the forms.
EntryRecovers == <>[]steady => <>[](entry = "none" \/ (entry = "loaded" /\ refusals < 3))

\* A set-up against a steady router ends with the ACL of this version in force for
\* its session, and nothing remembered as refused by an older one; unless an earlier
\* deployment had written the file and not restarted rpcd.
SetupGrants ==
  [](step = "login" /\ stored = password /\ []steady =>
       <>(\/ entry = "loaded" /\ session = "current" /\ ~blocked
          \/ file = "current" /\ granted # "current"))
================================================================================
