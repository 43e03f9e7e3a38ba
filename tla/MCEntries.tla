------------------------------- MODULE MCEntries -------------------------------
(*****************************************************************************)
(* The life of config entries: the topology panel and the channel conflicts  *)
(* that all share, and the set-up of one entry with its repairs. They share a*)
(* run, not state: in a behaviour one of them runs (part) while the others   *)
(* stay where they are.                                                      *)
(*****************************************************************************)
EXTENDS TopologyPanel, TLC

CONSTANTS e1, e2, e3,
          Passwords   \* of the router

ThreeEntries == {e1, e2, e3}

VARIABLES
  part, steady, link, password, file, granted, entry, step, stored, session, blocked,
  refusals, refused, reauth, form, typed, caps, loaded, up, plan, radio, success, streak,
  clean, issue, partial, events

Life == INSTANCE EntrySetup WITH
  Passwords <- Passwords, steady <- steady, link <- link, password <- password, file <- file,
  granted <- granted, entry <- entry, step <- step, stored <- stored, session <- session,
  blocked <- blocked, refusals <- refusals, refused <- refused, reauth <- reauth,
  form <- form, typed <- typed, caps <- caps

Channels == INSTANCE ChannelPlan WITH
  Entries <- Entries, Channels <- {1, 3, 6}, Polls <- 2, MaxEvents <- 2, loaded <- loaded,
  up <- up, plan <- plan, radio <- radio, success <- success, streak <- streak,
  clean <- clean, issue <- issue, partial <- partial, events <- events

setupVars == <<steady, link, password, file, granted, entry, step, stored, session,
                blocked, refusals, refused, reauth, form, typed, caps>>
channelsVars == <<loaded, up, plan, radio, success, streak, clean, issue, partial, events>>

\* A part that does not run stays at one of its initial states.
MCInit ==
  /\ part \in {"panel", "setup", "channels"}
  /\ Init
  /\ part # "panel" =>
       option = [e \in Entries |-> "closed"]
  /\ Life!Init
  /\ part # "setup" =>
       /\ ~steady
       /\ password = CHOOSE p \in Passwords : TRUE
       /\ file = "old"
  /\ Channels!Init
  /\ part # "channels" =>
       plan = [e \in Entries |-> 1]

OnlyPanel ==
  /\ part = "panel"
  /\ UNCHANGED <<part, setupVars, channelsVars>>

OnlySetup ==
  /\ part = "setup"
  /\ UNCHANGED <<part, vars, channelsVars>>

OnlyChannels ==
  /\ part = "channels"
  /\ UNCHANGED <<part, vars, setupVars>>

MCNext ==
  \/ OnlyPanel /\ Next
  \/ OnlySetup /\ Life!Next
  \/ OnlyChannels /\ Channels!Next

allVars == <<part, vars, setupVars, channelsVars>>

MCSpec == MCInit /\ [][MCNext]_allVars

MCLiveSpec ==
  /\ MCSpec
  /\ WF_setupVars(part = "setup" /\ Life!SetupSteps)
  /\ WF_setupVars(part = "setup" /\ Life!Polls)
  /\ WF_setupVars(part = "setup" /\ Life!ReauthSteps)
  /\ SF_setupVars(part = "setup" /\ Life!Confirm)
  /\ \A e \in Entries :
       WF_channelsVars(part = "channels" /\ (Channels!PollSucceeds(e) \/ Channels!PollFails(e)))

--------------------------------------------------------------------------------
ASSUME EntriesAssumptions == Life!PasswordsAssumption

\* A reauthentication is asked for only after the stored password was refused.
ReauthIsDue == Life!TypeOK /\ Life!ReauthOnlyAfterRefusal

\* An entry is loaded and polled in the end once its router is steady.
EntryRecovers == Life!EntryRecovers

\* A set-up against a steady router ends with the current ACL in force.
SetupGrants == Life!SetupGrants

\* The channel issue comes to name the conflicts of a stable fleet.
IssueSettles == part = "channels" => Channels!IssueSettles
================================================================================
