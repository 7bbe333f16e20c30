------------------------------ MODULE Settings ------------------------------
(***************************************************************************)
(* settings.json and secrets.json, which administrators change while the    *)
(* application runs and which must be acceptable to one another whenever it  *)
(* starts (settings_service.py, settings_store.py).                         *)
(*                                                                         *)
(* Of the Settings only the authentication mode, and whether the resource   *)
(* limits are valid, matter here; of the secrets, whether the OIDC client   *)
(* secret, the cookie secret and another one are there.  A secret can be    *)
(* replaced, never withdrawn.  The environment may provide some of them.    *)
(***************************************************************************)
EXTENDS Integers

CONSTANTS Admins, NoAdmin,
          Environment,      \* secrets that environment variables provide
          MaxUpdates,       \* bound: updates begun
          MaxRestarts       \* bound: crashes

ASSUME SettingsAssumption ==
    /\ NoAdmin \notin Admins
    /\ MaxUpdates \in Nat /\ MaxRestarts \in Nat

Secrets == {"client", "session", "other"}
Modes == {"none", "oidc"}
Documents == [mode : Modes, limits : {"valid", "invalid"}]

VARIABLES
    settings, secrets,      \* the two files
    settingsLock,           \* who holds the path lock of settings.json
    plan,                   \* what each administrator is about to save
    server,                 \* "starting", "up" or "down"
    updates, restarts

settingsVars == <<settings, secrets, settingsLock, plan, server, updates,
                  restarts>>

Idle == [at |-> "idle", secrets |-> {},
         settings |-> [mode |-> "none", limits |-> "valid"]]

(* _require_oidc_client_secret()                                           *)
HasClientSecret(document, stored) ==
    document.mode = "oidc" => "client" \in stored \cup Environment

SettingsInit ==
    /\ settings \in Documents /\ secrets \in SUBSET Secrets
    /\ HasClientSecret(settings, secrets)
    /\ settingsLock = NoAdmin
    /\ plan = [a \in Admins |-> Idle]
    /\ server = "down" /\ updates = 0 /\ restarts = 0

-----------------------------------------------------------------------------
(* validate_app_settings_storage(): the start is refused, or goes on.      *)
StartServer ==
    /\ server = "down"
    /\ settings.limits = "valid" /\ HasClientSecret(settings, secrets)
    /\ server' = "starting"
    /\ UNCHANGED <<settings, secrets, settingsLock, plan, updates, restarts>>

(* prepare_authentication_for_startup(): a cookie secret is made unless    *)
(* there is one; a failed write ends the start.                            *)
PrepareCookie(ok) ==
    /\ server = "starting"
    /\ LET missing == settings.mode = "oidc"
                         /\ "session" \notin secrets \cup Environment
       IN  secrets' = IF missing /\ ok THEN secrets \cup {"session"}
                      ELSE secrets
    /\ server' = IF ok THEN "up" ELSE "down"
    /\ UNCHANGED <<settings, settingsLock, plan, updates, restarts>>

(* Somebody edits settings.json by hand; external.                         *)
SpoilLimits ==
    /\ settings.limits = "valid" /\ settingsLock = NoAdmin
    /\ settings' = [settings EXCEPT !.limits = "invalid"]
    /\ UNCHANGED <<secrets, settingsLock, plan, server, updates, restarts>>

Die ==
    /\ server # "down" /\ restarts < MaxRestarts
    /\ restarts' = restarts + 1
    /\ server' = "down"
    /\ settingsLock' = NoAdmin /\ plan' = [a \in Admins |-> Idle]
    /\ UNCHANGED <<settings, secrets, updates>>

-----------------------------------------------------------------------------
(* update_settings(), under the lock from the first read to the last write *)

(* _mutation_plan(): the secrets to be saved, with a cookie secret if the  *)
(* new mode needs one.                                                     *)
NewSecrets(document, given) ==
    secrets \cup given \cup
        (IF document.mode = "oidc" THEN {"session"} \ Environment ELSE {})

BeginUpdate(a, mode, given) ==
    LET document == [settings EXCEPT !.mode = mode]
        stored == NewSecrets(document, given)
    IN  /\ server = "up" /\ plan[a].at = "idle" /\ settingsLock = NoAdmin
        /\ settings.limits = "valid" /\ updates < MaxUpdates
        /\ HasClientSecret(document, secrets \cup given)
        /\ updates' = updates + 1
        /\ settingsLock' = a
        /\ plan' = [plan EXCEPT ![a] = [at |-> "refresh", secrets |-> stored,
                                        settings |-> document]]
        /\ UNCHANGED <<settings, secrets, server, restarts>>

(* repair_resource_limits(): with invalid limits nothing else changes.     *)
BeginRepair(a) ==
    /\ server = "up" /\ plan[a].at = "idle" /\ settingsLock = NoAdmin
    /\ settings.limits = "invalid" /\ updates < MaxUpdates
    /\ HasClientSecret(settings, secrets)
    /\ updates' = updates + 1
    /\ settingsLock' = a
    /\ plan' = [plan EXCEPT ![a] =
                  [at |-> "settings", secrets |-> secrets,
                   settings |-> [settings EXCEPT !.limits = "valid"]]]
    /\ UNCHANGED <<settings, secrets, server, restarts>>

Abandon(a) ==
    plan' = [plan EXCEPT ![a] = Idle] /\ settingsLock' = NoAdmin

(* before_save(): the repository is refreshed, or the update ends here.    *)
RefreshRepository(a, ok) ==
    /\ plan[a].at = "refresh"
    /\ IF ok THEN /\ plan' = [plan EXCEPT ![a].at = "secrets"]
                  /\ UNCHANGED settingsLock
       ELSE Abandon(a)
    /\ UNCHANGED <<settings, secrets, server, updates, restarts>>

(* Faulty variants of the next two actions: settings.json goes first.      *)
SaveSettingsFirst(a, outcome) ==
    /\ plan[a].at = "secrets"
    /\ settings' = IF outcome = "lost" THEN settings ELSE plan[a].settings
    /\ IF outcome = "saved"
       THEN /\ plan' = [plan EXCEPT ![a].at = "settings"]
            /\ UNCHANGED settingsLock
       ELSE Abandon(a)
    /\ UNCHANGED <<secrets, server, updates, restarts>>

(* save_secrets(), if they changed.  A write is lost, or takes effect and  *)
(* fails late; then the update ends.                                       *)
SaveSecrets(a, outcome) ==
    /\ plan[a].at = "secrets"
    /\ secrets' = IF outcome = "lost" THEN secrets ELSE plan[a].secrets
    /\ IF outcome = "saved" \/ plan[a].secrets = secrets
       THEN /\ plan' = [plan EXCEPT ![a].at = "settings"]
            /\ UNCHANGED settingsLock
       ELSE Abandon(a)
    /\ UNCHANGED <<settings, server, updates, restarts>>

(* save_settings()                                                         *)
SaveSettings(a, outcome) ==
    /\ plan[a].at = "settings"
    /\ settings' = IF outcome = "lost" THEN settings ELSE plan[a].settings
    /\ Abandon(a)
    /\ UNCHANGED <<secrets, server, updates, restarts>>

SettingsNext ==
    \/ StartServer \/ SpoilLimits \/ Die
    \/ \E ok \in BOOLEAN : PrepareCookie(ok)
    \/ \E a \in Admins :
          \/ \E mode \in Modes, given \in SUBSET {"client", "other"} :
                BeginUpdate(a, mode, given)
          \/ BeginRepair(a)
          \/ \E ok \in BOOLEAN : RefreshRepository(a, ok)
          \/ \E outcome \in {"saved", "late", "lost"} :
                SaveSecrets(a, outcome) \/ SaveSettings(a, outcome)

SettingsSpec == SettingsInit /\ [][SettingsNext]_settingsVars

-----------------------------------------------------------------------------
(* Wherever the process dies or a write fails, the two files fit together: *)
(* a server that authenticates with OIDC finds its client secret at the    *)
(* next start, and while it serves it can sign the cookies of the mode     *)
(* that is in force.                                                       *)
StartupAccepts ==
    /\ HasClientSecret(settings, secrets)
    /\ server = "up" /\ settings.mode = "oidc"
          => "session" \in secrets \cup Environment
=============================================================================
