--------------------------- MODULE SettingsProofs ---------------------------
(***************************************************************************)
(* settings.json and secrets.json fit together at every moment, for any    *)
(* number of administrators, updates and crashes.                          *)
(*                                                                         *)
(* StartupAccepts is not inductive: when settings.json is written nothing  *)
(* looks at secrets.json again.  What makes the write safe is that the     *)
(* plan was made under the lock the writer still holds, that the secrets   *)
(* of the plan only add to the stored ones, and that they were stored      *)
(* before.                                                                 *)
(***************************************************************************)
EXTENDS Settings, TLAPS

Steps == {"idle", "refresh", "secrets", "settings"}

TypeOK ==
    /\ settings \in Documents
    /\ secrets \in SUBSET Secrets
    /\ plan \in [Admins -> [at : Steps, secrets : SUBSET Secrets,
                            settings : Documents]]

(* Whoever is inside update_settings() or repair_resource_limits() has the *)
(* lock, and only a serving process updates.                               *)
LockOK ==
    \A a \in Admins : plan[a].at # "idle" => settingsLock = a /\ server = "up"

(* The two documents of a plan fit together, and the stored secrets are    *)
(* among those of the plan: all of them, once they have been saved.        *)
Fits(p) ==
    /\ HasClientSecret(p.settings, p.secrets)
    /\ p.settings.mode = "oidc" => "session" \in p.secrets \cup Environment
    /\ secrets \subseteq p.secrets
    /\ p.at = "settings" => p.secrets \subseteq secrets

PlanOK == \A a \in Admins : plan[a].at # "idle" => Fits(plan[a])

SettingsInv == TypeOK /\ LockOK /\ PlanOK /\ StartupAccepts

-----------------------------------------------------------------------------
LEMMA InitInv == SettingsInit => SettingsInv
  BY SettingsAssumption
  DEF SettingsInit, SettingsInv, TypeOK, LockOK, PlanOK, StartupAccepts,
      Idle, Steps, Secrets, Documents, Modes

(* Only the holder of the lock is inside an update.                        *)
LEMMA OthersIdle ==
  ASSUME LockOK, NEW a \in Admins, plan[a].at # "idle"
  PROVE  \A b \in Admins : b # a => plan[b].at = "idle"
  BY DEF LockOK

(* While nobody holds the lock, nobody is inside an update.                *)
LEMMA FreeMeansIdle ==
  ASSUME LockOK, settingsLock = NoAdmin
  PROVE  \A b \in Admins : plan[b].at = "idle"
  BY SettingsAssumption DEF LockOK

LEMMA StartServerInv ==
  ASSUME SettingsInv, StartServer
  PROVE  SettingsInv'
<1>1. \A a \in Admins : plan[a].at = "idle"
  BY DEF SettingsInv, LockOK, StartServer
<1> QED
  BY <1>1 DEF SettingsInv, StartServer, TypeOK, LockOK, PlanOK,
              StartupAccepts, HasClientSecret

LEMMA PrepareCookieInv ==
  ASSUME SettingsInv, NEW ok \in BOOLEAN, PrepareCookie(ok)
  PROVE  SettingsInv'
<1>1. \A a \in Admins : plan[a].at = "idle"
  BY DEF SettingsInv, LockOK, PrepareCookie
<1>2. secrets' \in SUBSET Secrets /\ secrets \subseteq secrets'
  BY DEF SettingsInv, TypeOK, PrepareCookie, Secrets
<1>3. server' = "up" /\ settings'.mode = "oidc"
        => "session" \in secrets' \cup Environment
  BY DEF PrepareCookie
<1> QED
  BY <1>1, <1>2, <1>3 DEF SettingsInv, PrepareCookie, TypeOK, LockOK, PlanOK,
                          StartupAccepts, HasClientSecret

LEMMA SpoilLimitsInv ==
  ASSUME SettingsInv, SpoilLimits
  PROVE  SettingsInv'
<1>1. \A a \in Admins : plan[a].at = "idle"
  BY FreeMeansIdle DEF SettingsInv, SpoilLimits
<1>2. settings' \in Documents /\ settings'.mode = settings.mode
  BY DEF SettingsInv, TypeOK, SpoilLimits, Documents
<1> QED
  BY <1>1, <1>2 DEF SettingsInv, SpoilLimits, TypeOK, LockOK, PlanOK,
                    StartupAccepts, HasClientSecret

LEMMA DieInv ==
  ASSUME SettingsInv, Die
  PROVE  SettingsInv'
<1>1. plan' \in [Admins -> [at : Steps, secrets : SUBSET Secrets,
                            settings : Documents]]
      /\ \A a \in Admins : plan'[a].at = "idle"
  BY DEF Die, Idle, Steps, Secrets, Documents, Modes
<1> QED
  BY <1>1 DEF SettingsInv, Die, TypeOK, LockOK, PlanOK, StartupAccepts,
              HasClientSecret

(* A plan is made under the lock from documents that fit together.         *)
LEMMA BeginUpdateInv ==
  ASSUME SettingsInv, NEW a \in Admins, NEW mode \in Modes,
         NEW given \in SUBSET {"client", "other"}, BeginUpdate(a, mode, given)
  PROVE  SettingsInv'
<1> DEFINE document == [settings EXCEPT !.mode = mode]
           stored == NewSecrets(document, given)
<1>1. \A b \in Admins : plan[b].at = "idle"
  BY FreeMeansIdle DEF SettingsInv, BeginUpdate
<1>2. document \in Documents
  BY DEF SettingsInv, TypeOK, Documents
<1>3. /\ stored \in SUBSET Secrets
      /\ secrets \subseteq stored /\ given \subseteq stored
      /\ document.mode = "oidc" => "session" \in stored \cup Environment
  BY DEF SettingsInv, TypeOK, NewSecrets, Secrets
<1>4. HasClientSecret(document, stored)
  BY <1>3 DEF BeginUpdate, HasClientSecret
<1>5. /\ plan' = [plan EXCEPT ![a] = [at |-> "refresh", secrets |-> stored,
                                      settings |-> document]]
      /\ settingsLock' = a /\ server = "up"
      /\ UNCHANGED <<settings, secrets, server>>
  BY DEF BeginUpdate
<1> HIDE DEF document, stored
<1>6. TypeOK'
  BY <1>2, <1>3, <1>5 DEF SettingsInv, TypeOK, Steps
<1>7. /\ plan'[a] = [at |-> "refresh", secrets |-> stored,
                     settings |-> document]
      /\ \A b \in Admins : b # a => plan'[b].at = "idle"
  BY <1>1, <1>5 DEF SettingsInv, TypeOK
<1>8. LockOK' /\ PlanOK'
  BY <1>3, <1>4, <1>5, <1>7 DEF LockOK, PlanOK, Fits, HasClientSecret
<1> QED
  BY <1>5, <1>6, <1>8 DEF SettingsInv, StartupAccepts, HasClientSecret

LEMMA BeginRepairInv ==
  ASSUME SettingsInv, NEW a \in Admins, BeginRepair(a)
  PROVE  SettingsInv'
<1> DEFINE document == [settings EXCEPT !.limits = "valid"]
<1>1. \A b \in Admins : plan[b].at = "idle"
  BY FreeMeansIdle DEF SettingsInv, BeginRepair
<1>2. document \in Documents /\ document.mode = settings.mode
  BY DEF SettingsInv, TypeOK, Documents
<1>3. /\ plan' = [plan EXCEPT ![a] = [at |-> "settings", secrets |-> secrets,
                                      settings |-> document]]
      /\ settingsLock' = a /\ server = "up"
      /\ UNCHANGED <<settings, secrets, server>>
  BY DEF BeginRepair
<1> HIDE DEF document
<1>4. TypeOK'
  BY <1>2, <1>3 DEF SettingsInv, TypeOK, Steps
<1>5. /\ plan'[a] = [at |-> "settings", secrets |-> secrets,
                     settings |-> document]
      /\ \A b \in Admins : b # a => plan'[b].at = "idle"
  BY <1>1, <1>3 DEF SettingsInv, TypeOK
<1>6. LockOK' /\ PlanOK'
  BY <1>2, <1>3, <1>5 DEF LockOK, PlanOK, Fits, SettingsInv, StartupAccepts,
                          HasClientSecret
<1> QED
  BY <1>3, <1>4, <1>6 DEF SettingsInv, StartupAccepts, HasClientSecret

(* An update that ends leaves nobody inside.                               *)
LEMMA AbandonInv ==
  ASSUME SettingsInv, NEW a \in Admins, plan[a].at # "idle", Abandon(a)
  PROVE  /\ plan' \in [Admins -> [at : Steps, secrets : SUBSET Secrets,
                                  settings : Documents]]
         /\ LockOK' /\ PlanOK'
<1>1. \A b \in Admins : plan'[b].at = "idle"
  BY OthersIdle DEF SettingsInv, TypeOK, Abandon, Idle
<1>2. plan' \in [Admins -> [at : Steps, secrets : SUBSET Secrets,
                            settings : Documents]]
  BY DEF SettingsInv, TypeOK, Abandon, Idle, Steps, Secrets, Documents, Modes
<1> QED
  BY <1>1, <1>2 DEF LockOK, PlanOK

LEMMA RefreshRepositoryInv ==
  ASSUME SettingsInv, NEW a \in Admins, NEW ok \in BOOLEAN,
         RefreshRepository(a, ok)
  PROVE  SettingsInv'
<1>1. CASE ok
  <2>1. /\ plan' = [plan EXCEPT ![a].at = "secrets"]
        /\ plan[a].at = "refresh"
        /\ UNCHANGED <<settings, secrets, settingsLock, server>>
    BY <1>1 DEF RefreshRepository
  <2>2. TypeOK'
    BY <2>1 DEF SettingsInv, TypeOK, Steps
  <2>3. /\ plan'[a].settings = plan[a].settings
        /\ plan'[a].secrets = plan[a].secrets /\ plan'[a].at = "secrets"
        /\ \A b \in Admins : b # a => plan'[b] = plan[b]
    BY <2>1 DEF SettingsInv, TypeOK
  <2>4. LockOK' /\ PlanOK'
    BY <2>1, <2>3 DEF SettingsInv, LockOK, PlanOK, Fits, HasClientSecret
  <2> QED
    BY <2>1, <2>2, <2>4 DEF SettingsInv, StartupAccepts, HasClientSecret
<1>2. CASE ~ ok
  <2>1. Abandon(a) /\ plan[a].at = "refresh"
        /\ UNCHANGED <<settings, secrets, server>>
    BY <1>2 DEF RefreshRepository
  <2> QED
    BY <2>1, AbandonInv DEF SettingsInv, TypeOK, StartupAccepts,
                            HasClientSecret
<1> QED BY <1>1, <1>2

(* secrets.json only grows, whatever the write did.                        *)
LEMMA SaveSecretsInv ==
  ASSUME SettingsInv, NEW a \in Admins,
         NEW outcome \in {"saved", "late", "lost"}, SaveSecrets(a, outcome)
  PROVE  SettingsInv'
<1>1. /\ plan[a].at = "secrets" /\ UNCHANGED <<settings, server>>
      /\ secrets' = IF outcome = "lost" THEN secrets ELSE plan[a].secrets
  BY DEF SaveSecrets
<1>2. secrets' \in SUBSET Secrets /\ secrets \subseteq secrets'
  BY <1>1 DEF SettingsInv, TypeOK, PlanOK, Fits
<1>3. StartupAccepts'
  BY <1>1, <1>2 DEF SettingsInv, StartupAccepts, HasClientSecret
<1>4. CASE outcome = "saved" \/ plan[a].secrets = secrets
  <2>1. /\ plan' = [plan EXCEPT ![a].at = "settings"]
        /\ UNCHANGED settingsLock /\ secrets' = plan[a].secrets
    BY <1>4, <1>1 DEF SaveSecrets
  <2>2. TypeOK'
    BY <1>1, <1>2, <2>1 DEF SettingsInv, TypeOK, Steps
  <2>3. /\ plan'[a].settings = plan[a].settings
        /\ plan'[a].secrets = plan[a].secrets /\ plan'[a].at = "settings"
        /\ \A b \in Admins : b # a => plan'[b] = plan[b]
    BY <2>1 DEF SettingsInv, TypeOK
  <2>4. \A b \in Admins : b # a => plan[b].at = "idle"
    BY <1>1, OthersIdle DEF SettingsInv
  <2>5. LockOK' /\ PlanOK'
    BY <1>1, <2>1, <2>3, <2>4 DEF SettingsInv, LockOK, PlanOK, Fits,
                                  HasClientSecret
  <2> QED BY <1>3, <2>2, <2>5 DEF SettingsInv
<1>5. CASE ~ (outcome = "saved" \/ plan[a].secrets = secrets)
  <2>1. Abandon(a)
    BY <1>5 DEF SaveSecrets
  <2> QED
    BY <1>1, <1>2, <1>3, <2>1, AbandonInv DEF SettingsInv, TypeOK
<1> QED BY <1>4, <1>5

(* The write the order is for: the secrets of this plan are stored.        *)
LEMMA SaveSettingsInv ==
  ASSUME SettingsInv, NEW a \in Admins,
         NEW outcome \in {"saved", "late", "lost"}, SaveSettings(a, outcome)
  PROVE  SettingsInv'
<1>1. /\ plan[a].at = "settings" /\ Abandon(a) /\ UNCHANGED <<secrets, server>>
      /\ settings' = IF outcome = "lost" THEN settings ELSE plan[a].settings
  BY DEF SaveSettings
<1>2. Fits(plan[a]) /\ plan[a].secrets = secrets
  BY <1>1 DEF SettingsInv, PlanOK, Fits
<1>3. settings' \in Documents
  BY <1>1 DEF SettingsInv, TypeOK
<1>4. StartupAccepts'
  BY <1>1, <1>2 DEF SettingsInv, StartupAccepts, Fits, HasClientSecret
<1> QED
  BY <1>1, <1>3, <1>4, AbandonInv DEF SettingsInv, TypeOK

LEMMA NextInv == SettingsInv /\ [SettingsNext]_settingsVars => SettingsInv'
<1> SUFFICES ASSUME SettingsInv, [SettingsNext]_settingsVars
             PROVE  SettingsInv'
  OBVIOUS
<1>1. CASE StartServer BY <1>1, StartServerInv
<1>2. CASE SpoilLimits BY <1>2, SpoilLimitsInv
<1>3. CASE Die BY <1>3, DieInv
<1>4. CASE \E ok \in BOOLEAN : PrepareCookie(ok)
  BY <1>4, PrepareCookieInv
<1>5. ASSUME NEW a \in Admins, NEW mode \in Modes,
             NEW given \in SUBSET {"client", "other"},
             BeginUpdate(a, mode, given)
      PROVE  SettingsInv'
  BY <1>5, BeginUpdateInv
<1>6. ASSUME NEW a \in Admins, BeginRepair(a)
      PROVE  SettingsInv'
  BY <1>6, BeginRepairInv
<1>7. ASSUME NEW a \in Admins, NEW ok \in BOOLEAN, RefreshRepository(a, ok)
      PROVE  SettingsInv'
  BY <1>7, RefreshRepositoryInv
<1>8. ASSUME NEW a \in Admins, NEW outcome \in {"saved", "late", "lost"},
             SaveSecrets(a, outcome) \/ SaveSettings(a, outcome)
      PROVE  SettingsInv'
  BY <1>8, SaveSecretsInv, SaveSettingsInv
<1>9. CASE UNCHANGED settingsVars
  BY <1>9 DEF settingsVars, SettingsInv, TypeOK, LockOK, PlanOK, Fits,
              StartupAccepts, HasClientSecret
<1> QED
  BY <1>1, <1>2, <1>3, <1>4, <1>5, <1>6, <1>7, <1>8, <1>9 DEF SettingsNext

(* Wherever the process dies or a write of update_settings() or of         *)
(* repair_resource_limits() fails, settings.json finds the client secret   *)
(* it needs in secrets.json at the next start, and a serving process finds *)
(* its cookie secret.                                                      *)
THEOREM DocumentsFit == SettingsSpec => []StartupAccepts
<1>1. SettingsInv => StartupAccepts
  BY DEF SettingsInv
<1> QED
  BY InitInv, NextInv, <1>1, PTL DEF SettingsSpec
=============================================================================
