----------------------------- MODULE MCServices -----------------------------
(***************************************************************************)
(* The services that run beside Builds, Validations and Publications.  They *)
(* share no state and call one another only through requests that each      *)
(* module has as actions of its own, so a behaviour of all of them is one    *)
(* of each: every initial state puts one service in focus and leaves the    *)
(* others at rest, and the instances add up instead of multiplying.         *)
(***************************************************************************)
EXTENDS StorageMaintenance, AutomationScheduler, WorkspaceCleanup,
        RecipeStore, Settings, RepositoryBootstrap

CONSTANTS e1, e2, noEditor, a1, a2, noAdmin

VARIABLE focus

allVars == <<vars, schedulerVars, cleanupVars, recipeVars, settingsVars,
             bootVars, focus>>

(* Where each service stays while another one is in focus.                 *)
StorageRests == Init
SchedulerRests == SchedulerInit
CleanupRests == CleanupInit /\ \A r \in BuildRuns : run[r].status = "failed"
RecipesRest == RecipesInit /\ \A n \in Paths : file[n] # NoFile
SettingsRest == SettingsInit /\ settings.mode = "none"
                    /\ settings.limits = "valid" /\ secrets = {}
BootstrapRests == BootstrapInit /\ step = "ready"

ServicesInit ==
    \/ /\ focus = "storage" /\ Init /\ SchedulerRests /\ CleanupRests
       /\ RecipesRest /\ SettingsRest /\ BootstrapRests
    \/ /\ focus = "scheduler" /\ StorageRests /\ SchedulerInit /\ CleanupRests
       /\ RecipesRest /\ SettingsRest /\ BootstrapRests
    \/ /\ focus = "cleanup" /\ StorageRests /\ SchedulerRests /\ CleanupInit
       /\ RecipesRest /\ SettingsRest /\ BootstrapRests
    \/ /\ focus = "recipes" /\ StorageRests /\ SchedulerRests /\ CleanupRests
       /\ RecipesInit /\ SettingsRest /\ BootstrapRests
    \/ /\ focus = "settings" /\ StorageRests /\ SchedulerRests /\ CleanupRests
       /\ RecipesRest /\ SettingsInit /\ BootstrapRests
    \/ /\ focus = "bootstrap" /\ StorageRests /\ SchedulerRests /\ CleanupRests
       /\ RecipesRest /\ SettingsRest /\ BootstrapInit

ServicesNext ==
    /\ UNCHANGED focus
    /\ \/ /\ focus = "storage" /\ Next
          /\ UNCHANGED <<schedulerVars, cleanupVars, recipeVars,
                         settingsVars, bootVars>>
       \/ /\ focus = "scheduler" /\ SchedulerNext
          /\ UNCHANGED <<vars, cleanupVars, recipeVars,
                         settingsVars, bootVars>>
       \/ /\ focus = "cleanup" /\ CleanupNext
          /\ UNCHANGED <<vars, schedulerVars, recipeVars,
                         settingsVars, bootVars>>
       \/ /\ focus = "recipes" /\ RecipesNext
          /\ UNCHANGED <<vars, schedulerVars, cleanupVars,
                         settingsVars, bootVars>>
       \/ /\ focus = "settings" /\ SettingsNext
          /\ UNCHANGED <<vars, schedulerVars, cleanupVars,
                         recipeVars, bootVars>>
       \/ /\ focus = "bootstrap" /\ BootstrapNext
          /\ UNCHANGED <<vars, schedulerVars, cleanupVars,
                         recipeVars, settingsVars>>

(* The maintenance worker runs and time passes; the scheduler's thread and  *)
(* workers run, upstream answers, and the executor's queue is first in,     *)
(* first out.  systemd starts the bootstrap again.                          *)
Fairness ==
    /\ WF_vars(Worker) /\ WF_vars(BecomeDue)
    /\ WF_schedulerVars(focus = "scheduler" /\ ThreadStep)
    /\ \A r \in Recipes :
          /\ WF_schedulerVars(focus = "scheduler" /\ WorkerStep(r))
          /\ SF_schedulerVars(focus = "scheduler" /\ StartWorker(r))
    /\ WF_bootVars(focus = "bootstrap" /\ BootstrapStep)
    /\ WF_bootVars(focus = "bootstrap" /\ OrphanEnds)

ServicesSpec == ServicesInit /\ [][ServicesNext]_allVars /\ Fairness
=============================================================================
