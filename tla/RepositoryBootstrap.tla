------------------------ MODULE RepositoryBootstrap ------------------------
(***************************************************************************)
(* bootstrap_repository() (local_repository_bootstrap.py): it runs when the *)
(* package is installed, before every start and before Settings are saved,  *)
(* and makes what is missing of the signed APT repository: the signing key, *)
(* conf/distributions, the record of the key, the public key, a first       *)
(* export, and two public assets.  It may stop after any of these.          *)
(*                                                                         *)
(* One bootstrap at a time has the repository lease; an export that         *)
(* outlives its parent inherits it, a key generation does not.  Ownership,  *)
(* modes and the contents of configuration files are as they should be.     *)
(* What Publication does to the repository in between is external here.     *)
(***************************************************************************)
EXTENDS Integers, FiniteSets

CONSTANTS MaxKeys,      \* bound: keys generated
          MaxStops      \* bound: failures, crashes and outside changes

ASSUME BootstrapAssumption == MaxKeys \in Nat \ {0} /\ MaxStops \in Nat

Keys == 1..MaxKeys
NoKey == 0
Assets == {"index.html", "install.sh"}

VARIABLES
    keys,           \* secret keys in the GnuPG home
    config,         \* the key that conf/distributions names
    record,         \* the key that the record in the data directory names
    public,         \* the key in repository.gpg
    repo,           \* the database, the pool, and the signed export
    assets,         \* index.html and install.sh
    step, chosen,   \* the bootstrap: where it is, and the key it settled on
    orphan,         \* the command a dead bootstrap left behind
    overtaken,      \* an orphan made a key next to another one
    stops

bootVars == <<keys, config, record, public, repo, assets, step, chosen,
              orphan, overtaken, stops>>
identityVars == <<keys, config, record, public>>

(* A new host, or one where the application runs on its repository.        *)
BootstrapInit ==
    \E made \in BOOLEAN :
        LET key == IF made THEN 1 ELSE NoKey
        IN  /\ keys = {key} \ {NoKey}
            /\ config = key /\ record = key /\ public = key
            /\ repo = [db |-> made, packages |-> FALSE,
                       export |-> IF made THEN "current" ELSE "none"]
            /\ assets = [a \in Assets |-> IF made THEN "current" ELSE "none"]
            /\ step = IF made THEN "ready" ELSE "down"
            /\ chosen = NoKey /\ orphan = "none"
            /\ overtaken = FALSE /\ stops = 0

-----------------------------------------------------------------------------
Disturbance == stops < MaxStops /\ stops' = stops + 1

(* An exception, a refusal, or success: the process ends or goes on.       *)
Ends(how) == step' = how /\ chosen' = NoKey

(* A file is replaced atomically: the write is done, is lost, or takes     *)
(* effect and fails late.                                                  *)
Written(outcome, next) ==
    IF outcome = "done" THEN step' = next /\ UNCHANGED <<chosen, stops>>
    ELSE Ends("down") /\ Disturbance

AfterWrite(outcome, old, new) == IF outcome = "lost" THEN old ELSE new

-----------------------------------------------------------------------------
(* The lease is waited for.                                                *)
Begin ==
    /\ step \in {"down", "refused", "ready"} /\ orphan # "export"
    /\ step' = "inspect"
    /\ UNCHANGED <<identityVars, repo, assets, chosen, orphan, overtaken, stops>>

(* Only a repository without any data, and without a record, is new.       *)
Pristine ==
    ~repo.db /\ ~repo.packages /\ repo.export = "none" /\ record = NoKey

(* The key of the configuration must be there and be the recorded one.     *)
ConfigAccepted == record \in {NoKey, config} /\ config \in keys

Inspect ==
    LET fresh == config = NoKey
    IN  /\ step = "inspect"
        /\ IF ~(IF fresh THEN Pristine ELSE ConfigAccepted)
           THEN Ends("refused")
           ELSE /\ step' = IF fresh THEN "key"
                           ELSE IF record = NoKey THEN "record" ELSE "public"
                /\ chosen' = config
        /\ UNCHANGED <<identityVars, repo, assets, orphan, overtaken, stops>>

(* Faulty variant of the action below: a key that is there is not reused.  *)
AlwaysGenerate ==
    /\ step = "key"
    /\ step' = "generate"
    /\ UNCHANGED <<identityVars, repo, assets, chosen, orphan, overtaken, stops>>

SelectKey ==
    /\ step = "key"
    /\ step' = IF keys = {} THEN "generate" ELSE "adopt"
    /\ UNCHANGED <<identityVars, repo, assets, chosen, orphan, overtaken, stops>>

Generate ==
    /\ step = "generate"
    /\ \E k \in Keys \ keys : keys' = keys \cup {k}
    /\ step' = "adopt"
    /\ UNCHANGED <<config, record, public, repo, assets, chosen, orphan,
                   overtaken, stops>>

(* Exactly one key, or none is chosen.                                     *)
Adopt ==
    /\ step = "adopt"
    /\ IF Cardinality(keys) = 1
       THEN step' = "config" /\ chosen' \in keys
       ELSE Ends("refused")
    /\ UNCHANGED <<identityVars, repo, assets, orphan, overtaken, stops>>

WriteConfig(outcome) ==
    /\ step = "config" /\ Written(outcome, "record")
    /\ config' = AfterWrite(outcome, config, chosen)
    /\ UNCHANGED <<keys, record, public, repo, assets, orphan, overtaken>>

WriteRecord(outcome) ==
    /\ step = "record" /\ Written(outcome, "public")
    /\ record' = AfterWrite(outcome, record, chosen)
    /\ UNCHANGED <<keys, config, public, repo, assets, orphan, overtaken>>

(* Faulty variant of the action below: the newest key is exported.         *)
WriteNewest(outcome) ==
    /\ step = "public" /\ Written(outcome, "list")
    /\ \E k \in keys : public' = AfterWrite(outcome, public, k)
    /\ UNCHANGED <<keys, config, record, repo, assets, orphan, overtaken>>

(* The public key is exported; another key's file is refused.              *)
WritePublic(outcome) ==
    /\ step = "public"
    /\ IF public \in {NoKey, chosen}
       THEN /\ Written(outcome, "list")
            /\ public' = AfterWrite(outcome, public, chosen)
       ELSE outcome = "done" /\ Ends("refused") /\ UNCHANGED <<public, stops>>
    /\ UNCHANGED <<keys, config, record, repo, assets, orphan, overtaken>>

(* Without an export the repository must be empty; the list makes its      *)
(* database.                                                               *)
ListRepository ==
    /\ step = "list"
    /\ IF repo.export # "none"
       THEN step' = "verify" /\ UNCHANGED <<chosen, repo>>
       ELSE IF repo.packages THEN Ends("refused") /\ UNCHANGED repo
       ELSE /\ repo' = [repo EXCEPT !.db = TRUE]
            /\ step' = "export" /\ UNCHANGED chosen
    /\ UNCHANGED <<identityVars, assets, orphan, overtaken, stops>>

Export ==
    /\ step = "export"
    /\ repo' = [repo EXCEPT !.export = "current"] /\ step' = "verify"
    /\ UNCHANGED <<identityVars, assets, chosen, orphan, overtaken, stops>>

(* The signature, the files it covers, and the database agree.             *)
Verify ==
    /\ step = "verify"
    /\ IF repo.db /\ repo.export = "current"
       THEN step' = "render" /\ UNCHANGED chosen
       ELSE Ends("refused")
    /\ UNCHANGED <<identityVars, repo, assets, orphan, overtaken, stops>>

(* No asset is written while one of them is not DebBuilder's.              *)
Render(outcome) ==
    LET old == {a \in Assets : assets[a] # "current"}
    IN  /\ step = "render"
        /\ CASE \E a \in Assets : assets[a] = "foreign" ->
                  outcome = "done" /\ Ends("refused") /\ UNCHANGED <<assets, stops>>
             [] old = {} ->
                  outcome = "done" /\ Ends("ready") /\ UNCHANGED <<assets, stops>>
             [] OTHER ->
                  \E a \in old :
                     /\ a = "install.sh" => old = {a}
                     /\ Written(outcome, "render")
                     /\ assets' = [assets EXCEPT ![a] =
                                     AfterWrite(outcome, @, "current")]
        /\ UNCHANGED <<identityVars, repo, orphan, overtaken>>

-----------------------------------------------------------------------------
(* A command fails, with or without its effect.                            *)
CommandFails ==
    /\ step \in {"inspect", "key", "generate", "adopt", "public", "list",
                 "export", "verify"}
    /\ Ends("down") /\ Disturbance
    /\ \/ UNCHANGED <<keys, repo>>
       \/ /\ step = "generate"
          /\ \E k \in Keys \ keys : keys' = keys \cup {k}
          /\ UNCHANGED repo
       \/ /\ step = "export"
          /\ repo' = [repo EXCEPT !.export = "current"]
          /\ UNCHANGED keys
    /\ UNCHANGED <<config, record, public, assets, orphan, overtaken>>

(* The process dies; gpg or reprepro may live on.                          *)
DieAnywhere ==
    /\ step \notin {"down", "refused"} /\ Disturbance
    /\ Ends("down")
    /\ \/ UNCHANGED orphan
       \/ /\ step \in {"generate", "export"} /\ orphan = "none"
          /\ orphan' = step
    /\ UNCHANGED <<identityVars, repo, assets, overtaken>>

OrphanEnds ==
    /\ orphan # "none" /\ orphan' = "none"
    /\ IF orphan = "generate"
       THEN /\ \E k \in Keys \ keys : keys' = keys \cup {k}
            /\ overtaken' = (overtaken \/ keys # {} \/ step = "generate")
            /\ UNCHANGED repo
       ELSE /\ repo' = [repo EXCEPT !.export = "current"]
            /\ UNCHANGED <<keys, overtaken>>
    /\ UNCHANGED <<config, record, public, assets, step, chosen, stops>>

(* Outside: a publication, which may stop between database and index, its  *)
(* reconciliation, a new public URL, an operator's own index.html.         *)
Outside ==
    /\ step = "ready" /\ Disturbance
    /\ \/ \E result \in {"current", "behind"} :
             /\ repo' = [repo EXCEPT !.packages = TRUE, !.export = result]
             /\ UNCHANGED assets
       \/ /\ assets' = [a \in Assets |->
                          IF assets[a] = "current" THEN "outdated"
                          ELSE assets[a]]
          /\ UNCHANGED repo
       \/ /\ assets' = [assets EXCEPT !["index.html"] = "foreign"]
          /\ UNCHANGED repo
    /\ UNCHANGED <<identityVars, step, chosen, orphan, overtaken>>

BootstrapStep ==
    \/ Begin \/ Inspect \/ SelectKey \/ Generate \/ Adopt
    \/ WriteConfig("done") \/ WriteRecord("done") \/ WritePublic("done")
    \/ ListRepository \/ Export \/ Verify \/ Render("done")

BootstrapNext ==
    \/ BootstrapStep
    \/ \E outcome \in {"late", "lost"} :
          \/ WriteConfig(outcome) \/ WriteRecord(outcome)
          \/ WritePublic(outcome) \/ Render(outcome)
    \/ CommandFails \/ DieAnywhere \/ OrphanEnds \/ Outside

-----------------------------------------------------------------------------
(* Wherever a bootstrap stops, a later one finishes the work: what it left *)
(* is never taken for a foreign or a damaged repository.  The exceptions   *)
(* are a key generation that was overtaken by another before one of the    *)
(* keys was configured, a publication that stopped half-way, and a public  *)
(* file that is not DebBuilder's.                                          *)
BootstrapCompletes ==
    step # "ready" ~>
        \/ step = "ready"
        \/ overtaken /\ config = NoKey
        \/ repo.export = "behind"
        \/ \E a \in Assets : assets[a] = "foreign"

(* The identity of the repository stands: from the first configuration on  *)
(* it is never replaced, the record and the public key name no other, and  *)
(* its secret key is there, also when a late generation adds a key.        *)
IdentityStands ==
    [][/\ config # NoKey => config' = config
       /\ {record', public'} \subseteq {NoKey, config'}
       /\ config' \in keys' \cup {NoKey}]_bootVars
=============================================================================
