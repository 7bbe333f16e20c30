---------------------------- MODULE RecipeStore ----------------------------
(***************************************************************************)
(* Recipe files and those who write them (recipe_store.py, the Recipe       *)
(* operations of app.py, builtin_recipe.py): editors that load a Recipe     *)
(* with its revision and save it on that condition, editors that save       *)
(* without one, imports, renames, deletions, and the reconciliation of the  *)
(* built-in Recipe at startup.                                              *)
(*                                                                         *)
(* A file is its edit (for the built-in one: the operator's overrides) and  *)
(* the application definition it was made from; its revision is the hash    *)
(* of its bytes, so two equal files have equal revisions.  The lock of a    *)
(* Recipe stands for its path lock together with the lease on the           *)
(* directory, which is taken only while the path lock is held and which     *)
(* serialises further.  A Recipe that does not decode or validate is        *)
(* refused before anything is written, and is not modelled.                 *)
(***************************************************************************)
EXTENDS Integers

CONSTANTS Names,        \* user Recipes
          Builtin,      \* the built-in Recipe
          Editors, NoEditor,
          MaxEdit,      \* bound: the different edits
          MaxWrites,    \* bound: saves begun
          MaxUpgrades   \* bound: restarts with a newer application definition

ASSUME RecipesAssumption ==
    /\ Builtin \notin Names /\ NoEditor \notin Editors
    /\ {MaxEdit, MaxWrites, MaxUpgrades} \subseteq Nat

Paths == Names \cup {Builtin}
NoFile == [edit |-> 0 - 1, definition |-> 0]

VARIABLES
    file,           \* the Recipe file of each name
    lockOf,         \* who holds the lock of each name
    editor,         \* how far each editor is, with what it loaded
    definition,     \* version of the packaged built-in definition
    writes          \* saves begun so far

recipeVars == <<file, lockOf, editor, definition, writes>>

Away == [at |-> "away", kind |-> "none", name |-> Builtin, base |-> NoFile,
         new |-> NoFile, old |-> Builtin]

RecipesInit ==
    /\ \E present \in SUBSET Names :
          file = [n \in Paths |-> IF n \in present \cup {Builtin}
                                  THEN [edit |-> 0, definition |-> 0]
                                  ELSE NoFile]
    /\ lockOf = [n \in Paths |-> NoEditor]
    /\ editor = [e \in Editors |-> Away]
    /\ definition = 0 /\ writes = 0

-----------------------------------------------------------------------------
(* load_recipe_with_revision()                                             *)
Load(e, n) ==
    /\ editor[e].at = "away" /\ lockOf[n] = NoEditor /\ file[n] # NoFile
    /\ editor' = [editor EXCEPT ![e] =
                    [Away EXCEPT !.at = "editing", !.name = n, !.base = file[n]]]
    /\ UNCHANGED <<file, lockOf, definition, writes>>

(* A guarded save of what was loaded; a save without a condition (legacy), *)
(* which may rename; a creation; an import, which replaces when told to.   *)
(* What is made of a built-in Recipe carries the packaged definition.      *)
BeginSave(e, kind, n, old, edit) ==
    /\ writes < MaxWrites
    /\ writes' = writes + 1
    /\ IF kind = "guarded"
       THEN editor[e].at = "editing" /\ editor[e].name = n /\ old = n
       ELSE editor[e].at = "away" /\ (old = n \/ kind = "plain")
    /\ n = Builtin => kind \in {"guarded", "plain"} /\ old = n
    /\ old # Builtin \/ n = Builtin
    /\ editor' = [editor EXCEPT ![e] =
                    [@ EXCEPT !.at = "save", !.kind = kind, !.name = n,
                              !.old = old,
                              !.new = [edit |-> edit, definition |->
                                 IF n = Builtin THEN definition ELSE 0]]]
    /\ UNCHANGED <<file, lockOf, definition>>

(* update_builtin_recipe(): the built-in Recipe is never created by a      *)
(* save, nor brought back to an older definition, and a guarded save finds *)
(* the packaged one.                                                       *)
BuiltinPermits(e) ==
    editor[e].name = Builtin =>
        /\ file[Builtin] # NoFile /\ file[Builtin].definition <= definition
        /\ editor[e].kind = "guarded" => file[Builtin].definition = definition

(* import_recipe_json(): an existing Recipe is replaced only when asked.   *)
ImportPermits(e) == editor[e].kind = "import" => file[editor[e].name] = NoFile

(* What a save demands of the file that it finds.                          *)
Permits(e) ==
    LET me == editor[e]
        found == file[me.name]
    IN  /\ me.kind = "guarded" => found = me.base
        /\ me.kind = "create" => found = NoFile
        /\ BuiltinPermits(e) /\ ImportPermits(e)

Released(e) == [lockOf EXCEPT ![editor[e].name] = NoEditor]
Returned(e) == [editor EXCEPT ![e] = Away]

(* Faulty variant of the action below: the revision is compared before the *)
(* lock is taken.                                                          *)
CheckUnlocked(e) ==
    /\ editor[e].at = "save"
    /\ IF Permits(e)
       THEN editor' = [editor EXCEPT ![e].at = "write"]
       ELSE editor' = Returned(e)
    /\ UNCHANGED <<file, lockOf, definition, writes>>

(* save_recipe() takes the lock and reads the file; equal bytes are not    *)
(* written again.                                                          *)
CheckAndLock(e) ==
    /\ editor[e].at = "save" /\ lockOf[editor[e].name] = NoEditor
    /\ IF ~Permits(e)
       THEN editor' = Returned(e) /\ UNCHANGED lockOf
       ELSE /\ editor' = [editor EXCEPT ![e].at = "write"]
            /\ lockOf' = [lockOf EXCEPT ![editor[e].name] = e]
    /\ UNCHANGED <<file, definition, writes>>

(* _durable_atomic_write(): it may fail before the replacement, or after   *)
(* it, when the directory is not synchronised.                             *)
Write(e, outcome) ==
    /\ editor[e].at = "write"
    /\ file' = IF outcome = "lost" THEN file
               ELSE [file EXCEPT ![editor[e].name] = editor[e].new]
    /\ lockOf' = Released(e)
    /\ editor' = IF outcome = "saved" /\ editor[e].old # editor[e].name
                 THEN [editor EXCEPT ![e].at = "unlink"]
                 ELSE Returned(e)
    /\ UNCHANGED <<definition, writes>>

(* The end of a rename, without the lock of the old name.                  *)
UnlinkOld(e) ==
    /\ editor[e].at = "unlink"
    /\ file' = [file EXCEPT ![editor[e].old] = NoFile]
    /\ editor' = Returned(e)
    /\ UNCHANGED <<lockOf, definition, writes>>

(* delete_workflow(): without the lock.                                    *)
Delete(n) ==
    /\ n # Builtin /\ file[n] # NoFile /\ writes < MaxWrites
    /\ writes' = writes + 1
    /\ file' = [file EXCEPT ![n] = NoFile]
    /\ UNCHANGED <<lockOf, editor, definition>>

(* Restart: what was being saved is written or not; what is open in a      *)
(* browser stays open.  reconcile_builtin_recipe() renews the definition   *)
(* and keeps the overrides.                                                *)
Restart ==
    /\ definition < MaxUpgrades
    /\ \E d \in definition..MaxUpgrades : definition' = d
    /\ file' = [file EXCEPT ![Builtin] =
                  [edit |-> IF @ = NoFile THEN 0 ELSE @.edit,
                   definition |-> definition']]
    /\ lockOf' = [n \in Paths |-> NoEditor]
    /\ editor' = [e \in Editors |->
                    IF editor[e].at = "editing" THEN editor[e] ELSE Away]
    /\ UNCHANGED writes

RecipesNext ==
    \/ \E e \in Editors :
          \/ \E n \in Paths : Load(e, n)
          \/ \E kind \in {"guarded", "plain", "create", "import", "replace"},
                n \in Paths, old \in Paths, edit \in 0..MaxEdit :
                   BeginSave(e, kind, n, old, edit)
          \/ CheckAndLock(e)
          \/ \E outcome \in {"saved", "late", "lost"} : Write(e, outcome)
          \/ UnlinkOld(e)
    \/ \E n \in Names : Delete(n)
    \/ Restart

RecipesSpec == RecipesInit /\ [][RecipesNext]_recipeVars

-----------------------------------------------------------------------------
(* A step that leaves n another edit is the write of somebody who asked    *)
(* for no condition, or who had loaded exactly the file that is replaced.  *)
Knowingly(n) ==
    file[n] # NoFile /\ file'[n] # NoFile /\ file'[n].edit # file[n].edit
    => \E e \in Editors :
          /\ editor[e].at = "write" /\ editor[e].name = n
          /\ \/ editor[e].kind \in {"plain", "replace"}
             \/ editor[e].kind = "guarded" /\ editor[e].base = file[n]

(* Another editor's work is replaced only knowingly.  A creation or an     *)
(* import without replacement never takes a file's place, and an upgrade   *)
(* of the built-in Recipe keeps the operator's overrides.                  *)
NoLostEdit == [][\A n \in Paths : Knowingly(n)]_recipeVars
=============================================================================
