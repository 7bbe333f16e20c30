------------------------- MODULE RecipeStoreProofs --------------------------
(***************************************************************************)
(* No edit of a Recipe is replaced unknowingly, for any Recipes, editors,  *)
(* saves and upgrades.                                                     *)
(*                                                                         *)
(* The argument is about the time between the check of a save and its      *)
(* write.  Deletions and the end of a rename take no lock, so the file     *)
(* that was checked may be gone when the write comes; it is never another  *)
(* one, because whoever writes a file holds its lock.                      *)
(***************************************************************************)
EXTENDS RecipeStore, TLAPS

Kinds == {"none", "guarded", "plain", "create", "import", "replace"}
Files == [edit : Int, definition : Int]
Sessions == [at : {"away", "editing", "save", "write", "unlink"},
             kind : Kinds, name : Paths, base : Files, new : Files,
             old : Paths]

TypeOK ==
    /\ file \in [Paths -> Files]
    /\ lockOf \in [Paths -> Editors \cup {NoEditor}]
    /\ editor \in [Editors -> Sessions]
    /\ definition \in Nat

(* What save_recipe() found when it took the lock, of which a deletion is  *)
(* the only change possible since.                                         *)
WriteOK(e) ==
    editor[e].at = "write" =>
        /\ lockOf[editor[e].name] = e
        /\ editor[e].kind \in Kinds \ {"none"}
        /\ editor[e].kind = "guarded"
              => file[editor[e].name] \in {editor[e].base, NoFile}
        /\ editor[e].kind \in {"create", "import"}
              => file[editor[e].name] = NoFile

(* Who has begun a save has said of which kind.                            *)
KindOK(e) == editor[e].at = "save" => editor[e].kind \in Kinds \ {"none"}

RecipesInv == /\ TypeOK
              /\ \A e \in Editors : WriteOK(e) /\ KindOK(e)

-----------------------------------------------------------------------------
LEMMA AwayType == Away \in Sessions /\ NoFile \in Files
  BY DEF Away, Sessions, Kinds, Files, NoFile, Paths

LEMMA InitInv == RecipesInit => RecipesInv
<1> SUFFICES ASSUME RecipesInit PROVE RecipesInv
  OBVIOUS
<1>1. file \in [Paths -> Files]
  BY AwayType DEF RecipesInit, Files
<1>2. lockOf \in [Paths -> Editors \cup {NoEditor}]
  BY DEF RecipesInit
<1>3. editor \in [Editors -> Sessions] /\ \A e \in Editors : editor[e] = Away
  BY AwayType DEF RecipesInit
<1>4. \A e \in Editors : WriteOK(e) /\ KindOK(e)
  BY <1>3 DEF WriteOK, KindOK, Away
<1> QED
  BY <1>1, <1>2, <1>3, <1>4 DEF RecipesInv, TypeOK, RecipesInit

(* A step of one editor that neither writes nor takes a lock, and after    *)
(* which that editor is not about to write.                                *)
LEMMA QuietStep ==
  ASSUME RecipesInv, NEW e \in Editors, NEW s \in Sessions,
         editor' = [editor EXCEPT ![e] = s], s.at # "write",
         s.at = "save" => s.kind \in Kinds \ {"none"},
         file' \in [Paths -> Files],
         \A n \in Paths : file'[n] \in {file[n], NoFile},
         UNCHANGED <<lockOf, definition>>
  PROVE  RecipesInv'
<1>1. TypeOK'
  BY DEF RecipesInv, TypeOK
<1>2. editor'[e] = s /\ \A f \in Editors : f # e => editor'[f] = editor[f]
  BY DEF RecipesInv, TypeOK
<1>3. \A f \in Editors : editor[f].name \in Paths
  BY DEF RecipesInv, TypeOK, Sessions
<1>4. \A f \in Editors : WriteOK(f)' /\ KindOK(f)'
  BY <1>2, <1>3 DEF RecipesInv, WriteOK, KindOK
<1> QED BY <1>1, <1>4 DEF RecipesInv

LEMMA LoadInv ==
  ASSUME RecipesInv, NEW e \in Editors, NEW n \in Paths, Load(e, n)
  PROVE  RecipesInv'
<1> DEFINE s == [Away EXCEPT !.at = "editing", !.name = n, !.base = file[n]]
<1>1. s \in Sessions /\ s.at = "editing"
  BY AwayType DEF Sessions, RecipesInv, TypeOK
<1>2. editor' = [editor EXCEPT ![e] = s] /\ UNCHANGED <<file, lockOf, definition>>
  BY DEF Load
<1> HIDE DEF s
<1> QED BY <1>1, <1>2, QuietStep DEF RecipesInv, TypeOK

LEMMA BeginSaveInv ==
  ASSUME RecipesInv, NEW e \in Editors, NEW kind \in Kinds \ {"none"},
         NEW n \in Paths, NEW old \in Paths, NEW edit \in 0..MaxEdit,
         BeginSave(e, kind, n, old, edit)
  PROVE  RecipesInv'
<1> DEFINE new == [edit |-> edit,
                   definition |-> IF n = Builtin THEN definition ELSE 0]
           s == [editor[e] EXCEPT !.at = "save", !.kind = kind, !.name = n,
                                  !.old = old, !.new = new]
<1>1. new \in Files
  BY DEF Files, RecipesInv, TypeOK
<1>2. editor' = [editor EXCEPT ![e] = s] /\ UNCHANGED <<file, lockOf, definition>>
  BY DEF BeginSave
<1> HIDE DEF new
<1>3. s \in Sessions /\ s.at = "save" /\ s.kind = kind
  BY <1>1 DEF RecipesInv, TypeOK, Sessions
<1> HIDE DEF s
<1> QED BY <1>2, <1>3, QuietStep DEF RecipesInv, TypeOK

(* The check is made of the file that is there when the lock is taken.     *)
LEMMA CheckAndLockInv ==
  ASSUME RecipesInv, NEW e \in Editors, CheckAndLock(e)
  PROVE  RecipesInv'
<1>1. CASE ~ Permits(e)
  <2>1. editor' = [editor EXCEPT ![e] = Away]
        /\ UNCHANGED <<file, lockOf, definition>>
    BY <1>1 DEF CheckAndLock, Returned
  <2>2. Away \in Sessions /\ Away.at = "away"
    BY AwayType DEF Away
  <2> QED BY <2>1, <2>2, QuietStep DEF RecipesInv, TypeOK
<1>2. CASE Permits(e)
  <2>1. /\ editor' = [editor EXCEPT ![e].at = "write"]
        /\ lockOf' = [lockOf EXCEPT ![editor[e].name] = e]
        /\ lockOf[editor[e].name] = NoEditor /\ editor[e].at = "save"
        /\ UNCHANGED <<file, definition>>
    BY <1>2 DEF CheckAndLock
  <2>2. \A f \in Editors : editor[f].name \in Paths
    BY DEF RecipesInv, TypeOK, Sessions
  <2>3. TypeOK'
    BY <2>1, <2>2 DEF RecipesInv, TypeOK, Sessions
  <2>4. /\ editor'[e].at = "write" /\ editor'[e].kind = editor[e].kind
        /\ editor'[e].name = editor[e].name /\ editor'[e].base = editor[e].base
        /\ \A f \in Editors : f # e => editor'[f] = editor[f]
    BY <2>1 DEF RecipesInv, TypeOK, Sessions
  <2>5. WriteOK(e)' /\ KindOK(e)'
    BY <1>2, <2>1, <2>2, <2>4
    DEF WriteOK, KindOK, RecipesInv, TypeOK, Permits, ImportPermits
  <2>6. ASSUME NEW f \in Editors, f # e PROVE WriteOK(f)' /\ KindOK(f)'
    <3>1. editor[f].at = "write" => editor[f].name # editor[e].name
      BY <2>1, <2>6, RecipesAssumption DEF RecipesInv, WriteOK
    <3>2. editor[f].at = "write" => lockOf'[editor[f].name] = f
      BY <2>1, <2>2, <3>1 DEF RecipesInv, WriteOK, TypeOK
    <3> QED
      BY <2>1, <2>4, <2>6, <3>2 DEF RecipesInv, WriteOK, KindOK
  <2> QED BY <2>3, <2>5, <2>6 DEF RecipesInv
<1> QED BY <1>1, <1>2

LEMMA WriteInv ==
  ASSUME RecipesInv, NEW e \in Editors, NEW outcome, Write(e, outcome)
  PROVE  RecipesInv'
<1>1. /\ editor[e].at = "write"
      /\ file' = IF outcome = "lost" THEN file
                 ELSE [file EXCEPT ![editor[e].name] = editor[e].new]
      /\ lockOf' = [lockOf EXCEPT ![editor[e].name] = NoEditor]
      /\ UNCHANGED definition
  BY DEF Write, Released
<1>2. \A f \in Editors : editor[f].name \in Paths
  BY DEF RecipesInv, TypeOK, Sessions
<1>3. PICK s \in Sessions : /\ editor' = [editor EXCEPT ![e] = s]
                            /\ s.at \in {"away", "unlink"}
  <2>1. CASE outcome = "saved" /\ editor[e].old # editor[e].name
    <3>1. editor' = [editor EXCEPT ![e] = [editor[e] EXCEPT !.at = "unlink"]]
      BY <2>1 DEF Write
    <3>2. [editor[e] EXCEPT !.at = "unlink"] \in Sessions
      BY DEF RecipesInv, TypeOK, Sessions
    <3>3. [editor[e] EXCEPT !.at = "unlink"].at = "unlink"
      BY DEF RecipesInv, TypeOK, Sessions
    <3> QED BY <3>1, <3>2, <3>3
  <2>2. CASE ~ (outcome = "saved" /\ editor[e].old # editor[e].name)
    <3>1. editor' = [editor EXCEPT ![e] = Away]
      BY <2>2 DEF Write, Returned
    <3>2. Away.at = "away"
      BY DEF Away
    <3> QED BY <3>1, <3>2, AwayType
  <2> QED BY <2>1, <2>2
<1>4. TypeOK'
  BY <1>1, <1>2, <1>3 DEF RecipesInv, TypeOK, Sessions
<1>5. editor'[e] = s /\ \A f \in Editors : f # e => editor'[f] = editor[f]
  BY <1>3 DEF RecipesInv, TypeOK
<1>6. ASSUME NEW f \in Editors, f # e PROVE WriteOK(f)' /\ KindOK(f)'
  <2>1. editor[f].at = "write" => editor[f].name # editor[e].name
    BY <1>1, <1>6 DEF RecipesInv, WriteOK
  <2>2. editor[f].at = "write"
          => /\ lockOf'[editor[f].name] = lockOf[editor[f].name]
             /\ file'[editor[f].name] = file[editor[f].name]
    BY <1>1, <1>2, <2>1 DEF RecipesInv, TypeOK
  <2> QED BY <1>5, <1>6, <2>2 DEF RecipesInv, WriteOK, KindOK
<1>7. WriteOK(e)' /\ KindOK(e)'
  BY <1>3, <1>5 DEF WriteOK, KindOK
<1> QED BY <1>4, <1>6, <1>7 DEF RecipesInv

LEMMA UnlinkOldInv ==
  ASSUME RecipesInv, NEW e \in Editors, UnlinkOld(e)
  PROVE  RecipesInv'
<1>1. /\ editor' = [editor EXCEPT ![e] = Away]
      /\ file' = [file EXCEPT ![editor[e].old] = NoFile]
      /\ UNCHANGED <<lockOf, definition>>
  BY DEF UnlinkOld, Returned
<1>2. Away \in Sessions /\ Away.at = "away"
  BY AwayType DEF Away
<1>3. file' \in [Paths -> Files]
      /\ \A n \in Paths : file'[n] \in {file[n], NoFile}
  BY <1>1, AwayType DEF RecipesInv, TypeOK
<1> QED BY <1>1, <1>2, <1>3, QuietStep

LEMMA DeleteInv ==
  ASSUME RecipesInv, NEW n \in Names, Delete(n)
  PROVE  RecipesInv'
<1>1. /\ file' = [file EXCEPT ![n] = NoFile]
      /\ UNCHANGED <<lockOf, editor, definition>>
  BY DEF Delete
<1>2. TypeOK'
  BY <1>1, AwayType DEF RecipesInv, TypeOK
<1>3. \A f \in Editors : editor[f].name \in Paths
  BY DEF RecipesInv, TypeOK, Sessions
<1>4. \A m \in Paths : file'[m] \in {file[m], NoFile}
  BY <1>1 DEF RecipesInv, TypeOK
<1>5. \A f \in Editors : WriteOK(f)' /\ KindOK(f)'
  BY <1>1, <1>3, <1>4 DEF RecipesInv, WriteOK, KindOK
<1> QED BY <1>2, <1>5 DEF RecipesInv

LEMMA RestartInv ==
  ASSUME RecipesInv, Restart
  PROVE  RecipesInv'
<1>1. definition' \in Nat
  BY RecipesAssumption DEF Restart, RecipesInv, TypeOK
<1>2. file' \in [Paths -> Files]
  <2>1. file[Builtin] \in Files
    BY DEF RecipesInv, TypeOK, Paths
  <2>2. [edit |-> IF file[Builtin] = NoFile THEN 0 ELSE file[Builtin].edit,
         definition |-> definition'] \in Files
    BY <1>1, <2>1 DEF Files
  <2> QED BY <2>2 DEF Restart, RecipesInv, TypeOK
<1>3. lockOf' \in [Paths -> Editors \cup {NoEditor}]
  BY DEF Restart
<1>4. /\ editor' \in [Editors -> Sessions]
      /\ \A e \in Editors : editor'[e].at \in {"editing", "away"}
  BY AwayType DEF Restart, RecipesInv, TypeOK, Away
<1>5. \A e \in Editors : WriteOK(e)' /\ KindOK(e)'
  BY <1>4 DEF WriteOK, KindOK
<1> QED BY <1>1, <1>2, <1>3, <1>4, <1>5 DEF RecipesInv, TypeOK

LEMMA NextInv == RecipesInv /\ [RecipesNext]_recipeVars => RecipesInv'
<1> SUFFICES ASSUME RecipesInv, [RecipesNext]_recipeVars PROVE RecipesInv'
  OBVIOUS
<1>1. ASSUME NEW e \in Editors, NEW n \in Paths, Load(e, n)
      PROVE  RecipesInv'
  BY <1>1, LoadInv
<1>2. ASSUME NEW e \in Editors,
             NEW kind \in {"guarded", "plain", "create", "import", "replace"},
             NEW n \in Paths, NEW old \in Paths, NEW edit \in 0..MaxEdit,
             BeginSave(e, kind, n, old, edit)
      PROVE  RecipesInv'
  <2>1. kind \in Kinds \ {"none"}
    BY DEF Kinds
  <2> QED BY <1>2, <2>1, BeginSaveInv
<1>3. ASSUME NEW e \in Editors, CheckAndLock(e) PROVE RecipesInv'
  BY <1>3, CheckAndLockInv
<1>4. ASSUME NEW e \in Editors, NEW outcome \in {"saved", "late", "lost"},
             Write(e, outcome)
      PROVE  RecipesInv'
  BY <1>4, WriteInv
<1>5. ASSUME NEW e \in Editors, UnlinkOld(e) PROVE RecipesInv'
  BY <1>5, UnlinkOldInv
<1>6. ASSUME NEW n \in Names, Delete(n) PROVE RecipesInv'
  BY <1>6, DeleteInv
<1>7. CASE Restart
  BY <1>7, RestartInv
<1>8. CASE UNCHANGED recipeVars
  BY <1>8 DEF recipeVars, RecipesInv, TypeOK, WriteOK, KindOK
<1> QED
  BY <1>1, <1>2, <1>3, <1>4, <1>5, <1>6, <1>7, <1>8 DEF RecipesNext

-----------------------------------------------------------------------------
(* The one step that puts an edit in the place of another.                 *)
LEMMA WriteKnowingly ==
  ASSUME RecipesInv, NEW e \in Editors, NEW outcome, Write(e, outcome),
         NEW n \in Paths
  PROVE  Knowingly(n)
<1>1. /\ editor[e].at = "write"
      /\ file' = IF outcome = "lost" THEN file
                 ELSE [file EXCEPT ![editor[e].name] = editor[e].new]
  BY DEF Write
<1>2. CASE n # editor[e].name
  <2>1. file'[n] = file[n]
    BY <1>1, <1>2 DEF RecipesInv, TypeOK
  <2> QED BY <2>1 DEF Knowingly
<1>3. CASE n = editor[e].name
  <2> SUFFICES ASSUME file[n] # NoFile
               PROVE  \/ editor[e].kind \in {"plain", "replace"}
                      \/ editor[e].kind = "guarded" /\ editor[e].base = file[n]
    BY <1>1, <1>3 DEF Knowingly
  <2> QED BY <1>1, <1>3 DEF RecipesInv, WriteOK, Kinds
<1> QED BY <1>2, <1>3

(* A restart replaces only the definition of the built-in Recipe.          *)
LEMMA RestartKnowingly ==
  ASSUME RecipesInv, Restart, NEW n \in Paths
  PROVE  Knowingly(n)
<1>1. CASE n # Builtin
  <2>1. file'[n] = file[n]
    BY <1>1 DEF RecipesInv, TypeOK, Restart
  <2> QED BY <2>1 DEF Knowingly
<1>2. CASE n = Builtin
  <2>1. file[n] # NoFile => file'[n].edit = file[n].edit
    BY <1>2 DEF RecipesInv, TypeOK, Restart
  <2> QED BY <2>1 DEF Knowingly
<1> QED BY <1>1, <1>2

LEMMA StepKnowingly ==
  ASSUME RecipesInv, [RecipesNext]_recipeVars, NEW n \in Paths
  PROVE  Knowingly(n)
<1>1. ASSUME file' = file PROVE Knowingly(n)
  BY <1>1 DEF Knowingly
<1>2. ASSUME NEW m \in Paths, file' = [file EXCEPT ![m] = NoFile]
      PROVE  Knowingly(n)
  <2>1. file'[n] \in {file[n], NoFile}
    BY <1>2 DEF RecipesInv, TypeOK
  <2> QED BY <2>1 DEF Knowingly
<1>3. ASSUME NEW e \in Editors, NEW m \in Paths, Load(e, m)
      PROVE  Knowingly(n)
  BY <1>1, <1>3 DEF Load
<1>4. ASSUME NEW e \in Editors,
             NEW kind \in {"guarded", "plain", "create", "import", "replace"},
             NEW m \in Paths, NEW old \in Paths, NEW edit \in 0..MaxEdit,
             BeginSave(e, kind, m, old, edit)
      PROVE  Knowingly(n)
  BY <1>1, <1>4 DEF BeginSave
<1>5. ASSUME NEW e \in Editors, CheckAndLock(e) PROVE Knowingly(n)
  BY <1>1, <1>5 DEF CheckAndLock
<1>6. ASSUME NEW e \in Editors, NEW outcome \in {"saved", "late", "lost"},
             Write(e, outcome)
      PROVE  Knowingly(n)
  BY <1>6, WriteKnowingly
<1>7. ASSUME NEW e \in Editors, UnlinkOld(e) PROVE Knowingly(n)
  <2>1. editor[e].old \in Paths
    BY DEF RecipesInv, TypeOK, Sessions
  <2> QED BY <1>2, <1>7, <2>1 DEF UnlinkOld
<1>8. ASSUME NEW m \in Names, Delete(m) PROVE Knowingly(n)
  BY <1>2, <1>8 DEF Delete, Paths
<1>9. CASE Restart
  BY <1>9, RestartKnowingly
<1>10. CASE UNCHANGED recipeVars
  BY <1>1, <1>10 DEF recipeVars
<1> QED
  BY <1>3, <1>4, <1>5, <1>6, <1>7, <1>8, <1>9, <1>10 DEF RecipesNext

(* save_recipe() with its revision check, imports, renames, deletions and  *)
(* reconcile_builtin_recipe(): where one edit takes the place of another,  *)
(* the writer asked for no condition or had loaded what it replaces.       *)
THEOREM EditsAreKept == RecipesSpec => NoLostEdit
<1>1. RecipesInv /\ [RecipesNext]_recipeVars
        => [\A n \in Paths : Knowingly(n)]_recipeVars
  BY StepKnowingly
<1> QED
  BY InitInv, NextInv, <1>1, PTL DEF RecipesSpec, NoLostEdit
=============================================================================
