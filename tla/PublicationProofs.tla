-------------------------- MODULE PublicationProofs --------------------------
EXTENDS Publication, TLAPS, SequenceTheorems, FiniteSetTheorems

Places == {"idle", "lease", "source", "classify", "waiting", "prove", "finish",
           "failing", "verify", "intent", "check", "unlink", "meta", "clean",
           "begin", "query", "mark", "restore"}
Stages == Working \cup {"none", "ok", "failed"}
Children == [op : {"none", "include", "remove"}, run : Runs \cup {Nobody},
             stage : Stages, todo : SUBSET Architectures]

Jobs == [run : Runs \cup {Nobody},
         kind : {"none", "publish", "reconcile", "prune", "remove", "retire"}]

LeaseTypeOK ==
    /\ pc \in [Actors -> Places]
    /\ child \in [Actors -> Children]
    /\ holder \in Actors \cup {Nobody}
    /\ job \in [Actors -> Jobs]

(* Where a thread is inside its "with repository_lease".                   *)
Leased == {"source", "classify", "waiting", "prove", "finish", "verify",
           "intent", "check", "unlink", "query"}

(* OneMutator is not inductive: a thread that starts reprepro must know    *)
(* that it still holds the lease, and that its own earlier child is gone.  *)
LeaseOK ==
    /\ \A a \in Actors : pc[a] \in Leased => holder = a
    /\ \A a \in Actors : Alive(a) /\ pc[a] \in Leased => pc[a] = "waiting"
    /\ OneMutator

LeaseInv == LeaseTypeOK /\ LeaseOK

LEMMA NobodyActs == Nobody \notin Actors
BY ConstantsAssumption DEF Actors, Maintenance, Remover

(* A thread goes on without touching lease or child: it may enter or stay  *)
(* in the leased part only as the holder.                                  *)
LEMMA Walk ==
    ASSUME LeaseInv, NEW a \in Actors, NEW p \in Places, Goto(a, p),
           UNCHANGED <<holder, child>>,
           p \in Leased => holder = a /\ (Alive(a) => p = "waiting")
    PROVE  LeaseOK' /\ pc' \in [Actors -> Places]
BY DEF LeaseInv, LeaseTypeOK, LeaseOK, OneMutator, Alive, Goto

(* A thread leaves the leased part; its child may still work.              *)
LEMMA Leave ==
    ASSUME LeaseInv, NEW a \in Actors, NEW p \in Places \ Leased, Goto(a, p),
           holder' = LeaseReleased(a),
           child' = child \/ child' = [child EXCEPT ![a] = NoChild]
    PROVE  /\ LeaseOK' /\ pc' \in [Actors -> Places]
           /\ holder' \in Actors \cup {Nobody}
           /\ child' \in [Actors -> Children]
<1>1. NoChild \in Children
  BY DEF NoChild, Children, Stages
<1>2. /\ pc' \in [Actors -> Places] /\ child' \in [Actors -> Children]
      /\ holder' \in {holder, Nobody} /\ holder' # a
  BY <1>1, NobodyActs DEF LeaseInv, LeaseTypeOK, Goto, LeaseReleased
<1>3. /\ \A b \in Actors \ {a} : pc'[b] = pc[b] /\ child'[b] = child[b]
      /\ pc'[a] \notin Leased
      /\ child'[a].stage \in {child[a].stage, "none"}
  BY DEF LeaseInv, LeaseTypeOK, Goto, NoChild
<1>4. \A b \in Actors : Alive(b)' => Alive(b)
  BY <1>3 DEF Alive, Working
<1>5. \A b \in Actors : pc'[b] \in Leased => b # a /\ holder = b /\ holder' = b
  BY <1>3 DEF LeaseInv, LeaseOK, LeaseReleased
<1> QED
  BY <1>2, <1>3, <1>4, <1>5 DEF LeaseInv, LeaseTypeOK, LeaseOK, OneMutator

(* A free lease has no holder and no inheriting child.                     *)
LEMMA Take ==
    ASSUME LeaseInv, NEW a \in Actors,
           NEW p \in Leased, NEW q \in Places \ Leased,
           TakeLease(a, p, q), UNCHANGED child
    PROVE  /\ LeaseOK' /\ pc' \in [Actors -> Places]
           /\ holder' \in Actors \cup {Nobody}
BY NobodyActs DEF LeaseInv, LeaseTypeOK, LeaseOK, OneMutator, Alive, Goto,
   TakeLease, LeaseFree, Leased, Places

(* The holder starts reprepro.                                             *)
LEMMA Spawn ==
    ASSUME LeaseInv, NEW a \in Actors, NEW r \in Runs \cup {Nobody},
           NEW op \in {"include", "remove"},
           pc[a] \in Leased \ {"waiting"}, Start(a, op, r), Goto(a, "waiting"),
           UNCHANGED holder
    PROVE  /\ LeaseOK' /\ pc' \in [Actors -> Places]
           /\ child' \in [Actors -> Children]
BY NobodyActs DEF LeaseInv, LeaseTypeOK, LeaseOK, OneMutator, Alive, Goto,
   Start, Leased, Places, Children, Stages, Working

(* reprepro goes on or ends.                                               *)
LEMMA ChildGoes ==
    ASSUME LeaseInv, NEW a \in Actors, NEW new \in Children, Alive(a),
           child' = [child EXCEPT ![a] = new], UNCHANGED <<pc, holder>>
    PROVE  LeaseOK' /\ child' \in [Actors -> Children]
BY NobodyActs DEF LeaseInv, LeaseTypeOK, LeaseOK, OneMutator, Alive

LEMMA Parts ==
    ASSUME LeaseTypeOK, NEW a \in Actors
    PROVE  /\ pc[a] \in Places /\ child[a] \in Children
           /\ job[a] \in Jobs /\ job[a].run \in Runs \cup {Nobody}
BY DEF LeaseTypeOK, Jobs

LEMMA ClientActs == Clients \subseteq Actors /\ Maintenance \in Actors
                    /\ Remover \in Actors
BY DEF Actors

(* The steps of publish_artifact and reconcile_publication.                *)
LEMMA PublishKeeps ==
    ASSUME LeaseInv, NEW c \in Clients,
           \/ \E r \in Runs, kind \in {"publish", "reconcile"},
                confirmed \in BOOLEAN : PublishCall(c, r, kind, confirmed)
           \/ PublishStep(c) \/ PublishAbandons(c) \/ PublishFault(c)
    PROVE  LeaseInv'
<1> USE ClientActs
<1>0. LeaseTypeOK /\ c \in Actors /\ LeaseReleased(c) \in {holder, Nobody}
  BY DEF LeaseInv, LeaseReleased
<1>1. pc[c] \in Leased => holder = c /\ LeaseReleased(c) = Nobody
  BY <1>0 DEF LeaseInv, LeaseOK, LeaseReleased
<1>2. ASSUME NEW r \in Runs, NEW kind \in {"publish", "reconcile"},
             NEW confirmed \in BOOLEAN, PublishCall(c, r, kind, confirmed)
      PROVE  LeaseInv'
  <2>1. /\ UNCHANGED <<holder, child>> /\ job' \in [Actors -> Jobs]
        /\ UNCHANGED pc \/ \E p \in {"failing", "lease"} : Goto(c, p)
    BY <1>0, <1>2 DEF PublishCall, LeaseTypeOK, Job, Jobs
  <2>2. CASE UNCHANGED pc
    BY <2>1, <2>2 DEF LeaseInv, LeaseTypeOK, LeaseOK, OneMutator, Alive
  <2>3. ASSUME NEW p \in {"failing", "lease"}, Goto(c, p)  PROVE LeaseInv'
    <3>1. p \in Places /\ p \notin Leased
      BY DEF Places, Leased
    <3> QED
      BY <3>1, <1>0, <2>1, <2>3, Walk DEF LeaseInv, LeaseTypeOK
  <2> QED
    BY <2>1, <2>2, <2>3
<1>3. CASE PublishLease(c)
  <2>1. "source" \in Leased /\ "failing" \in Places \ Leased
    BY DEF Places, Leased
  <2> QED
    BY <2>1, <1>0, <1>3, Take DEF PublishLease, LeaseInv, LeaseTypeOK
<1>4. ASSUME Unwind(c), UNCHANGED job,
             child' = child \/ child' = [child EXCEPT ![c] = NoChild]
      PROVE  LeaseInv'
  <2>1. "failing" \in Places \ Leased
    BY DEF Places, Leased
  <2> QED
    BY <2>1, <1>0, <1>4, Leave DEF Unwind, LeaseInv, LeaseTypeOK
<1>5. ASSUME NEW p \in {"classify", "prove", "finish"}, Goto(c, p),
             pc[c] \in Leased \ {"waiting"}, UNCHANGED <<holder, child, job>>
      PROVE  LeaseInv'
  <2>1. p \in Places /\ ~ Alive(c)
    BY <1>0, <1>5 DEF Places, LeaseInv, LeaseOK
  <2> QED
    BY <2>1, <1>0, <1>1, <1>5, Walk DEF LeaseInv, LeaseTypeOK
<1>6. CASE PublishSource(c)
  BY <1>4, <1>5, <1>6 DEF PublishSource, Leased
<1>7. CASE PublishClassify(c)
  <2>1. CASE /\ Start(c, "include", job[c].run) /\ Goto(c, "waiting")
             /\ UNCHANGED holder
    <3>1. job[c].run \in Runs \cup {Nobody} /\ pc[c] \in Leased \ {"waiting"}
          /\ UNCHANGED job
      BY <1>0, <1>7, Parts DEF PublishClassify, Leased
    <3> QED
      BY <3>1, <1>0, <2>1, Spawn DEF LeaseInv, LeaseTypeOK
  <2> QED
    BY <2>1, <1>4, <1>5, <1>7 DEF PublishClassify, Leased
<1>8. CASE PublishResult(c)
  <2>1. CASE Goto(c, "prove") /\ UNCHANGED holder
    <3>1. /\ child' = [child EXCEPT ![c] = NoChild] /\ UNCHANGED job
          /\ pc[c] = "waiting" /\ holder = c
      BY <1>1, <1>8 DEF PublishResult, Leased
    <3>2. NoChild \in Children /\ NoChild.stage \notin Working
      BY DEF NoChild, Children, Stages, Working
    <3> QED
      BY <3>1, <3>2, <1>0, <2>1, NobodyActs
      DEF LeaseInv, LeaseTypeOK, LeaseOK, OneMutator, Alive, Goto, Places
  <2> QED
    BY <2>1, <1>4, <1>8 DEF PublishResult
<1>9. CASE PublishProve(c)
  BY <1>4, <1>5, <1>9 DEF PublishProve, Leased
<1>10. CASE PublishFinish(c)
  <2>1. "idle" \in Places \ Leased /\ holder' = LeaseReleased(c)
    BY <1>1, <1>10 DEF Places, Leased, PublishFinish
  <2>2. job' \in [Actors -> Jobs]
    BY <1>0, <1>10 DEF PublishFinish, LeaseTypeOK, NoJob, Job, Jobs
  <2> QED
    BY <2>1, <2>2, <1>0, <1>10, Leave DEF PublishFinish, LeaseInv, LeaseTypeOK
<1>11. CASE PublishFail(c)
  <2>1. "idle" \in Places /\ "idle" \notin Leased
    BY DEF Places, Leased
  <2>2. job' \in [Actors -> Jobs]
    BY <1>0, <1>11 DEF PublishFail, LeaseTypeOK, NoJob, Job, Jobs
  <2> QED
    BY <2>1, <2>2, <1>0, <1>11, Walk DEF PublishFail, LeaseInv, LeaseTypeOK
<1>12. CASE PublishAbandons(c)
  BY <1>4, <1>12 DEF PublishAbandons
<1>13. CASE PublishFault(c)
  BY <1>4, <1>13 DEF PublishFault
<1> QED
  BY <1>2, <1>3, <1>6, <1>7, <1>8, <1>9, <1>10, <1>11, <1>12, <1>13
  DEF PublishStep

(* The steps of _prune_locked.                                             *)
LEMMA PruneKeeps ==
    ASSUME LeaseInv,
           \/ \E r \in Runs, enabled \in BOOLEAN : PruneBegin(r, enabled)
           \/ PruneStep \/ PruneFault
    PROVE  LeaseInv'
<1> DEFINE m == Maintenance
<1> HIDE DEF m
<1>0. LeaseTypeOK /\ m = Maintenance /\ m \in Actors
  BY ClientActs DEF LeaseInv, m
<1>1. pc[m] \in Leased => holder = m
  BY <1>0 DEF LeaseInv, LeaseOK
<1>2. ASSUME NEW p \in Places, Goto(m, p), UNCHANGED <<holder, child>>,
             job' \in [Actors -> Jobs],
             p \in Leased => pc[m] \in Leased \ {"waiting"}
      PROVE  LeaseInv'
  <2>1. p \in Leased => holder = m /\ ~ Alive(m)
    BY <1>0, <1>1, <1>2 DEF LeaseInv, LeaseOK
  <2> QED
    BY <2>1, <1>0, <1>2, Walk DEF LeaseInv, LeaseTypeOK
<1>3. ASSUME PruneEnds, UNCHANGED child  PROVE LeaseInv'
  <2>1. "idle" \in Places \ Leased
    BY DEF Places, Leased
  <2>2. job' \in [Actors -> Jobs]
    BY <1>0, <1>3 DEF PruneEnds, LeaseTypeOK, NoJob, Job, Jobs
  <2> QED
    BY <2>1, <2>2, <1>0, <1>3, Leave DEF PruneEnds, LeaseInv, LeaseTypeOK
<1>4. ASSUME NEW r \in Runs, NEW enabled \in BOOLEAN, PruneBegin(r, enabled)
      PROVE  LeaseInv'
  <2>1. PICK p \in {"clean", "meta", "lease"} : Goto(m, p)
    BY <1>0, <1>4 DEF PruneBegin
  <2>2. p \in Places /\ p \notin Leased
    BY DEF Places, Leased
  <2>3. job' \in [Actors -> Jobs] /\ UNCHANGED <<holder, child>>
    BY <1>0, <1>4 DEF PruneBegin, LeaseTypeOK, Job, Jobs
  <2> QED
    BY <2>1, <2>2, <2>3, <1>2
<1>5. CASE PruneLease
  <2>1. "verify" \in Leased /\ "idle" \in Places \ Leased
    BY DEF Places, Leased
  <2>2. CASE LeaseFree
    BY <2>1, <2>2, <1>0, <1>5, Take DEF PruneLease, LeaseInv, LeaseTypeOK
  <2> QED
    BY <2>2, <1>3, <1>5 DEF PruneLease
<1>6. CASE PruneVerify
  <2>1. /\ {"intent", "check"} \subseteq Places
        /\ pc[m] \in Leased \ {"waiting"}
    BY <1>0, <1>6 DEF PruneVerify, Places, Leased
  <2>2. CASE PruneEnds
    BY <2>2, <1>3, <1>6 DEF PruneVerify
  <2>3. CASE ~ PruneEnds
    <3>1. /\ UNCHANGED <<holder, child, job>>
          /\ \E p \in {"intent", "check"} : Goto(m, p)
      BY <2>3, <1>0, <1>6 DEF PruneVerify, lockVars
    <3> QED
      BY <3>1, <2>1, <1>0, <1>2 DEF LeaseTypeOK
  <2> QED
    BY <2>2, <2>3
<1>7. CASE PruneIntent
  <2>1. /\ Goto(m, "check") /\ UNCHANGED <<holder, child, job>>
        /\ pc[m] \in Leased \ {"waiting"} /\ "check" \in Places
    BY <1>0, <1>7 DEF PruneIntent, lockVars, Leased, Places
  <2> QED
    BY <2>1, <1>0, <1>2 DEF LeaseTypeOK
<1>8. CASE PruneCheck
  <2>1. CASE Goto(m, "unlink") /\ UNCHANGED <<lockVars, job>>
    <3>1. /\ UNCHANGED <<holder, child, job>> /\ "unlink" \in Places
          /\ pc[m] \in Leased \ {"waiting"}
      BY <2>1, <1>0, <1>8 DEF PruneCheck, lockVars, Leased, Places
    <3> QED
      BY <3>1, <2>1, <1>0, <1>2 DEF LeaseTypeOK
  <2> QED
    BY <2>1, <1>0, <1>3, <1>8 DEF PruneCheck
<1>9. CASE PruneUnlink \/ PruneMetadata
  <2>1. PICK p \in {"meta", "clean"} : Goto(m, p)
    BY <1>0, <1>9 DEF PruneUnlink, PruneMetadata
  <2>2. p \in Places /\ p \notin Leased
    BY DEF Places, Leased
  <2>3. UNCHANGED <<holder, child, job>>
    BY <1>9 DEF PruneUnlink, PruneMetadata, lockVars
  <2> QED
    BY <2>1, <2>2, <2>3, <1>0, <1>2 DEF LeaseTypeOK
<1>10. CASE PruneClean \/ PruneFault
  BY <1>3, <1>10 DEF PruneClean, PruneFault
<1> QED
  BY <1>4, <1>5, <1>6, <1>7, <1>8, <1>9, <1>10 DEF PruneStep

(* The steps of delete_package and remove_published_package.               *)
LEMMA RemoveKeeps ==
    ASSUME LeaseInv, RemoveCall \/ RemoveStep \/ RemoveAbandons \/ RemoveFault
    PROVE  LeaseInv'
<1>0. LeaseTypeOK /\ Remover \in Actors
  BY ClientActs DEF LeaseInv
<1>1. pc[Remover] \in Leased => LeaseReleased(Remover) = Nobody
  BY <1>0 DEF LeaseInv, LeaseOK, LeaseReleased
<1>2. ASSUME NEW p \in Places \ Leased, Goto(Remover, p),
             UNCHANGED <<holder, child>>, job' \in [Actors -> Jobs]
      PROVE  LeaseInv'
  BY <1>0, <1>2, Walk DEF LeaseInv, LeaseTypeOK
<1>3. ASSUME NEW p \in Places \ Leased, Goto(Remover, p),
             pc[Remover] \in Leased, holder' = Nobody,
             child' = child \/ child' = [child EXCEPT ![Remover] = NoChild],
             job' \in [Actors -> Jobs]
      PROVE  LeaseInv'
  BY <1>0, <1>1, <1>3, Leave DEF LeaseInv, LeaseTypeOK
<1>4. {"begin", "lease", "mark", "restore", "idle"} \subseteq Places \ Leased
      /\ {"query", "waiting"} \subseteq Leased
  BY DEF Places, Leased
<1>5. (RemoveEnds \/ UNCHANGED job) => job' \in [Actors -> Jobs]
  BY <1>0 DEF RemoveEnds, LeaseTypeOK, NoJob, Job, Jobs
<1>6. CASE RemoveCall
  <2>1. job' \in [Actors -> Jobs]
    BY <1>0, <1>6 DEF RemoveCall, LeaseTypeOK, Job, Jobs
  <2> QED
    BY <2>1, <1>2, <1>4, <1>6 DEF RemoveCall, lockVars
<1>7. CASE RemoveIntent
  BY <1>2, <1>4, <1>5, <1>7 DEF RemoveIntent, lockVars
<1>8. CASE RemoveLease
  BY <1>0, <1>4, <1>5, <1>8, Take DEF RemoveLease, LeaseInv, LeaseTypeOK
<1>9. CASE RemoveQuery
  <2>1. pc[Remover] \in Leased \ {"waiting"} /\ UNCHANGED job
    BY <1>9 DEF RemoveQuery, Leased
  <2>2. CASE DatabaseEmpty
    BY <2>1, <2>2, <1>3, <1>4, <1>5, <1>9 DEF RemoveQuery
  <2>3. CASE ~ DatabaseEmpty
    BY <2>1, <2>3, <1>0, <1>9, Spawn DEF RemoveQuery, LeaseInv, LeaseTypeOK
  <2> QED
    BY <2>2, <2>3
<1>10. CASE RemoveResult \/ RemoveAbandons
  <2>1. /\ pc[Remover] \in Leased /\ holder' = Nobody
        /\ child' = child \/ child' = [child EXCEPT ![Remover] = NoChild]
        /\ Goto(Remover, "mark") \/ Goto(Remover, "idle")
        /\ RemoveEnds \/ UNCHANGED job
    BY <1>10 DEF RemoveResult, RemoveAbandons, RemoveRecoveryRequired, Leased
  <2> QED
    BY <2>1, <1>3, <1>4, <1>5
<1>11. CASE RemoveMark \/ RemoveRestore
  <2>1. Goto(Remover, "idle") /\ RemoveEnds /\ UNCHANGED <<holder, child>>
    BY <1>11 DEF RemoveMark, RemoveRestore, lockVars
  <2> QED
    BY <2>1, <1>2, <1>4, <1>5
<1>12. CASE RemoveFault
  <2>1. CASE pc[Remover] = "query"
    <3>1. /\ holder' = Nobody /\ UNCHANGED child
          /\ Goto(Remover, "restore") \/ Goto(Remover, "idle")
          /\ RemoveEnds \/ UNCHANGED job
      BY <2>1, <1>12 DEF RemoveFault, RemoveRecoveryRequired
    <3> QED
      BY <3>1, <2>1, <1>3, <1>4, <1>5
  <2>2. CASE pc[Remover] # "query"
    <3>1. Goto(Remover, "idle") /\ RemoveEnds /\ UNCHANGED <<holder, child>>
      BY <2>2, <1>12 DEF RemoveFault, RemoveRecoveryRequired
    <3> QED
      BY <3>1, <1>2, <1>4, <1>5
  <2> QED
    BY <2>1, <2>2
<1> QED
  BY <1>6, <1>7, <1>8, <1>9, <1>10, <1>11, <1>12 DEF RemoveStep

(* The steps of reprepro.                                                  *)
LEMMA ChildKeeps ==
    ASSUME LeaseInv, NEW a \in Actors, ChildStep(a)
    PROVE  LeaseInv'
<1>0. /\ child \in [Actors -> Children] /\ child[a] \in Children /\ LeaseTypeOK
      /\ NoChild \in Children
  BY DEF LeaseInv, LeaseTypeOK, NoChild, Children, Stages
<1>1. ASSUME NEW new \in Children, Alive(a), child' = [child EXCEPT ![a] = new],
             UNCHANGED <<pc, holder, job>>
      PROVE  LeaseInv'
  BY <1>1, ChildGoes DEF LeaseInv, LeaseTypeOK
<1>2. ASSUME NEW stage \in {"ok", "failed"}, Exit(a, stage), Alive(a),
             UNCHANGED <<pc, holder, job>>
      PROVE  LeaseInv'
  <2>1. [child[a] EXCEPT !.stage = stage, !.todo = {}] \in Children
    BY <1>0 DEF Children, Stages
  <2> QED
    BY <2>1, <1>0, <1>1, <1>2 DEF Exit
<1>3. CASE ChildCopies(a)
  <2>1. [child[a] EXCEPT !.stage = "db"] \in Children
    BY <1>0 DEF Children, Stages, Working
  <2> QED
    BY <2>1, <1>1, <1>3 DEF ChildCopies, lockVars, Alive, Working
<1>4. ASSUME NEW x \in Architectures, NEW next \in {"export", "sweep"},
             Advance(a, x, next), Alive(a), UNCHANGED <<pc, holder, job>>
      PROVE  LeaseInv'
  <2> DEFINE left == child[a].todo \ {x}
             new == [child[a] EXCEPT
                       !.todo = IF left = {} THEN Architectures ELSE left,
                       !.stage = IF left = {} THEN next ELSE @]
  <2>1. new \in Children
    BY <1>0 DEF Children, Stages, Working
  <2>2. child' = [child EXCEPT ![a] = new]
    BY <1>0, <1>4 DEF Advance, Children
  <2> QED
    BY <2>1, <2>2, <1>1, <1>4
<1>5. ASSUME NEW x \in Architectures, ChildRegisters(a, x) \/ ChildExports(a, x)
      PROVE  LeaseInv'
  BY <1>4, <1>5 DEF ChildRegisters, ChildExports, lockVars, Alive, Working
<1>6. CASE ChildSweeps(a)
  BY <1>2, <1>6 DEF ChildSweeps, lockVars, Alive, Working
<1>7. CASE ChildFails(a)
  BY <1>2, <1>7 DEF ChildFails, lockVars
<1> QED
  BY <1>3, <1>5, <1>6, <1>7 DEF ChildStep

(* A crash ends every thread but no working child.                         *)
LEMMA CrashKeeps ==
    ASSUME LeaseInv, Crash
    PROVE  LeaseInv'
<1>1. NoChild \in Children /\ NoChild.stage \notin Working /\ NoJob \in Jobs
      /\ "idle" \in Places /\ "idle" \notin Leased
  BY DEF NoChild, Children, Stages, Working, NoJob, Job, Jobs, Places, Leased
<1> QED
  BY <1>1, NobodyActs
  DEF Crash, LeaseInv, LeaseTypeOK, LeaseOK, OneMutator, Alive

LEMMA LeaseInvHolds == Spec => []LeaseInv
<1>1. Init => LeaseInv
  <2>1. NoChild \in Children /\ NoChild.stage \notin Working /\ NoJob \in Jobs
        /\ "idle" \in Places /\ "idle" \notin Leased
    BY DEF NoChild, Children, Stages, Working, NoJob, Job, Jobs, Places, Leased
  <2> QED
    BY <2>1, NobodyActs
    DEF Init, LeaseInv, LeaseTypeOK, LeaseOK, OneMutator, Alive
<1>2. LeaseInv /\ [Next]_vars => LeaseInv'
  <2> SUFFICES ASSUME LeaseInv, [Next]_vars  PROVE LeaseInv'
    OBVIOUS
  <2>1. CASE UNCHANGED <<pc, child, holder, job>>
    BY <2>1 DEF LeaseInv, LeaseTypeOK, LeaseOK, OneMutator, Alive
  <2>2. CASE UNCHANGED vars
    BY <2>1, <2>2 DEF vars, lockVars
  <2>3. ASSUME NEW r \in Runs,
               \/ ValidationStarts(r) \/ Tamper(r) \/ Recover(r)
               \/ \E success \in BOOLEAN : ValidationEnds(r, success)
        PROVE  LeaseInv'
    BY <2>1, <2>3
    DEF ValidationStarts, ValidationEnds, Tamper, Recover, lockVars
  <2>4. CASE Open
    BY <2>1, <2>4 DEF Open, lockVars
  <2> QED
    BY <2>2, <2>3, <2>4, PublishKeeps, PruneKeeps, RemoveKeeps, ChildKeeps,
       CrashKeeps
    DEF Next
<1> QED
  BY <1>1, <1>2, PTL DEF Spec

(* repository_lease with descriptors that reprepro inherits: for any       *)
(* number of clients, Runs and architectures, and any number of failures   *)
(* and crashes, two reprepro processes never work on the repository at the *)
(* same time, and nobody but its parent holds the lease while one works.   *)
THEOREM MutualExclusion == Spec => []OneMutator
<1>1. LeaseInv => OneMutator
  BY DEF LeaseInv, LeaseOK
<1> QED
  BY <1>1, LeaseInvHolds, PTL

(* RemovalRecorded is not inductive: what a failed removal restores must   *)
(* be pending too when an earlier removal is unresolved, and the marker    *)
(* must be written before reprepro is started.                             *)
Markers == [deleted : BOOLEAN, removal : {"none", "pending", "success"}]

RemovalInv ==
    /\ meta \in Markers /\ previous \in Markers
    /\ RemovalRecorded
    /\ pc[Remover] \in {"lease", "query", "restore"} /\ removing
          => previous.removal = "pending"
    /\ pc[Remover] \in {"lease", "query"} => meta.removal = "pending"

LEMMA Pending ==
    ASSUME NEW d \in Markers
    PROVE  /\ [d EXCEPT !.removal = "pending"] \in Markers
           /\ [d EXCEPT !.removal = "pending"].removal = "pending"
BY Zenon DEF Markers

LEMMA RemovalStep ==
    ASSUME LeaseInv, RemovalInv,
           RemoveCall \/ RemoveStep \/ RemoveAbandons \/ RemoveFault
    PROVE  RemovalInv'
<1>0. pc \in [Actors -> Places] /\ Remover \in Actors
  BY ClientActs DEF LeaseInv, LeaseTypeOK
<1>1. \A p : Goto(Remover, p) => pc'[Remover] = p
  BY <1>0 DEF Goto
<1>2. [deleted |-> TRUE, removal |-> "success"] \in Markers
  BY Zenon DEF Markers
<1>3. CASE RemoveCall
  BY <1>1, <1>3 DEF RemoveCall, pkgVars, RemovalInv, RemovalRecorded
<1>4. CASE RemoveIntent
  BY <1>1, <1>4, Pending DEF RemoveIntent, RemovalInv, RemovalRecorded
<1>5. CASE RemoveLease
  <2>1. pc'[Remover] \in {"query", "restore"} /\ pc[Remover] = "lease"
        /\ UNCHANGED <<meta, previous, removing>>
    BY <1>1, <1>5 DEF RemoveLease, TakeLease, pkgVars
  <2> QED
    BY <2>1 DEF RemovalInv, RemovalRecorded
<1>6. CASE RemoveQuery
  <2>1. /\ pc[Remover] = "query" /\ UNCHANGED <<meta, previous>>
        /\ \/ pc'[Remover] = "restore" /\ UNCHANGED removing
           \/ pc'[Remover] = "waiting"
    BY <1>1, <1>6 DEF RemoveQuery
  <2> QED
    BY <2>1 DEF RemovalInv, RemovalRecorded
<1>7. CASE RemoveResult \/ RemoveAbandons
  <2>1. /\ pc'[Remover] \in {"mark", "idle"}
        /\ UNCHANGED <<meta, previous, removing>>
    BY <1>1, <1>7
    DEF RemoveResult, RemoveAbandons, RemoveRecoveryRequired, pkgVars
  <2> QED
    BY <2>1 DEF RemovalInv, RemovalRecorded
<1>8. CASE RemoveMark
  BY <1>1, <1>2, <1>8 DEF RemoveMark, RemovalInv, RemovalRecorded
<1>9. CASE RemoveRestore
  BY <1>1, <1>9 DEF RemoveRestore, RemovalInv, RemovalRecorded
<1>10. CASE RemoveFault
  <2>1. CASE UNCHANGED pkgVars
    <3>1. /\ UNCHANGED <<meta, previous, removing>>
          /\ \/ pc'[Remover] = "idle"
             \/ pc[Remover] = "query" /\ pc'[Remover] = "restore"
      BY <2>1, <1>1, <1>10 DEF RemoveFault, RemoveRecoveryRequired, pkgVars
    <3> QED
      BY <3>1 DEF RemovalInv, RemovalRecorded
  <2>2. CASE /\ meta' = [meta EXCEPT !.removal = "pending"]
             /\ UNCHANGED removing /\ pc[Remover] = "begin"
    <3>1. pc'[Remover] = "idle" /\ UNCHANGED previous
      BY <2>2, <1>1, <1>10 DEF RemoveFault, RemoveRecoveryRequired
    <3> QED
      BY <3>1, <2>2, Pending DEF RemovalInv, RemovalRecorded
  <2>3. CASE /\ meta' = [deleted |-> TRUE, removal |-> "success"]
             /\ removing' = FALSE /\ pc[Remover] = "mark"
    <3>1. pc'[Remover] = "idle" /\ UNCHANGED previous
      BY <2>3, <1>1, <1>10 DEF RemoveFault, RemoveRecoveryRequired
    <3> QED
      BY <3>1, <2>3, <1>2 DEF RemovalInv, RemovalRecorded
  <2> QED
    BY <2>1, <2>2, <2>3, <1>10 DEF RemoveFault
<1> QED
  BY <1>3, <1>4, <1>5, <1>6, <1>7, <1>8, <1>9, <1>10 DEF RemoveStep

(* What the other actors do leaves the remover and the package alone.      *)
LEMMA OthersLeaveRemoval ==
    ASSUME LeaseInv, RemovalInv, [Next]_vars,
           ~ (RemoveCall \/ RemoveStep \/ RemoveAbandons \/ RemoveFault)
    PROVE  RemovalInv'
<1>0. /\ pc \in [Actors -> Places] /\ Remover \in Actors
      /\ Maintenance # Remover /\ Remover \notin Clients
  BY ClientActs, ConstantsAssumption
  DEF LeaseInv, LeaseTypeOK, Maintenance, Remover
<1>1. ASSUME UNCHANGED <<meta, previous, removing>>,
             pc'[Remover] \in {pc[Remover], "idle"}
      PROVE  RemovalInv'
  BY <1>1 DEF RemovalInv, RemovalRecorded
<1>2. ASSUME NEW a, a # Remover, NEW p, Goto(a, p)
      PROVE  pc'[Remover] = pc[Remover]
  BY <1>0, <1>2 DEF Goto
<1>3. ASSUME NEW c \in Clients,
             \/ \E r \in Runs, kind \in {"publish", "reconcile"},
                  confirmed \in BOOLEAN : PublishCall(c, r, kind, confirmed)
             \/ PublishStep(c) \/ PublishAbandons(c) \/ PublishFault(c)
      PROVE  RemovalInv'
  <2>1. UNCHANGED <<meta, previous, removing>>
    BY <1>3 DEF PublishCall, PublishStep, PublishLease, PublishSource,
       PublishClassify, PublishResult, PublishProve, PublishFinish,
       PublishFail, PublishAbandons, PublishFault, pkgVars
  <2>2. UNCHANGED pc \/ \E p : Goto(c, p)
    BY <1>3 DEF PublishCall, PublishStep, PublishLease, PublishSource,
       PublishClassify, PublishResult, PublishProve, PublishFinish,
       PublishFail, PublishAbandons, PublishFault, TakeLease, Unwind
  <2> QED
    BY <2>1, <2>2, <1>0, <1>1, <1>2
<1>4. CASE \/ \E r \in Runs, enabled \in BOOLEAN : PruneBegin(r, enabled)
           \/ PruneStep \/ PruneFault
  <2>1. UNCHANGED <<meta, previous, removing>>
    BY <1>4 DEF PruneBegin, PruneStep, PruneLease, PruneVerify, PruneIntent,
       PruneCheck, PruneUnlink, PruneMetadata, PruneClean, PruneFault, pkgVars
  <2>2. \E p : Goto(Maintenance, p)
    BY <1>4 DEF PruneBegin, PruneStep, PruneLease, PruneVerify, PruneIntent,
       PruneCheck, PruneUnlink, PruneMetadata, PruneClean, PruneFault,
       PruneEnds, TakeLease
  <2> QED
    BY <2>1, <2>2, <1>0, <1>1, <1>2
<1>5. ASSUME NEW a \in Actors, ChildStep(a)  PROVE RemovalInv'
  BY <1>1, <1>5 DEF ChildStep, ChildCopies, ChildRegisters, ChildExports,
     ChildSweeps, ChildFails, pkgVars
<1>6. ASSUME NEW r \in Runs,
             \/ ValidationStarts(r) \/ Tamper(r) \/ Recover(r)
             \/ \E success \in BOOLEAN : ValidationEnds(r, success)
      PROVE  RemovalInv'
  BY <1>1, <1>6 DEF ValidationStarts, ValidationEnds, Tamper, Recover, pkgVars
<1>7. CASE Crash \/ Open
  BY <1>0, <1>1, <1>7 DEF Crash, Open, pkgVars
<1>8. CASE UNCHANGED vars
  BY <1>1, <1>8 DEF vars, pkgVars
<1> QED
  BY <1>3, <1>4, <1>5, <1>6, <1>7, <1>8 DEF Next

LEMMA RemovalInvHolds == Spec => []RemovalInv
<1>1. Init => RemovalInv
  <2>1. [deleted |-> FALSE, removal |-> "none"] \in Markers
    BY Zenon DEF Markers
  <2>2. ASSUME Init
        PROVE  /\ pc[Remover] = "idle" /\ previous = meta /\ removing = FALSE
               /\ meta = [deleted |-> FALSE, removal |-> "none"]
    BY <2>2, ClientActs, Zenon DEF Init
  <2> QED
    BY <2>1, <2>2 DEF RemovalInv, RemovalRecorded
<1>2. LeaseInv /\ RemovalInv /\ [Next]_vars => RemovalInv'
  BY RemovalStep, OthersLeaveRemoval
<1> QED
  BY <1>1, <1>2, LeaseInvHolds, PTL DEF Spec

(* delete_package: from the moment reprepro is told to remove the package  *)
(* until a removal is completed, the durable marker says so, for any       *)
(* number of failures, crashes, retries and busy repositories.             *)
THEOREM RemovalStaysRecorded == Spec => []RemovalRecorded
<1>1. RemovalInv => RemovalRecorded
  BY DEF RemovalInv
<1> QED
  BY <1>1, RemovalInvHolds, PTL

-----------------------------------------------------------------------------
(* What the repository holds.  The pool files a package under its version, *)
(* the database refers to the pool, and what belongs to a Run was proven.  *)
Statuses == {"running", "success", "failed"}
Validations == [proven : BOOLEAN, active : BOOLEAN, left : 0..MaxValidations]

RepoTypeOK ==
    /\ validation \in [Runs -> Validations]
    /\ db \in [Architectures -> Files \cup {None}]
    /\ index \in [Architectures -> Files \cup {None}]
    /\ pool \in [Versions -> Files \cup {None}]

PoolSound ==
    /\ \A v \in Versions :
         pool[v] # None => /\ HasVersion(pool[v], v)
                           /\ pool[v].of \in Runs
                              => validation[pool[v].of].proven
    /\ \A x \in Architectures :
         db[x] # None => db[x] = pool[VersionOf[db[x].of]]

(* What a working reprepro was started on still holds: the Run is proven   *)
(* and no architecture has a newer version; past its copy, the pool has    *)
(* the Run's file.                                                         *)
WorkSound(w) ==
    /\ w.op \in {"include", "remove"}
    /\ w.op = "remove" => w.stage # "pool"
    /\ w.op = "include" =>
         /\ w.run \in Runs /\ validation[w.run].proven
         /\ \A x \in Architectures : ~ Newer(db[x], VersionOf[w.run])
         /\ w.stage # "pool" => pool[VersionOf[w.run]].of = w.run

ChildSound == \A a \in Actors : Alive(a) => WorkSound(child[a])

RepoInv == RepoTypeOK /\ PoolSound /\ ChildSound

(* What the threads know.  A publication or reconciliation holds the lock  *)
(* of its Run and the Run's last attempt; past the source it knows that    *)
(* the local file is there, past the proof that the repository has it.     *)
RunTypeOK ==
    /\ attempts \in [Runs -> Seq(Statuses)]
    /\ \A r \in Runs : Len(attempts[r]) <= MaxAttempts
    /\ artifact \in [Runs -> {"present", "tampered", "absent"}]
    /\ intent \in [Runs -> 0..MaxAttempts]
    /\ pruning \in [Runs -> 0..MaxAttempts]
    /\ runLock \in [Runs -> Actors \cup {Nobody}]
    /\ up \in {"up", "recovering"}

Sourced == {"classify", "waiting", "prove", "finish"}

JobSound(c) ==
    LET r == job[c].run IN
    pc[c] # "idle" =>
        /\ r \in Runs /\ runLock[r] = c /\ attempts[r] # << >>
        /\ pc[c] \in Sourced => artifact[r] # "absent"
        /\ pc[c] = "finish" => InRepository(r)
        /\ \/ Status(r) = "running"
           \/ /\ Status(r) = "success" /\ pc[c] = "failing"
              /\ artifact[r] # "absent"

(* A pruning holds the lock of a Run whose attempts all ended, and knows   *)
(* what the step it is at relies on.                                       *)
PruneSound ==
    LET r == job[Maintenance].run
        place == pc[Maintenance] IN
    place # "idle" =>
        /\ r \in Runs /\ runLock[r] = Maintenance
        /\ ~ Interrupted(r) /\ PruningReadable(r)
        /\ place \in {"lease", "verify", "intent", "check", "unlink"}
           => artifact[r] # "absent" /\ pruning[r] = 0
        /\ place \in {"intent", "check", "unlink"} => InRepository(r)
        /\ place \in {"check", "unlink"} => intent[r] # 0
        /\ place = "meta" => /\ artifact[r] = "absent" /\ intent[r] # 0
                             /\ pruning[r] = 0
        /\ place = "clean" => artifact[r] = "absent" /\ pruning[r] # 0

(* AbsenceAccounted, of one Run.                                           *)
Accounted(r) ==
    artifact[r] = "absent" =>
        /\ LatestProof(r) # 0
        /\ LatestProof(r) \in {intent[r], pruning[r]}
        /\ {intent[r], pruning[r]} \subseteq {0, LatestProof(r)}

WorkInv ==
    /\ RunTypeOK
    /\ \A c \in Clients : JobSound(c)
    /\ PruneSound
    /\ up = "recovering" => \A a \in Actors : pc[a] = "idle"
    /\ \A r \in Runs : Accounted(r)

-----------------------------------------------------------------------------
(* Attempts as a sequence: what ending the last one and recording a new    *)
(* one do, and that the latest proof depends on the successes alone.       *)
Wins(s) == {i \in 1..Len(s) : s[i] = "success"}
LatestOf(s) == IF Wins(s) # {} THEN Max(Wins(s)) ELSE 0

LEMMA LatestProofOf ==
    \A r \in Runs : /\ LatestProof(r) = LatestOf(attempts[r])
                     /\ LatestProof(r)' = LatestOf(attempts'[r])
BY DEF LatestProof, LatestOf, Wins, SelectLastInSubSeq

(* A set of attempt numbers has a largest one: the one whose set of later  *)
(* numbers is minimal.                                                     *)
LEMMA LargestWin ==
    ASSUME NEW n \in Nat, NEW S \in SUBSET (1..n), S # {}
    PROVE  Max(S) \in S
<1> DEFINE From(i) == {j \in S : j >= i}
           T == {From(i) : i \in S}
<1>1. T \subseteq FiniteSubsetsOf(S) /\ T # {}
  <2>1. IsFiniteSet(S)
    <3>1. IsFiniteSet(1..n) /\ n \in Int
      BY FS_Interval
    <3> QED
      BY <3>1, FS_Subset
  <2>2. \A i \in S : From(i) \in SUBSET S /\ IsFiniteSet(From(i))
    BY <2>1, FS_Subset
  <2> QED
    BY <2>2 DEF FiniteSubsetsOf
<1>2. PICK x \in T : \A y \in T : ~ (<<y, x>> \in StrictSubsetOrdering(S))
  <2> HIDE DEF T
  <2> QED
    BY <1>1, FS_StrictSubsetOrderingWellFounded, WFMin
<1>3. PICK m \in S : x = From(m)
  BY <1>2
<1>4. ASSUME NEW i \in S, ~ (m >= i)  PROVE FALSE
  <2>1. From(i) \subseteq From(m) /\ m \in From(m) /\ m \notin From(i)
    <3>1. m \in Int /\ i \in Int /\ \A j \in S : j \in Int
      OBVIOUS
    <3>2. i > m /\ m >= m
      BY <3>1, <1>4
    <3>3. \A j \in S : j >= i => j >= m
      BY <3>1, <3>2
    <3> QED
      BY <3>2, <3>3, <1>4
  <2>2. From(i) \in SUBSET S /\ From(m) \in SUBSET S /\ From(i) # From(m)
    BY <2>1
  <2>3. <<From(i), From(m)>> \in StrictSubsetOrdering(S)
    <3> HIDE DEF From
    <3> QED
      BY <2>1, <2>2 DEF StrictSubsetOrdering
  <2> QED
    BY <2>3, <1>2, <1>3
<1>5. \E k \in S : \A i \in S : k >= i
  BY <1>4
<1> QED
  BY <1>5 DEF Max

LEMMA LatestWin ==
    ASSUME NEW s \in Seq(Statuses)
    PROVE  /\ LatestOf(s) \in 0..Len(s)
           /\ LatestOf(s) # 0 => s[LatestOf(s)] = "success"
<1>1. Len(s) \in Nat /\ Wins(s) \in SUBSET (1..Len(s))
  BY DEF Wins
<1>2. CASE Wins(s) = {}
  BY <1>1, <1>2 DEF LatestOf
<1>3. CASE Wins(s) # {}
  <2>1. LatestOf(s) \in Wins(s)
    BY <1>1, <1>3, LargestWin DEF LatestOf
  <2> QED
    BY <2>1, <1>1 DEF Wins
<1> QED
  BY <1>2, <1>3

LEMMA Appended ==
    ASSUME NEW s \in Seq(Statuses)
    PROVE  LET t == Append(s, "running") IN
           /\ t \in Seq(Statuses) /\ Len(t) = Len(s) + 1 /\ t # << >>
           /\ Last(t) = "running" /\ LatestOf(t) = LatestOf(s)
           /\ \A i \in DOMAIN s : t[i] = s[i]
<1> DEFINE t == Append(s, "running")
<1>1. /\ t \in Seq(Statuses) /\ Len(t) = Len(s) + 1 /\ t # << >>
      /\ Last(t) = "running" /\ \A i \in 1..Len(s) : t[i] = s[i]
      /\ Len(s) \in Nat /\ DOMAIN s = 1..Len(s) /\ t[Len(s) + 1] = "running"
  BY DEF Last, Statuses
<1>2. Wins(t) = Wins(s)
  BY <1>1 DEF Wins
<1> QED
  BY <1>1, <1>2 DEF LatestOf

LEMMA Ended ==
    ASSUME NEW s \in Seq(Statuses), s # << >>, NEW e \in Statuses
    PROVE  LET t == [s EXCEPT ![Len(s)] = e] IN
           /\ t \in Seq(Statuses) /\ Len(t) = Len(s) /\ t # << >>
           /\ Last(t) = e /\ \A i \in DOMAIN s : i # Len(s) => t[i] = s[i]
           /\ Last(s) # "success" /\ e # "success"
              => LatestOf(t) = LatestOf(s)
<1> DEFINE t == [s EXCEPT ![Len(s)] = e]
<1>1. Len(s) \in 1..Len(s) /\ DOMAIN s = 1..Len(s)
  BY EmptySeq, LenProperties
<1>2. /\ t \in Seq(Statuses) /\ Len(t) = Len(s)
      /\ \A j \in 1..Len(s) : t[j] = IF j = Len(s) THEN e ELSE s[j]
  BY <1>1, ExceptSeq
<1>3. t # << >> /\ Last(t) = e
  BY <1>1, <1>2, EmptySeq DEF Last
<1>4. ASSUME Last(s) # "success", e # "success"
      PROVE  LatestOf(t) = LatestOf(s)
  <2>1. Wins(t) = Wins(s)
    BY <1>1, <1>2, <1>4 DEF Wins, Last
  <2> QED
    BY <2>1 DEF LatestOf
<1> QED
  BY <1>1, <1>2, <1>3, <1>4

(* What recovery makes of the attempts of a Run.                           *)
Recovered(s) == [i \in DOMAIN s |-> IF s[i] = "running" THEN "failed" ELSE s[i]]

LEMMA RecoveredKeeps ==
    ASSUME NEW s \in Seq(Statuses)
    PROVE  /\ Recovered(s) \in Seq(Statuses) /\ Len(Recovered(s)) = Len(s)
           /\ LatestOf(Recovered(s)) = LatestOf(s)
           /\ \A i \in DOMAIN s :
                Recovered(s)[i] = "success" => s[i] = "success"
<1>1. /\ Len(s) \in Nat /\ DOMAIN s = 1..Len(s)
      /\ \A i \in 1..Len(s) : s[i] \in Statuses
  BY LenProperties
<1>2. /\ Recovered(s) \in [1..Len(s) -> Statuses]
      /\ \A i \in 1..Len(s) : Recovered(s)[i] = IF s[i] = "running"
                                                THEN "failed" ELSE s[i]
  BY <1>1 DEF Recovered, Statuses
<1>3. Recovered(s) \in Seq(Statuses) /\ Len(Recovered(s)) = Len(s)
  BY <1>1, <1>2
<1>4. Wins(Recovered(s)) = Wins(s)
  BY <1>2, <1>3 DEF Wins
<1> QED
  BY <1>1, <1>2, <1>3, <1>4 DEF LatestOf

-----------------------------------------------------------------------------
(* The repository's invariant.                                             *)

LEMMA FileFacts ==
    ASSUME NEW f \in Files \cup {None}
    PROVE  /\ f = None <=> f.of = Nobody
           /\ f # None => /\ f \in Files /\ f.of \in Packages
                          /\ VersionOf[f.of] \in Versions
                          /\ VersionOf[f.of] \in Nat
BY ConstantsAssumption DEF Files, None, Versions

LEMMA RunFacts ==
    ASSUME NEW r \in Runs
    PROVE  /\ r \in Packages /\ r # Nobody /\ VersionOf[r] \in Versions
           /\ VersionOf[r] \in Nat
           /\ Exact(r) \in Files /\ Exact(r).of = r /\ Exact(r) # None
BY ConstantsAssumption DEF Packages, Versions, Exact, Files, None

(* The repository and the validations stay, and so does every child that   *)
(* still works.                                                            *)
LEMMA RepoStays ==
    ASSUME RepoInv, UNCHANGED <<db, index, pool, validation>>,
           \A a \in Actors : Alive(a)' => Alive(a) /\ child'[a] = child[a]
    PROVE  RepoInv'
BY DEF RepoInv, RepoTypeOK, PoolSound, ChildSound, WorkSound, HasVersion, Newer

LEMMA RepoChildEnds ==
    ASSUME RepoInv, LeaseInv, UNCHANGED <<db, index, pool, validation>>,
           NEW a \in Actors, child' = [child EXCEPT ![a] = NoChild]
    PROVE  RepoInv'
<1>1. \A b \in Actors : Alive(b)' => Alive(b) /\ child'[b] = child[b]
  BY DEF LeaseInv, LeaseTypeOK, Alive, NoChild, Working
<1> QED
  BY <1>1, RepoStays

(* The only child that works takes a step.                                 *)
LEMMA RepoChildStep ==
    ASSUME RepoInv, LeaseInv, NEW a \in Actors, Alive(a), NEW w,
           RepoTypeOK', PoolSound', child' = [child EXCEPT ![a] = w],
           w.stage \in Working => WorkSound(w)'
    PROVE  RepoInv'
<1>1. child'[a] = w /\ \A b \in Actors \ {a} : child'[b] = child[b]
  BY DEF LeaseInv, LeaseTypeOK
<1>2. \A b \in Actors \ {a} : ~ Alive(b)
  BY DEF LeaseInv, LeaseOK, OneMutator
<1> QED
  BY <1>1, <1>2 DEF RepoInv, ChildSound, Alive

LEMMA AdvanceMakes ==
    ASSUME LeaseInv, NEW a \in Actors, NEW x \in Architectures,
           NEW next \in {"export", "sweep"}, Advance(a, x, next)
    PROVE  \E w \in Children :
              /\ child' = [child EXCEPT ![a] = w]
              /\ w.op = child[a].op /\ w.run = child[a].run
              /\ w.stage \in {child[a].stage, next}
<1> DEFINE left == child[a].todo \ {x}
           w == [child[a] EXCEPT
                   !.todo = IF left = {} THEN Architectures ELSE left,
                   !.stage = IF left = {} THEN next ELSE @]
<1>1. child \in [Actors -> Children] /\ child[a] \in Children
  BY DEF LeaseInv, LeaseTypeOK
<1>2. w \in Children /\ w.op = child[a].op /\ w.run = child[a].run
      /\ w.stage \in {child[a].stage, next}
  BY <1>1 DEF Children, Stages, Working
<1>3. child' = [child EXCEPT ![a] = w]
  BY <1>1 DEF Advance, Children
<1> QED
  BY <1>2, <1>3

LEMMA ExitMakes ==
    ASSUME LeaseInv, NEW a \in Actors, NEW stage \in {"ok", "failed"},
           Exit(a, stage)
    PROVE  \E w : /\ child' = [child EXCEPT ![a] = w]
                  /\ w.stage \notin Working
<1>1. child[a] \in Children
  BY DEF LeaseInv, LeaseTypeOK
<1>2. /\ [child[a] EXCEPT !.stage = stage, !.todo = {}].stage \notin Working
      /\ NoChild.stage \notin Working
  BY <1>1 DEF Children, NoChild, Working
<1> QED
  BY <1>2 DEF Exit

(* includedeb copies the file into the pool.                               *)
LEMMA CopiesKeeps ==
    ASSUME RepoInv, LeaseInv, NEW a \in Actors, ChildCopies(a)
    PROVE  RepoInv'
<1> DEFINE r == child[a].run
           file == Included(a)
<1>1. /\ Alive(a) /\ child[a].stage = "pool" /\ child[a] \in Children
      /\ UNCHANGED <<db, index, validation>>
  BY DEF ChildCopies, Alive, Working, LeaseInv, LeaseTypeOK
<1>2. /\ child[a].op = "include" /\ r \in Runs /\ validation[r].proven
      /\ \A x \in Architectures : ~ Newer(db[x], VersionOf[r])
  BY <1>1 DEF RepoInv, ChildSound, WorkSound
<1>3. file \in Files /\ file.of = r /\ file # None
  BY <1>1, <1>2, RunFacts DEF Included, Files, None
<1>4. /\ pool[VersionOf[r]] \in {None, file}
      /\ pool' = [pool EXCEPT ![VersionOf[r]] = file]
      /\ VersionOf[r] \in Versions /\ r # Nobody
  BY <1>1, <1>2, RunFacts DEF ChildCopies, PoolConflict
<1> HIDE DEF file
<1>5. /\ pool' \in [Versions -> Files \cup {None}]
      /\ pool'[VersionOf[r]] = file
      /\ \A v \in Versions : pool[v] # None => pool'[v] = pool[v]
      /\ \A v \in Versions : pool'[v] = pool[v] \/ v = VersionOf[r]
  BY <1>3, <1>4 DEF RepoInv, RepoTypeOK
<1>6. PoolSound'
  <2>1. ASSUME NEW v \in Versions, pool'[v] # None
        PROVE  /\ HasVersion(pool'[v], v)
               /\ pool'[v].of \in Runs => validation[pool'[v].of].proven
    BY <1>2, <1>3, <1>4, <1>5, <2>1 DEF RepoInv, PoolSound, HasVersion
  <2>2. ASSUME NEW x \in Architectures, db[x] # None
        PROVE  db[x] = pool'[VersionOf[db[x].of]]
    <3>1. db[x] \in Files \cup {None} /\ db[x] = pool[VersionOf[db[x].of]]
      BY <2>2 DEF RepoInv, RepoTypeOK, PoolSound
    <3>2. VersionOf[db[x].of] \in Versions
      BY <3>1, <2>2, FileFacts
    <3> QED
      BY <3>1, <3>2, <2>2, <1>5
  <2> QED
    BY <2>1, <2>2, <1>1 DEF PoolSound, HasVersion
<1>7. PICK w : /\ w = [child[a] EXCEPT !.stage = "db"]
               /\ child' = [child EXCEPT ![a] = w]
  BY <1>1 DEF ChildCopies, LeaseInv, LeaseTypeOK
<1>8. w.op = "include" /\ w.run = r /\ w.stage = "db"
  BY <1>1, <1>2, <1>7 DEF Children
<1>9. WorkSound(w)'
  BY <1>1, <1>2, <1>3, <1>5, <1>8 DEF WorkSound, Newer
<1> QED
  BY <1>1, <1>5, <1>6, <1>7, <1>9, RepoChildStep DEF RepoInv, RepoTypeOK

(* What an architecture gets registered: its pool file, or nothing.        *)
LEMMA RegisteredFile ==
    ASSUME RepoInv, LeaseInv, NEW a \in Actors, Alive(a),
           child[a].stage = "db", child[a].op = "include"
    PROVE  LET r == child[a].run
               file == pool[VersionOf[r]] IN
           /\ r \in Runs /\ file.of = r /\ file # None
           /\ file \in Files \cup {None}
           /\ \A x \in Architectures : ~ Newer(db[x], VersionOf[r])
           /\ VersionOf[r] \in Nat
<1> DEFINE r == child[a].run
           file == pool[VersionOf[r]]
<1>1. /\ r \in Runs /\ file.of = r
      /\ \A x \in Architectures : ~ Newer(db[x], VersionOf[r])
  BY DEF RepoInv, ChildSound, WorkSound
<1>2. VersionOf[r] \in Versions /\ VersionOf[r] \in Nat /\ r # Nobody
  BY <1>1, RunFacts
<1>3. file \in Files \cup {None} /\ file # None
  BY <1>1, <1>2 DEF RepoInv, RepoTypeOK, None
<1> QED
  BY <1>1, <1>2, <1>3

LEMMA RegistersKeeps ==
    ASSUME RepoInv, LeaseInv, NEW a \in Actors, NEW x \in Architectures,
           ChildRegisters(a, x)
    PROVE  /\ RepoInv'
           /\ \A y \in Architectures :
                db'[y].of # Nobody => ~ Newer(db[y], VersionOf[db'[y].of])
<1>1. /\ Alive(a) /\ child[a].stage = "db" /\ child[a] \in Children
      /\ UNCHANGED <<pool, index, validation>> /\ Advance(a, x, "export")
  BY DEF ChildRegisters, Alive, Working, LeaseInv, LeaseTypeOK
<1>2. /\ child[a].op \in {"include", "remove"} /\ WorkSound(child[a])
  BY <1>1 DEF RepoInv, ChildSound, WorkSound
<1>3. PICK f \in Files \cup {None} :
        /\ db' = [db EXCEPT ![x] = f]
        /\ \/ f = None /\ child[a].op = "remove"
           \/ /\ child[a].op = "include" /\ f = pool[VersionOf[child[a].run]]
              /\ f # None /\ f.of = child[a].run /\ f.of \in Runs
              /\ \A y \in Architectures : ~ Newer(db[y], VersionOf[f.of])
              /\ VersionOf[f.of] \in Nat
  BY <1>1, <1>2, RegisteredFile DEF ChildRegisters
<1>4. /\ db' \in [Architectures -> Files \cup {None}] /\ db'[x] = f
      /\ \A y \in Architectures : db'[y] = IF y = x THEN f ELSE db[y]
  BY <1>3 DEF RepoInv, RepoTypeOK
<1>5. PoolSound'
  BY <1>1, <1>3, <1>4 DEF RepoInv, PoolSound, HasVersion
<1>6. PICK w \in Children : /\ child' = [child EXCEPT ![a] = w]
                            /\ w.op = child[a].op /\ w.run = child[a].run
                            /\ w.stage \in {"db", "export"}
  BY <1>1, AdvanceMakes
<1>7. WorkSound(w)'
  <2>1. ASSUME w.op = "include", NEW y \in Architectures
        PROVE  ~ Newer(db'[y], VersionOf[w.run])
    BY <2>1, <1>3, <1>4, <1>6 DEF Newer
  <2> QED
    BY <2>1, <1>1, <1>2, <1>6 DEF WorkSound, Newer
<1>8. RepoInv'
  BY <1>1, <1>4, <1>5, <1>6, <1>7, RepoChildStep DEF RepoInv, RepoTypeOK
<1>9. ASSUME NEW y \in Architectures, db'[y].of # Nobody
      PROVE  ~ Newer(db[y], VersionOf[db'[y].of])
  <2>1. CASE y = x
    BY <2>1, <1>3, <1>4, <1>9 DEF None
  <2>2. CASE y # x
    <3>1. db[y] \in Files \cup {None} /\ db'[y] = db[y] /\ db[y] # None
      BY <2>2, <1>4, <1>9 DEF RepoInv, RepoTypeOK, None
    <3> QED
      BY <3>1, FileFacts DEF Newer
  <2> QED
    BY <2>1, <2>2
<1> QED
  BY <1>8, <1>9

LEMMA ExportsKeeps ==
    ASSUME RepoInv, LeaseInv, NEW a \in Actors, NEW x \in Architectures,
           ChildExports(a, x)
    PROVE  RepoInv'
<1>1. /\ Alive(a) /\ child[a].stage = "export"
      /\ UNCHANGED <<pool, db, validation>> /\ Advance(a, x, "sweep")
      /\ index' \in [Architectures -> Files \cup {None}]
  BY DEF ChildExports, Alive, Working, RepoInv, RepoTypeOK
<1>2. WorkSound(child[a])
  BY <1>1 DEF RepoInv, ChildSound
<1>3. PICK w \in Children : /\ child' = [child EXCEPT ![a] = w]
                            /\ w.op = child[a].op /\ w.run = child[a].run
                            /\ w.stage \in {"export", "sweep"}
  BY <1>1, AdvanceMakes
<1>4. WorkSound(w)'
  BY <1>1, <1>2, <1>3 DEF WorkSound, Newer
<1> QED
  BY <1>1, <1>3, <1>4, RepoChildStep
  DEF RepoInv, RepoTypeOK, PoolSound, HasVersion

LEMMA SweepsKeeps ==
    ASSUME RepoInv, LeaseInv, NEW a \in Actors, ChildSweeps(a)
    PROVE  RepoInv'
<1>1. /\ Alive(a) /\ UNCHANGED <<db, index, validation>> /\ Exit(a, "ok")
      /\ pool' = [v \in Versions |->
                    IF \E x \in Architectures : db[x] = pool[v]
                    THEN pool[v] ELSE None]
  BY DEF ChildSweeps, Alive, Working
<1>2. /\ pool' \in [Versions -> Files \cup {None}]
      /\ \A v \in Versions : pool'[v] \in {pool[v], None}
      /\ \A v \in Versions : (\E x \in Architectures : db[x] = pool[v])
                             => pool'[v] = pool[v]
  BY <1>1 DEF RepoInv, RepoTypeOK
<1>3. PoolSound'
  <2>1. ASSUME NEW x \in Architectures, db[x] # None
        PROVE  db[x] = pool'[VersionOf[db[x].of]]
    <3>1. db[x] \in Files \cup {None} /\ db[x] = pool[VersionOf[db[x].of]]
      BY <2>1 DEF RepoInv, RepoTypeOK, PoolSound
    <3>2. VersionOf[db[x].of] \in Versions
      BY <3>1, <2>1, FileFacts
    <3> QED
      BY <3>1, <3>2, <1>2
  <2>2. ASSUME NEW v \in Versions, pool'[v] # None
        PROVE  /\ HasVersion(pool'[v], v)
               /\ pool'[v].of \in Runs => validation[pool'[v].of].proven
    BY <2>2, <1>2 DEF RepoInv, PoolSound
  <2> QED
    BY <2>1, <2>2, <1>1 DEF PoolSound, HasVersion
<1>4. PICK w : child' = [child EXCEPT ![a] = w] /\ w.stage \notin Working
  BY <1>1, ExitMakes
<1> QED
  BY <1>1, <1>2, <1>3, <1>4, RepoChildStep DEF RepoInv, RepoTypeOK

LEMMA FailsKeeps ==
    ASSUME RepoInv, LeaseInv, NEW a \in Actors, ChildFails(a)
    PROVE  RepoInv'
<1>1. Alive(a) /\ UNCHANGED <<db, index, pool, validation>> /\ Exit(a, "failed")
  BY DEF ChildFails, repoVars
<1>2. PICK w : child' = [child EXCEPT ![a] = w] /\ w.stage \notin Working
  BY <1>1, ExitMakes
<1> QED
  BY <1>1, <1>2, RepoChildStep DEF RepoInv, RepoTypeOK, PoolSound, HasVersion

(* The threads: only the start of reprepro matters to the repository.      *)
LEMMA StartKeeps ==
    ASSUME RepoInv, LeaseInv, NEW a \in Actors, pc[a] \in Leased \ {"waiting"},
           UNCHANGED <<db, index, pool, validation>>,
           \/ Start(a, "remove", Nobody)
           \/ \E r \in Runs : Start(a, "include", r) /\ Insertable(r)
    PROVE  RepoInv'
<1>1. \A b \in Actors : ~ Alive(b)
  BY NobodyActs DEF LeaseInv, LeaseOK, OneMutator
<1>2. \E w : child' = [child EXCEPT ![a] = w] /\ WorkSound(w)
  <2>1. CASE Start(a, "remove", Nobody)
    <3> DEFINE w == [op |-> "remove", run |-> Nobody, stage |-> "db",
                     todo |-> Architectures]
    <3>1. WorkSound(w)
      BY DEF WorkSound
    <3> QED
      BY <3>1, <2>1 DEF Start
  <2>2. ASSUME NEW r \in Runs, Start(a, "include", r), Insertable(r)
        PROVE  \E w : child' = [child EXCEPT ![a] = w] /\ WorkSound(w)
    <3> DEFINE w == [op |-> "include", run |-> r, stage |-> "pool",
                     todo |-> Architectures]
    <3>1. WorkSound(w)
      BY <2>2 DEF WorkSound, Insertable, Eligible, Downgrade
    <3> QED
      BY <3>1, <2>2 DEF Start
  <2> QED
    BY <2>1, <2>2
<1>3. PICK w : child' = [child EXCEPT ![a] = w] /\ WorkSound(w)
  BY <1>2
<1>4. \A b \in Actors : Alive(b)' => b = a /\ child'[b] = w
  BY <1>1, <1>3 DEF LeaseInv, LeaseTypeOK, Alive
<1> QED
  BY <1>3, <1>4
  DEF RepoInv, RepoTypeOK, PoolSound, ChildSound, WorkSound, HasVersion, Newer

LEMMA StartedValidation ==
    ASSUME NEW v \in Validations, NEW n \in 0..MaxValidations
    PROVE  /\ [v EXCEPT !.active = TRUE, !.left = n] \in Validations
           /\ [v EXCEPT !.active = TRUE, !.left = n].proven = v.proven
BY DEF Validations

(* A validation proves a Run, and nothing makes it unproven.               *)
LEMMA ValidationKeeps ==
    ASSUME RepoInv, NEW r \in Runs,
           \/ ValidationStarts(r)
           \/ \E success \in BOOLEAN : ValidationEnds(r, success)
    PROVE  RepoInv'
<1> DEFINE old == validation[r]
<1>1. old \in Validations
  BY DEF RepoInv, RepoTypeOK
<1>2. UNCHANGED <<db, index, pool, child>>
  BY DEF ValidationStarts, ValidationEnds, repoVars
<1>3. \E new \in Validations :
        /\ validation' = [validation EXCEPT ![r] = new]
        /\ old.proven => new.proven
  <2>1. CASE ValidationStarts(r)
    <3> DEFINE new == [old EXCEPT !.active = TRUE, !.left = @ - 1]
    <3>1. new \in Validations
          /\ new.proven = old.proven
      <4>1. old.left \in 0..MaxValidations /\ old.left > 0
        BY <1>1, <2>1 DEF ValidationStarts, Validations
      <4>2. old.left - 1 \in 0..MaxValidations
        BY <4>1, ConstantsAssumption
      <4> QED
        BY <1>1, <4>2, StartedValidation
    <3>2. validation' = [validation EXCEPT ![r] = new]
      BY <1>1, <2>1 DEF ValidationStarts, RepoInv, RepoTypeOK
    <3> QED
      BY <3>1, <3>2
  <2>2. ASSUME NEW success \in BOOLEAN, ValidationEnds(r, success)
        PROVE  \E new \in Validations :
                 /\ validation' = [validation EXCEPT ![r] = new]
                 /\ old.proven => new.proven
    <3> DEFINE new == [old EXCEPT !.active = FALSE, !.proven = @ \/ success]
    <3>1. new \in Validations
          /\ (old.proven => new.proven)
      BY <1>1 DEF Validations
    <3>2. validation' = [validation EXCEPT ![r] = new]
      BY <1>1, <2>2 DEF ValidationEnds, RepoInv, RepoTypeOK
    <3> QED
      BY <3>1, <3>2
  <2> QED
    BY <2>1, <2>2
<1>4. /\ validation' \in [Runs -> Validations]
      /\ \A q \in Runs : validation[q].proven => validation'[q].proven
  BY <1>3 DEF RepoInv, RepoTypeOK
<1>5. PoolSound' /\ ChildSound'
  BY <1>2, <1>4
  DEF RepoInv, PoolSound, ChildSound, WorkSound, HasVersion, Newer, Alive
<1> QED
  BY <1>2, <1>4, <1>5 DEF RepoInv, RepoTypeOK

LEMMA RepoInit == Init => RepoInv
<1> SUFFICES ASSUME Init  PROVE RepoInv
  OBVIOUS
<1>1. \A a \in Actors : ~ Alive(a)
  BY DEF Init, Alive, NoChild, Working
<1>2. PICK f \in {None} \cup {Exact(p) : p \in Foreign} :
        /\ db = [x \in Architectures |-> f]
        /\ index = [x \in Architectures |-> f]
        /\ pool = [v \in Versions |-> IF HasVersion(f, v) THEN f ELSE None]
  BY DEF Init
<1>3. /\ f \in Files \cup {None} /\ f.of \notin Runs
      /\ f # None => HasVersion(f, VersionOf[f.of])
  <2>1. CASE f = None
    BY <2>1, ConstantsAssumption DEF None, Packages
  <2>2. CASE f # None
    <3>1. PICK p \in Foreign : f = Exact(p)
      BY <2>2, <1>2
    <3>2. p \in Packages /\ p \notin Runs /\ p # Nobody
      BY ConstantsAssumption DEF Packages
    <3> QED
      BY <3>1, <3>2 DEF Exact, Files, HasVersion
  <2> QED
    BY <2>1, <2>2
<1>4. f # None => VersionOf[f.of] \in Versions
  BY <1>3, FileFacts
<1>5. RepoTypeOK
  <2>1. [proven |-> FALSE, active |-> FALSE, left |-> MaxValidations]
          \in Validations
    BY ConstantsAssumption DEF Validations
  <2> QED
    BY <2>1, <1>2, <1>3 DEF Init, RepoTypeOK
<1>6. PoolSound
  <2>1. ASSUME NEW v \in Versions, pool[v] # None
        PROVE  HasVersion(pool[v], v) /\ pool[v].of \notin Runs
    BY <2>1, <1>2, <1>3
  <2>2. ASSUME NEW x \in Architectures, db[x] # None
        PROVE  db[x] = pool[VersionOf[db[x].of]]
    BY <2>2, <1>2, <1>3, <1>4
  <2> QED
    BY <2>1, <2>2 DEF PoolSound
<1> QED
  BY <1>1, <1>5, <1>6 DEF RepoInv, ChildSound

(* Every step of the program keeps the repository sound.                   *)
LEMMA RepoStep ==
    ASSUME LeaseInv, RepoInv, WorkInv, [Next]_vars
    PROVE  RepoInv'
<1>1. ASSUME UNCHANGED <<db, index, pool, validation, child>>  PROVE RepoInv'
  BY <1>1, RepoStays DEF Alive
<1>2. ASSUME NEW c \in Clients,
             \/ \E r \in Runs, kind \in {"publish", "reconcile"},
                  confirmed \in BOOLEAN : PublishCall(c, r, kind, confirmed)
             \/ PublishStep(c) \/ PublishAbandons(c) \/ PublishFault(c)
      PROVE  RepoInv'
  <2>1. CASE PublishClassify(c)
    <3>1. /\ UNCHANGED <<db, index, pool, validation>>
          /\ c \in Actors /\ pc[c] \in Leased \ {"waiting"}
          /\ job[c].run \in Runs
      BY <1>2, <2>1, ClientActs
      DEF PublishClassify, repoVars, Leased, WorkInv, JobSound
    <3>2. \/ UNCHANGED child
          \/ Start(c, "include", job[c].run) /\ Insertable(job[c].run)
      BY <2>1 DEF PublishClassify
    <3> QED
      BY <3>1, <3>2, <1>1, StartKeeps
  <2>2. CASE PublishResult(c)
    BY <1>2, <2>2, ClientActs, RepoChildEnds DEF PublishResult, repoVars
  <2>3. CASE ~ PublishClassify(c) /\ ~ PublishResult(c)
    BY <1>1, <1>2, <2>3
    DEF PublishCall, PublishStep, PublishLease, PublishSource, PublishProve,
        PublishFinish, PublishFail, PublishAbandons, PublishFault, repoVars
  <2> QED
    BY <2>1, <2>2, <2>3
<1>3. CASE \/ \E r \in Runs, enabled \in BOOLEAN : PruneBegin(r, enabled)
           \/ PruneStep \/ PruneFault
  BY <1>1, <1>3
  DEF PruneBegin, PruneStep, PruneLease, PruneVerify, PruneIntent, PruneCheck,
      PruneUnlink, PruneMetadata, PruneClean, PruneFault, repoVars
<1>4. CASE RemoveCall \/ RemoveStep \/ RemoveAbandons \/ RemoveFault
  <2>1. CASE RemoveQuery
    <3>1. /\ UNCHANGED <<db, index, pool, validation>>
          /\ pc[Remover] \in Leased \ {"waiting"}
          /\ UNCHANGED child \/ Start(Remover, "remove", Nobody)
      BY <2>1 DEF RemoveQuery, repoVars, Leased
    <3> QED
      BY <3>1, <1>1, ClientActs, StartKeeps
  <2>2. CASE RemoveResult
    BY <2>2, ClientActs, RepoChildEnds DEF RemoveResult, repoVars
  <2>3. CASE ~ RemoveQuery /\ ~ RemoveResult
    BY <1>1, <1>4, <2>3
    DEF RemoveCall, RemoveStep, RemoveIntent, RemoveLease, RemoveMark,
        RemoveRestore, RemoveAbandons, RemoveFault, repoVars
  <2> QED
    BY <2>1, <2>2, <2>3
<1>5. ASSUME NEW a \in Actors, ChildStep(a)  PROVE RepoInv'
  BY <1>5, CopiesKeeps, RegistersKeeps, ExportsKeeps, SweepsKeeps, FailsKeeps
  DEF ChildStep
<1>6. ASSUME NEW r \in Runs,
             \/ ValidationStarts(r) \/ Tamper(r) \/ Recover(r)
             \/ \E success \in BOOLEAN : ValidationEnds(r, success)
      PROVE  RepoInv'
  BY <1>1, <1>6, ValidationKeeps DEF Tamper, Recover, repoVars
<1>7. CASE Crash
  <2>1. /\ UNCHANGED <<db, index, pool, validation>>
        /\ \A a \in Actors : Alive(a)' => Alive(a) /\ child'[a] = child[a]
    BY <1>7 DEF Crash, repoVars, Alive, NoChild, Working
  <2> QED
    BY <2>1, RepoStays
<1>8. CASE Open \/ UNCHANGED vars
  BY <1>1, <1>8 DEF Open, vars, repoVars
<1> QED
  BY <1>2, <1>3, <1>4, <1>5, <1>6, <1>7, <1>8 DEF Next

-----------------------------------------------------------------------------
(* The threads' invariant.                                                 *)

LEMMA Threads ==
    /\ Maintenance \notin Clients /\ Remover \notin Clients
    /\ Maintenance # Remover /\ Nobody \notin Actors
    /\ Clients \subseteq Actors /\ Maintenance \in Actors /\ Remover \in Actors
BY ConstantsAssumption, NobodyActs DEF Actors, Maintenance, Remover

(* A thread with the lease that waits for no child sees no child at work.  *)
LEMMA QuietRepository ==
    ASSUME LeaseInv, NEW a \in Actors, pc[a] \in Leased \ {"waiting"}
    PROVE  \A b \in Actors : ~ Alive(b)
BY NobodyActs DEF LeaseInv, LeaseOK, OneMutator

SameRun(r) == /\ attempts'[r] = attempts[r] /\ runLock'[r] = runLock[r]
              /\ artifact'[r] = artifact[r]
              /\ intent'[r] = intent[r] /\ pruning'[r] = pruning[r]

SameThread(a) == pc'[a] = pc[a] /\ job'[a] = job[a]

LEMMA SameLatest ==
    ASSUME NEW r \in Runs, attempts'[r] = attempts[r]
    PROVE  LatestProof(r)' = LatestProof(r)
BY LatestProofOf

(* A thread's knowledge stays true when its Run and the repository stay.   *)
LEMMA JobStays ==
    ASSUME NEW c \in Clients, JobSound(c), SameThread(c),
           pc[c] # "idle" => SameRun(job[c].run),
           UNCHANGED <<db, index, pool>>
    PROVE  JobSound(c)'
BY DEF JobSound, SameThread, SameRun, InRepository, Status, Last

LEMMA PruneStays ==
    ASSUME PruneSound, SameThread(Maintenance),
           pc[Maintenance] # "idle" => SameRun(job[Maintenance].run),
           UNCHANGED <<db, index, pool>>
    PROVE  PruneSound'
<1>1. CASE pc[Maintenance] = "idle"
  BY <1>1 DEF PruneSound, SameThread
<1>2. CASE pc[Maintenance] # "idle"
  <2>1. PICK r \in Runs : r = job[Maintenance].run /\ SameRun(r)
    BY <1>2 DEF PruneSound
  <2>2. /\ Interrupted(r)' <=> Interrupted(r)
        /\ PruningReadable(r)' <=> PruningReadable(r)
    BY <2>1, SameLatest DEF SameRun, Interrupted, PruningReadable
  <2>3. InRepository(r)' <=> InRepository(r)
    BY DEF InRepository
  <2> QED
    BY <1>2, <2>1, <2>2, <2>3 DEF PruneSound, SameThread, SameRun
<1> QED
  BY <1>1, <1>2

(* A thread takes a step on the Run that it has, or takes, the lock of.    *)
LEMMA OwnStep ==
    ASSUME WorkInv, LeaseInv, NEW a \in Clients \cup {Maintenance},
           NEW r \in Runs, runLock[r] \in {a, Nobody},
           up = "up", UNCHANGED <<db, index, pool, up>>,
           \A b \in Actors \ {a} : SameThread(b),
           \A q \in Runs \ {r} : SameRun(q),
           RunTypeOK', Accounted(r)',
           a \in Clients => JobSound(a)',
           a = Maintenance => PruneSound'
    PROVE  WorkInv'
<1> USE Threads
<1>1. \A b \in (Clients \cup {Maintenance}) \ {a} : runLock[r] # b
  OBVIOUS
<1>2. ASSUME NEW c \in Clients \ {a}  PROVE JobSound(c)'
  <2>1. JobSound(c) /\ SameThread(c)
    BY DEF WorkInv
  <2>2. pc[c] # "idle" => SameRun(job[c].run)
    BY <2>1, <1>1 DEF JobSound
  <2> QED
    BY <2>1, <2>2, JobStays
<1>3. ASSUME a # Maintenance  PROVE PruneSound'
  <2>1. PruneSound /\ SameThread(Maintenance)
    BY <1>3 DEF WorkInv
  <2>2. pc[Maintenance] # "idle" => SameRun(job[Maintenance].run)
    BY <2>1, <1>1, <1>3 DEF PruneSound
  <2> QED
    BY <2>1, <2>2, PruneStays
<1>4. ASSUME NEW q \in Runs \ {r}  PROVE Accounted(q)'
  BY SameLatest DEF WorkInv, Accounted, SameRun
<1> QED
  BY <1>2, <1>3, <1>4 DEF WorkInv

(* A step that leaves threads and Runs alone.                              *)
LEMMA WorkStays ==
    ASSUME WorkInv, UNCHANGED <<attempts, artifact, intent, pruning, runLock,
                                db, index, pool, up>>,
           \A a \in Clients \cup {Maintenance} : SameThread(a),
           up = "up" \/ \A a \in Actors : pc'[a] = pc[a]
    PROVE  WorkInv'
<1> USE Threads
<1>1. \A r : SameRun(r)
  BY DEF SameRun
<1>2. RunTypeOK'
  BY DEF WorkInv, RunTypeOK
<1>3. \A c \in Clients : JobSound(c)'
  BY <1>1, JobStays DEF WorkInv
<1>4. PruneSound'
  BY <1>1, PruneStays DEF WorkInv
<1>5. \A r \in Runs : Accounted(r)'
  BY SameLatest DEF WorkInv, Accounted
<1> QED
  BY <1>2, <1>3, <1>4, <1>5 DEF WorkInv

(* reprepro works: nobody relies on what the repository holds.             *)
LEMMA WorkWhileChildRuns ==
    ASSUME WorkInv, LeaseInv, NEW b \in Actors, Alive(b),
           UNCHANGED <<attempts, artifact, intent, pruning, runLock, up,
                       pc, job>>
    PROVE  WorkInv'
<1> USE Threads
<1>1. \A a \in Actors : pc[a] \notin Leased \ {"waiting"}
  BY QuietRepository
<1>2. {"finish", "intent", "check", "unlink"} \subseteq Leased \ {"waiting"}
  BY DEF Leased
<1>3. RunTypeOK'
  BY DEF WorkInv, RunTypeOK
<1>4. \A c \in Clients : JobSound(c)'
  BY <1>1, <1>2 DEF WorkInv, JobSound, Status, Last
<1>5. PruneSound'
  <2> DEFINE r == job[Maintenance].run
  <2>1. CASE pc[Maintenance] = "idle"
    BY <2>1 DEF PruneSound
  <2>2. CASE pc[Maintenance] # "idle"
    <3>1. r \in Runs /\ PruneSound
      BY <2>2 DEF WorkInv, PruneSound
    <3>2. /\ Interrupted(r)' <=> Interrupted(r)
          /\ PruningReadable(r)' <=> PruningReadable(r)
      BY <3>1, SameLatest DEF Interrupted, PruningReadable
    <3> QED
      BY <1>1, <1>2, <2>2, <3>1, <3>2 DEF PruneSound
  <2> QED
    BY <2>1, <2>2
<1>6. \A r \in Runs : Accounted(r)'
  BY SameLatest DEF WorkInv, Accounted
<1> QED
  BY <1>3, <1>4, <1>5, <1>6 DEF WorkInv

(* The end of the last attempt of a Run.                                   *)
LEMMA SetLastMakes ==
    ASSUME RunTypeOK, NEW r \in Runs, NEW e \in Statuses, attempts[r] # << >>,
           SetLast(r, e)
    PROVE  /\ attempts' \in [Runs -> Seq(Statuses)]
           /\ \A q \in Runs : Len(attempts'[q]) <= MaxAttempts
           /\ \A q \in Runs \ {r} : attempts'[q] = attempts[q]
           /\ attempts'[r] # << >> /\ Status(r)' = e
           /\ Status(r) # "success" /\ e # "success"
              => LatestProof(r)' = LatestProof(r)
           /\ e # "success" =>
                \A i \in DOMAIN attempts[r] :
                  attempts'[r][i] = "success" => attempts[r][i] = "success"
<1>1. attempts[r] \in Seq(Statuses)
  BY DEF RunTypeOK
<1>2. PICK t \in Seq(Statuses) :
        /\ t = [attempts[r] EXCEPT ![Len(attempts[r])] = e]
        /\ Len(t) = Len(attempts[r]) /\ t # << >> /\ Last(t) = e
        /\ Last(attempts[r]) # "success" /\ e # "success"
           => LatestOf(t) = LatestOf(attempts[r])
        /\ \A i \in DOMAIN attempts[r] :
             i # Len(attempts[r]) => t[i] = attempts[r][i]
  BY <1>1, Ended
<1>3. attempts' = [attempts EXCEPT ![r] = t]
  BY <1>2 DEF SetLast
<1>4. /\ attempts' \in [Runs -> Seq(Statuses)] /\ attempts'[r] = t
      /\ \A q \in Runs \ {r} : attempts'[q] = attempts[q]
  BY <1>3 DEF RunTypeOK
<1>5. \A q \in Runs : Len(attempts'[q]) <= MaxAttempts
  BY <1>2, <1>4 DEF RunTypeOK
<1>6. Status(r)' = e /\ Status(r) = Last(attempts[r])
  BY <1>2, <1>4 DEF Status, Last
<1>7. e # "success" => \A i \in DOMAIN attempts[r] :
        attempts'[r][i] = "success" => attempts[r][i] = "success"
  BY <1>2, <1>4 DEF Last
<1> QED
  BY <1>2, <1>4, <1>5, <1>6, <1>7, LatestProofOf

(* What a client that is at work knows of its Run.                         *)
LEMMA ClientKnows ==
    ASSUME WorkInv, LeaseInv, NEW c \in Clients, pc[c] # "idle"
    PROVE  /\ job[c].run \in Runs /\ runLock[job[c].run] = c
           /\ attempts[job[c].run] # << >>
           /\ up = "up" /\ c \in Actors /\ c # Maintenance /\ RunTypeOK
           /\ pc \in [Actors -> Places] /\ JobSound(c)
           /\ pc[c] # "failing" => Status(job[c].run) = "running"
BY Threads DEF WorkInv, JobSound, RunTypeOK, LeaseInv, LeaseTypeOK

(* A client goes to another place, with its Run and repository unchanged.  *)
LEMMA ClientMoves ==
    ASSUME WorkInv, LeaseInv, NEW c \in Clients,
           pc[c] \notin {"idle", "failing"},
           NEW p \in Places \ {"idle"}, Goto(c, p),
           UNCHANGED <<attempts, artifact, intent, pruning, runLock, job, up,
                       db, index, pool>>,
           p \in Sourced => artifact[job[c].run] # "absent",
           p = "finish" => InRepository(job[c].run)
    PROVE  WorkInv'
<1> PICK r : r = job[c].run
  OBVIOUS
<1>1. /\ r \in Runs /\ runLock[r] = c /\ attempts[r] # << >> /\ up = "up"
      /\ c \in Actors /\ c # Maintenance /\ RunTypeOK
      /\ pc \in [Actors -> Places] /\ Status(r) = "running"
  BY ClientKnows
<1>2. pc'[c] = p /\ \A b \in Actors \ {c} : SameThread(b)
  BY <1>1 DEF Goto, SameThread
<1>3. (\A q \in Runs : SameRun(q)) /\ RunTypeOK'
  BY <1>1 DEF SameRun, RunTypeOK
<1>4. Accounted(r)'
  BY <1>1, SameLatest DEF WorkInv, Accounted
<1>5. InRepository(r)' <=> InRepository(r)
  BY DEF InRepository
<1>6. JobSound(c)'
  BY <1>1, <1>2, <1>5 DEF JobSound, Status, Last
<1> QED
  BY <1>1, <1>2, <1>3, <1>4, <1>6, OwnStep

(* A client ends its job: it finished the attempt, or failed it, or could  *)
(* not save that it did.                                                   *)
LEMMA ClientEnds ==
    ASSUME WorkInv, LeaseInv, NEW c \in Clients,
           pc[c] \in {"finish", "failing"},
           Goto(c, "idle"), job' = [job EXCEPT ![c] = NoJob],
           runLock' = [runLock EXCEPT ![job[c].run] = Nobody],
           \/ UNCHANGED attempts
           \/ SetLast(job[c].run, "failed")
           \/ pc[c] = "finish" /\ SetLast(job[c].run, "success"),
           UNCHANGED <<artifact, intent, pruning, up, db, index, pool>>
    PROVE  WorkInv'
<1> PICK r : r = job[c].run
  OBVIOUS
<1>1. /\ r \in Runs /\ runLock[r] = c /\ attempts[r] # << >> /\ up = "up"
      /\ c \in Actors /\ c # Maintenance /\ RunTypeOK
      /\ pc \in [Actors -> Places] /\ JobSound(c)
  BY ClientKnows
<1>2. /\ attempts' \in [Runs -> Seq(Statuses)]
      /\ \A q \in Runs : Len(attempts'[q]) <= MaxAttempts
      /\ \A q \in Runs \ {r} : attempts'[q] = attempts[q]
  BY <1>1, SetLastMakes DEF RunTypeOK, Statuses
<1>3. pc'[c] = "idle" /\ \A b \in Actors \ {c} : SameThread(b)
  BY <1>1 DEF Goto, SameThread, LeaseInv, LeaseTypeOK
<1>4. /\ runLock' \in [Runs -> Actors \cup {Nobody}]
      /\ \A q \in Runs \ {r} : runLock'[q] = runLock[q]
  BY <1>1 DEF RunTypeOK
<1>5. (\A q \in Runs \ {r} : SameRun(q)) /\ RunTypeOK'
  BY <1>1, <1>2, <1>4 DEF SameRun, RunTypeOK
<1>6. Accounted(r)'
  <2>1. CASE artifact[r] # "absent"
    BY <2>1 DEF Accounted
  <2>2. CASE artifact[r] = "absent"
    <3>1. Status(r) = "running" /\ pc[c] = "failing"
      BY <1>1, <2>2 DEF JobSound, Sourced
    <3>2. LatestProof(r)' = LatestProof(r)
      BY <3>1, <1>1, SameLatest, SetLastMakes DEF Statuses
    <3> QED
      BY <1>1, <3>2 DEF WorkInv, Accounted
  <2> QED
    BY <2>1, <2>2
<1>7. JobSound(c)'
  BY <1>3 DEF JobSound
<1> QED
  BY <1>1, <1>3, <1>5, <1>6, <1>7, OwnStep

(* The proof compares versions in the database, and bytes in the indexes   *)
(* and in the pool; since the database refers to the pool, all agree.      *)
LEMMA ProvenIsThere ==
    ASSUME RepoInv, NEW r \in Runs, Proves(r)
    PROVE  InRepository(r) /\ artifact[r] = "present"
<1>1. ASSUME NEW x \in Architectures  PROVE db[x] = Exact(r)
  <2>1. db[x].of # Nobody /\ VersionOf[db[x].of] = VersionOf[r]
    BY <1>1 DEF Proves, Registered, HasVersion
  <2>2. db[x] = pool[VersionOf[db[x].of]]
    BY <2>1 DEF RepoInv, PoolSound, None
  <2> QED
    BY <2>1, <2>2 DEF Proves
<1> QED
  BY <1>1 DEF Proves, InRepository

(* _attempt: a new attempt, and the lock unless its save raised.           *)
LEMMA CallKeeps ==
    ASSUME WorkInv, LeaseInv, NEW c \in Clients, NEW r \in Runs,
           NEW kind \in {"publish", "reconcile"}, NEW confirmed \in BOOLEAN,
           PublishCall(c, r, kind, confirmed)
    PROVE  WorkInv'
<1>1. /\ runLock[r] = Nobody /\ up = "up" /\ pc[c] = "idle" /\ RunTypeOK
      /\ c \in Actors /\ c # Maintenance /\ pc \in [Actors -> Places]
      /\ job \in [Actors -> Jobs] /\ attempts[r] \in Seq(Statuses)
      /\ Len(attempts[r]) < MaxAttempts
      /\ UNCHANGED <<artifact, intent, pruning, up, db, index, pool>>
  BY Threads
  DEF PublishCall, RunFree, WorkInv, RunTypeOK, LeaseInv, LeaseTypeOK, repoVars
<1>2. PICK t \in Seq(Statuses) :
        /\ t = Append(attempts[r], "running")
        /\ Len(t) = Len(attempts[r]) + 1 /\ t # << >>
        /\ Last(t) = "running" /\ LatestOf(t) = LatestOf(attempts[r])
  BY <1>1, Appended
<1>3. /\ attempts' \in [Runs -> Seq(Statuses)] /\ attempts'[r] = t
      /\ \A q \in Runs \ {r} : attempts'[q] = attempts[q]
  BY <1>1, <1>2 DEF PublishCall, RunTypeOK
<1>4. Len(t) <= MaxAttempts
  <2>1. Len(attempts[r]) \in Nat /\ MaxAttempts \in Nat
    BY <1>1, ConstantsAssumption
  <2> QED
    BY <2>1, <1>1, <1>2
<1>5. \A q \in Runs : Len(attempts'[q]) <= MaxAttempts
  BY <1>1, <1>3, <1>4 DEF RunTypeOK
<1>6. Accounted(r)'
  <2>1. LatestProof(r)' = LatestProof(r)
    BY <1>2, <1>3, LatestProofOf
  <2> QED
    BY <1>1, <2>1 DEF WorkInv, Accounted
<1>7. CASE /\ runLock' = [runLock EXCEPT ![r] = c]
           /\ job' = [job EXCEPT ![c] = Job(r, kind)]
           /\ Goto(c, IF kind = "publish" /\ ~ confirmed THEN "failing"
                                                         ELSE "lease")
  <2>1. /\ pc'[c] \in {"failing", "lease"} /\ job'[c] = Job(r, kind)
        /\ \A b \in Actors \ {c} : SameThread(b)
    BY <1>1, <1>7 DEF Goto, SameThread
  <2>2. /\ runLock' \in [Runs -> Actors \cup {Nobody}] /\ runLock'[r] = c
        /\ \A q \in Runs \ {r} : runLock'[q] = runLock[q]
    BY <1>1, <1>7 DEF RunTypeOK
  <2>3. (\A q \in Runs \ {r} : SameRun(q)) /\ RunTypeOK'
    BY <1>1, <1>3, <1>5, <2>2 DEF SameRun, RunTypeOK
  <2>4. JobSound(c)'
    <3>1. job'[c].run = r /\ pc'[c] \notin Sourced /\ pc'[c] # "finish"
      BY <2>1 DEF Job, Sourced
    <3>2. Status(r)' = "running" /\ attempts'[r] # << >>
      BY <1>2, <1>3 DEF Status, Last
    <3> QED
      BY <3>1, <3>2, <2>2 DEF JobSound
  <2> QED
    BY <1>1, <1>6, <2>1, <2>3, <2>4, OwnStep
<1>8. CASE UNCHANGED <<runLock, job, pc>>
  <2>1. \A b \in Actors : SameThread(b)
    BY <1>8 DEF SameThread
  <2>2. (\A q \in Runs \ {r} : SameRun(q)) /\ RunTypeOK'
    BY <1>1, <1>3, <1>5, <1>8 DEF SameRun, RunTypeOK
  <2>3. JobSound(c)'
    BY <1>1, <1>8 DEF JobSound
  <2> QED
    BY <1>1, <1>6, <2>1, <2>2, <2>3, OwnStep
<1> QED
  BY <1>7, <1>8 DEF PublishCall

(* The save of a success raised after run.json was replaced.               *)
LEMMA LateSuccess ==
    ASSUME WorkInv, LeaseInv, NEW c \in Clients, pc[c] = "finish",
           Goto(c, "failing"), SetLast(job[c].run, "success"),
           UNCHANGED <<artifact, intent, pruning, runLock, job, up,
                       db, index, pool>>
    PROVE  WorkInv'
<1> PICK r : r = job[c].run
  OBVIOUS
<1>1. /\ r \in Runs /\ runLock[r] = c /\ attempts[r] # << >> /\ up = "up"
      /\ c \in Actors /\ c # Maintenance /\ RunTypeOK
      /\ pc \in [Actors -> Places] /\ artifact[r] # "absent"
  BY ClientKnows DEF JobSound, Sourced
<1>2. /\ attempts' \in [Runs -> Seq(Statuses)] /\ attempts'[r] # << >>
      /\ \A q \in Runs : Len(attempts'[q]) <= MaxAttempts
      /\ \A q \in Runs \ {r} : attempts'[q] = attempts[q]
      /\ Status(r)' = "success"
  BY <1>1, SetLastMakes DEF Statuses
<1>3. pc'[c] = "failing" /\ \A b \in Actors \ {c} : SameThread(b)
  BY <1>1 DEF Goto, SameThread
<1>4. (\A q \in Runs \ {r} : SameRun(q)) /\ RunTypeOK'
  BY <1>1, <1>2 DEF SameRun, RunTypeOK
<1>5. Accounted(r)'
  BY <1>1 DEF Accounted
<1>6. JobSound(c)'
  BY <1>1, <1>2, <1>3 DEF JobSound, Sourced
<1> QED
  BY <1>1, <1>3, <1>4, <1>5, <1>6, OwnStep

(* Every step of publish_artifact and reconcile_publication.               *)
LEMMA ClientKeeps ==
    ASSUME WorkInv, LeaseInv, RepoInv, NEW c \in Clients,
           \/ \E r \in Runs, kind \in {"publish", "reconcile"},
                confirmed \in BOOLEAN : PublishCall(c, r, kind, confirmed)
           \/ PublishStep(c) \/ PublishAbandons(c) \/ PublishFault(c)
    PROVE  WorkInv'
<1>0. {"source", "classify", "waiting", "prove", "finish", "failing"}
        \subseteq Places \ {"idle"}
  BY DEF Places
<1>1. pc[c] # "idle" => job[c].run \in Runs /\ JobSound(c)
  BY ClientKnows
<1>2. ASSUME pc[c] \notin {"idle", "failing"}, Goto(c, "failing"),
             UNCHANGED <<attempts, artifact, intent, pruning, runLock, job, up,
                         db, index, pool>>
      PROVE  WorkInv'
  BY <1>0, <1>2, ClientMoves DEF Sourced
<1>3. CASE PublishLease(c)
  <2>1. \E p \in {"source", "failing"} : Goto(c, p)
    BY <1>3 DEF PublishLease, TakeLease
  <2>2. UNCHANGED <<attempts, artifact, intent, pruning, runLock, job, up,
                    db, index, pool>> /\ pc[c] = "lease"
    BY <1>3 DEF PublishLease, runVars, repoVars
  <2> QED
    BY <1>0, <2>1, <2>2, ClientMoves DEF Sourced
<1>4. CASE PublishSource(c)
  <2>1. UNCHANGED <<attempts, artifact, intent, pruning, runLock, job, up,
                    db, index, pool>> /\ pc[c] = "source"
    BY <1>4 DEF PublishSource, runVars, repoVars
  <2>2. CASE Goto(c, "classify") /\ SourceOpens(job[c].run)
    BY <1>0, <2>1, <2>2, ClientMoves DEF SourceOpens, Sourced
  <2> QED
    BY <2>1, <2>2, <1>2, <1>4 DEF PublishSource, Unwind
<1>5. CASE PublishClassify(c)
  <2>1. /\ UNCHANGED <<attempts, artifact, intent, pruning, runLock, job, up,
                       db, index, pool>>
        /\ pc[c] = "classify" /\ artifact[job[c].run] # "absent"
    BY <1>1, <1>5 DEF PublishClassify, runVars, repoVars, JobSound, Sourced
  <2>2. ASSUME NEW p \in {"prove", "waiting"}, Goto(c, p)  PROVE WorkInv'
    BY <1>0, <2>1, <2>2, ClientMoves
  <2> QED
    BY <2>1, <2>2, <1>2, <1>5 DEF PublishClassify, Unwind
<1>6. CASE PublishResult(c)
  <2>1. /\ UNCHANGED <<attempts, artifact, intent, pruning, runLock, job, up,
                       db, index, pool>>
        /\ pc[c] = "waiting" /\ artifact[job[c].run] # "absent"
    BY <1>1, <1>6 DEF PublishResult, runVars, repoVars, JobSound, Sourced
  <2>2. CASE Goto(c, "prove")
    BY <1>0, <2>1, <2>2, ClientMoves
  <2> QED
    BY <2>1, <2>2, <1>2, <1>6 DEF PublishResult, Unwind
<1>7. CASE PublishProve(c)
  <2>1. /\ UNCHANGED <<attempts, artifact, intent, pruning, runLock, job, up,
                       db, index, pool>>
        /\ pc[c] = "prove" /\ artifact[job[c].run] # "absent"
    BY <1>1, <1>7 DEF PublishProve, runVars, repoVars, JobSound, Sourced
  <2>2. CASE Goto(c, "finish") /\ Proves(job[c].run)
    <3>1. InRepository(job[c].run)
      BY <1>1, <2>1, <2>2, ProvenIsThere
    <3> QED
      BY <1>0, <2>1, <2>2, <3>1, ClientMoves
  <2> QED
    BY <2>1, <2>2, <1>2, <1>7 DEF PublishProve, Unwind
<1>8. CASE PublishFinish(c)
  BY <1>8, ClientEnds DEF PublishFinish, repoVars
<1>9. CASE PublishFail(c)
  BY <1>9, ClientEnds DEF PublishFail, repoVars
<1>10. CASE PublishAbandons(c)
  BY <1>2, <1>10 DEF PublishAbandons, Unwind, runVars, repoVars
<1>11. CASE PublishFault(c)
  <2>1. /\ UNCHANGED <<artifact, intent, pruning, runLock, job, up,
                       db, index, pool>>
        /\ Goto(c, "failing")
        /\ pc[c] \in {"source", "classify", "prove", "finish"}
        /\ \/ UNCHANGED attempts
           \/ pc[c] = "finish" /\ SetLast(job[c].run, "success")
    BY <1>11 DEF PublishFault, Unwind, repoVars
  <2> QED
    BY <2>1, <1>2, LateSuccess
<1> QED
  BY <1>3, <1>4, <1>5, <1>6, <1>7, <1>8, <1>9, <1>10, <1>11, CallKeeps
  DEF PublishStep

(* What a pruning that is at work knows of its Run.                        *)
LEMMA PruneKnows ==
    ASSUME WorkInv, LeaseInv, pc[Maintenance] # "idle"
    PROVE  /\ job[Maintenance].run \in Runs
           /\ runLock[job[Maintenance].run] = Maintenance
           /\ up = "up" /\ RunTypeOK /\ PruneSound
           /\ pc \in [Actors -> Places] /\ job \in [Actors -> Jobs]
           /\ Maintenance \in Actors /\ Maintenance \notin Clients
BY Threads DEF WorkInv, PruneSound, RunTypeOK, LeaseInv, LeaseTypeOK

(* A pass stops: at its end, or anywhere with everything as it is.         *)
LEMMA PruneStops ==
    ASSUME WorkInv, LeaseInv, pc[Maintenance] # "idle", PruneEnds,
           UNCHANGED <<attempts, artifact, pruning, up, db, index, pool>>,
           \/ UNCHANGED intent
           \/ /\ pc[Maintenance] = "clean"
              /\ intent' = [intent EXCEPT ![job[Maintenance].run] = 0]
    PROVE  WorkInv'
<1> PICK r : r = job[Maintenance].run
  OBVIOUS
<1>1. /\ r \in Runs /\ runLock[r] = Maintenance /\ up = "up" /\ RunTypeOK
      /\ PruneSound /\ pc \in [Actors -> Places] /\ job \in [Actors -> Jobs]
      /\ Maintenance \in Actors /\ Maintenance \notin Clients
  BY PruneKnows
<1>2. /\ pc'[Maintenance] = "idle"
      /\ \A b \in Actors \ {Maintenance} : SameThread(b)
  BY <1>1 DEF PruneEnds, Goto, SameThread
<1>3. /\ runLock' \in [Runs -> Actors \cup {Nobody}]
      /\ \A q \in Runs \ {r} : runLock'[q] = runLock[q]
  BY <1>1 DEF PruneEnds, RunTypeOK
<1>4. /\ intent' \in [Runs -> 0..MaxAttempts]
      /\ \A q \in Runs \ {r} : intent'[q] = intent[q]
  <2>1. 0 \in 0..MaxAttempts
    BY ConstantsAssumption
  <2> QED
    BY <2>1, <1>1 DEF RunTypeOK
<1>5. (\A q \in Runs \ {r} : SameRun(q)) /\ RunTypeOK'
  BY <1>1, <1>3, <1>4 DEF SameRun, RunTypeOK
<1>6. Accounted(r)'
  <2>1. LatestProof(r)' = LatestProof(r) /\ Accounted(r)
    BY <1>1, SameLatest DEF WorkInv
  <2>2. CASE UNCHANGED intent
    BY <2>1, <2>2 DEF Accounted
  <2>3. CASE /\ pc[Maintenance] = "clean"
             /\ intent' = [intent EXCEPT ![r] = 0]
    <3>1. /\ intent'[r] = 0 /\ pruning[r] # 0 /\ PruningReadable(r)
      BY <1>1, <2>3 DEF PruneSound, RunTypeOK
    <3> QED
      BY <2>1, <3>1 DEF Accounted, PruningReadable
  <2> QED
    BY <2>2, <2>3
<1>7. PruneSound'
  BY <1>2 DEF PruneSound
<1> QED
  BY <1>1, <1>2, <1>5, <1>6, <1>7, OwnStep

(* A pass goes on without changing its Run.                                *)
LEMMA PruneMoves ==
    ASSUME WorkInv, LeaseInv, pc[Maintenance] # "idle",
           NEW p \in {"verify", "intent", "check", "unlink"},
           pc[Maintenance] \in {"lease", "verify", "intent", "check", "unlink"},
           Goto(Maintenance, p),
           UNCHANGED <<attempts, artifact, intent, pruning, runLock, job, up,
                       db, index, pool>>,
           p # "verify" => InRepository(job[Maintenance].run),
           p \in {"check", "unlink"} => intent[job[Maintenance].run] # 0
    PROVE  WorkInv'
<1> PICK r : r = job[Maintenance].run
  OBVIOUS
<1>1. /\ r \in Runs /\ runLock[r] = Maintenance /\ up = "up" /\ RunTypeOK
      /\ PruneSound /\ pc \in [Actors -> Places]
      /\ Maintenance \in Actors /\ Maintenance \notin Clients
  BY PruneKnows
<1>2. /\ pc'[Maintenance] = p
      /\ \A b \in Actors \ {Maintenance} : SameThread(b)
  BY <1>1 DEF Goto, SameThread
<1>3. (\A q \in Runs : SameRun(q)) /\ RunTypeOK'
  BY <1>1 DEF SameRun, RunTypeOK
<1>4. LatestProof(r)' = LatestProof(r)
  BY <1>1, SameLatest
<1>5. Accounted(r)'
  BY <1>1, <1>4 DEF WorkInv, Accounted
<1>6. /\ InRepository(r)' <=> InRepository(r)
      /\ PruningReadable(r)' <=> PruningReadable(r)
      /\ Interrupted(r)' <=> Interrupted(r)
  BY <1>4 DEF InRepository, PruningReadable, Interrupted
<1>7. PruneSound'
  BY <1>1, <1>2, <1>6 DEF PruneSound
<1> QED
  BY <1>1, <1>2, <1>3, <1>5, <1>7, OwnStep

(* A pass begins on a Run that can be read and whose work has ended.       *)
LEMMA PruneBeginKeeps ==
    ASSUME WorkInv, LeaseInv, NEW r \in Runs, NEW enabled \in BOOLEAN,
           PruneBegin(r, enabled)
    PROVE  WorkInv'
<1>1. /\ runLock[r] = Nobody /\ up = "up" /\ RunTypeOK
      /\ pc \in [Actors -> Places] /\ job \in [Actors -> Jobs]
      /\ Maintenance \in Actors /\ Maintenance \notin Clients
      /\ ~ Interrupted(r) /\ PruningReadable(r)
      /\ UNCHANGED <<attempts, artifact, intent, pruning, up, db, index, pool>>
  BY Threads
  DEF PruneBegin, RunFree, DestructionSafe, WorkInv, RunTypeOK, LeaseInv,
      LeaseTypeOK, runVars, repoVars
<1>2. PICK p \in {"clean", "meta", "lease"} :
        /\ Goto(Maintenance, p)
        /\ p = "clean" => pruning[r] # 0 /\ artifact[r] = "absent"
        /\ p = "meta" => /\ pruning[r] = 0 /\ artifact[r] = "absent"
                         /\ intent[r] # 0
        /\ p = "lease" => pruning[r] = 0 /\ artifact[r] # "absent"
  BY DEF PruneBegin
<1>3. /\ pc'[Maintenance] = p /\ job'[Maintenance].run = r
      /\ \A b \in Actors \ {Maintenance} : SameThread(b)
  BY <1>1, <1>2 DEF PruneBegin, Goto, SameThread, Job
<1>4. /\ runLock' \in [Runs -> Actors \cup {Nobody}]
      /\ runLock'[r] = Maintenance
      /\ \A q \in Runs \ {r} : runLock'[q] = runLock[q]
  BY <1>1 DEF PruneBegin, RunTypeOK
<1>5. (\A q \in Runs \ {r} : SameRun(q)) /\ RunTypeOK'
  BY <1>1, <1>4 DEF SameRun, RunTypeOK
<1>6. LatestProof(r)' = LatestProof(r)
  BY <1>1, SameLatest
<1>7. Accounted(r)'
  BY <1>1, <1>6 DEF WorkInv, Accounted
<1>8. PruningReadable(r)' /\ ~ Interrupted(r)'
  BY <1>1, <1>6 DEF PruningReadable, Interrupted
<1>9. PruneSound'
  BY <1>1, <1>2, <1>3, <1>4, <1>8 DEF PruneSound
<1> QED
  BY <1>1, <1>3, <1>5, <1>7, <1>9, OwnStep

LEMMA PruneIntentKeeps ==
    ASSUME WorkInv, LeaseInv, PruneIntent
    PROVE  WorkInv'
<1> PICK r : r = job[Maintenance].run
  OBVIOUS
<1>0. /\ pc[Maintenance] = "intent" /\ Goto(Maintenance, "check")
      /\ intent' = [intent EXCEPT ![r] = LatestProof(r)]
      /\ UNCHANGED <<attempts, artifact, pruning, runLock, job, up,
                     db, index, pool>>
  BY DEF PruneIntent, lockVars, repoVars
<1>1. /\ r \in Runs /\ runLock[r] = Maintenance /\ up = "up" /\ RunTypeOK
      /\ PruneSound /\ pc \in [Actors -> Places]
      /\ Maintenance \in Actors /\ Maintenance \notin Clients
  BY <1>0, PruneKnows
<1>2. /\ pc'[Maintenance] = "check"
      /\ \A b \in Actors \ {Maintenance} : SameThread(b)
  BY <1>0, <1>1 DEF Goto, SameThread
<1>3. LatestProof(r) \in 0..MaxAttempts /\ LatestProof(r)' = LatestProof(r)
  <2>1. attempts[r] \in Seq(Statuses) /\ Len(attempts[r]) <= MaxAttempts
    BY <1>1 DEF RunTypeOK
  <2>2. /\ LatestOf(attempts[r]) \in 0..Len(attempts[r])
        /\ Len(attempts[r]) \in Nat
    BY <2>1, LatestWin
  <2>3. LatestOf(attempts[r]) \in 0..MaxAttempts
    BY <2>1, <2>2, ConstantsAssumption
  <2> QED
    BY <2>3, <1>0, <1>1, SameLatest, LatestProofOf
<1>4. /\ intent' \in [Runs -> 0..MaxAttempts] /\ intent'[r] = LatestProof(r)
      /\ \A q \in Runs \ {r} : intent'[q] = intent[q]
  <2> PICK n \in 0..MaxAttempts : n = LatestProof(r)
    BY <1>3
  <2> QED
    BY <1>0, <1>1 DEF RunTypeOK
<1>5. (\A q \in Runs \ {r} : SameRun(q)) /\ RunTypeOK'
  BY <1>0, <1>1, <1>4 DEF SameRun, RunTypeOK
<1>6. /\ PruningReadable(r) /\ ~ Interrupted(r) /\ InRepository(r)
      /\ artifact[r] # "absent" /\ pruning[r] = 0
  BY <1>0, <1>1 DEF PruneSound
<1>7. Accounted(r)'
  BY <1>0, <1>6 DEF Accounted
<1>8. /\ PruningReadable(r)' /\ ~ Interrupted(r)' /\ InRepository(r)'
      /\ intent'[r] # 0
  BY <1>0, <1>3, <1>4, <1>6 DEF PruningReadable, Interrupted, InRepository
<1>9. PruneSound'
  BY <1>0, <1>1, <1>2, <1>6, <1>8 DEF PruneSound
<1> QED
  BY <1>0, <1>1, <1>2, <1>5, <1>7, <1>9, OwnStep

LEMMA PruneUnlinkKeeps ==
    ASSUME WorkInv, LeaseInv, PruneUnlink
    PROVE  WorkInv'
<1> PICK r : r = job[Maintenance].run
  OBVIOUS
<1>0. /\ pc[Maintenance] = "unlink" /\ Goto(Maintenance, "meta")
      /\ artifact' = [artifact EXCEPT ![r] = "absent"]
      /\ UNCHANGED <<attempts, intent, pruning, runLock, job, up,
                     db, index, pool>>
  BY DEF PruneUnlink, lockVars, repoVars
<1>1. /\ r \in Runs /\ runLock[r] = Maintenance /\ up = "up" /\ RunTypeOK
      /\ PruneSound /\ pc \in [Actors -> Places]
      /\ Maintenance \in Actors /\ Maintenance \notin Clients
  BY <1>0, PruneKnows
<1>2. /\ pc'[Maintenance] = "meta"
      /\ \A b \in Actors \ {Maintenance} : SameThread(b)
  BY <1>0, <1>1 DEF Goto, SameThread
<1>3. /\ artifact' \in [Runs -> {"present", "tampered", "absent"}]
      /\ artifact'[r] = "absent"
      /\ \A q \in Runs \ {r} : artifact'[q] = artifact[q]
  BY <1>0, <1>1 DEF RunTypeOK
<1>4. (\A q \in Runs \ {r} : SameRun(q)) /\ RunTypeOK'
  BY <1>0, <1>1, <1>3 DEF SameRun, RunTypeOK
<1>5. /\ PruningReadable(r) /\ ~ Interrupted(r)
      /\ intent[r] # 0 /\ pruning[r] = 0
  BY <1>0, <1>1 DEF PruneSound
<1>6. LatestProof(r)' = LatestProof(r)
  BY <1>0, <1>1, SameLatest
<1>7. Accounted(r)'
  BY <1>0, <1>5, <1>6 DEF Accounted, PruningReadable
<1>8. PruningReadable(r)' /\ ~ Interrupted(r)'
  BY <1>0, <1>5, <1>6 DEF PruningReadable, Interrupted
<1>9. PruneSound'
  BY <1>0, <1>1, <1>2, <1>3, <1>5, <1>8 DEF PruneSound
<1> QED
  BY <1>0, <1>1, <1>2, <1>4, <1>7, <1>9, OwnStep

LEMMA PruneMetadataKeeps ==
    ASSUME WorkInv, LeaseInv, PruneMetadata
    PROVE  WorkInv'
<1> PICK r : r = job[Maintenance].run
  OBVIOUS
<1>0. /\ pc[Maintenance] = "meta" /\ Goto(Maintenance, "clean")
      /\ pruning' = [pruning EXCEPT ![r] = intent[r]]
      /\ UNCHANGED <<attempts, artifact, intent, runLock, job, up,
                     db, index, pool>>
  BY DEF PruneMetadata, lockVars, repoVars
<1>1. /\ r \in Runs /\ runLock[r] = Maintenance /\ up = "up" /\ RunTypeOK
      /\ PruneSound /\ pc \in [Actors -> Places]
      /\ Maintenance \in Actors /\ Maintenance \notin Clients
  BY <1>0, PruneKnows
<1>2. /\ pc'[Maintenance] = "clean"
      /\ \A b \in Actors \ {Maintenance} : SameThread(b)
  BY <1>0, <1>1 DEF Goto, SameThread
<1>3. /\ pruning' \in [Runs -> 0..MaxAttempts] /\ pruning'[r] = intent[r]
      /\ \A q \in Runs \ {r} : pruning'[q] = pruning[q]
  BY <1>0, <1>1 DEF RunTypeOK
<1>4. (\A q \in Runs \ {r} : SameRun(q)) /\ RunTypeOK'
  BY <1>0, <1>1, <1>3 DEF SameRun, RunTypeOK
<1>5. /\ PruningReadable(r) /\ ~ Interrupted(r) /\ artifact[r] = "absent"
      /\ intent[r] # 0
  BY <1>0, <1>1 DEF PruneSound
<1>6. LatestProof(r)' = LatestProof(r)
  BY <1>0, <1>1, SameLatest
<1>7. Accounted(r)'
  BY <1>0, <1>3, <1>5, <1>6 DEF Accounted, PruningReadable
<1>8. PruningReadable(r)' /\ ~ Interrupted(r)'
  BY <1>0, <1>3, <1>5, <1>6 DEF PruningReadable, Interrupted
<1>9. PruneSound'
  BY <1>0, <1>1, <1>2, <1>3, <1>5, <1>8 DEF PruneSound
<1> QED
  BY <1>0, <1>1, <1>2, <1>4, <1>7, <1>9, OwnStep

(* Every step of _prune_locked.                                            *)
LEMMA PruneWorkKeeps ==
    ASSUME WorkInv, LeaseInv, RepoInv,
           \/ \E r \in Runs, enabled \in BOOLEAN : PruneBegin(r, enabled)
           \/ PruneStep \/ PruneFault
    PROVE  WorkInv'
<1> DEFINE Stays == UNCHANGED <<attempts, artifact, intent, pruning, up,
                                db, index, pool>>
<1>1. ASSUME pc[Maintenance] # "idle", PruneEnds, Stays  PROVE WorkInv'
  BY <1>1, PruneStops
<1>2. CASE PruneLease
  <2>1. pc[Maintenance] = "lease" /\ Stays
    BY <1>2 DEF PruneLease, runVars, repoVars
  <2>2. CASE Goto(Maintenance, "verify") /\ UNCHANGED <<runLock, job>>
    BY <2>1, <2>2, PruneMoves
  <2> QED
    BY <2>1, <2>2, <1>1, <1>2 DEF PruneLease, TakeLease
<1>3. CASE PruneVerify
  <2>1. pc[Maintenance] = "verify" /\ Stays
    BY <1>3 DEF PruneVerify, runVars, repoVars
  <2>2. CASE /\ Proves(job[Maintenance].run) /\ UNCHANGED <<runLock, job>>
             /\ Goto(Maintenance, IF intent[job[Maintenance].run] = 0
                                  THEN "intent" ELSE "check")
    <3>1. InRepository(job[Maintenance].run)
      BY <2>1, <2>2, PruneKnows, ProvenIsThere
    <3>2. CASE intent[job[Maintenance].run] = 0
      BY <2>1, <2>2, <3>1, <3>2, PruneMoves
    <3>3. CASE intent[job[Maintenance].run] # 0
      BY <2>1, <2>2, <3>1, <3>3, PruneMoves
    <3> QED
      BY <3>2, <3>3
  <2> QED
    BY <2>1, <2>2, <1>1, <1>3 DEF PruneVerify, lockVars
<1>4. CASE PruneCheck
  <2>1. pc[Maintenance] = "check" /\ Stays
    BY <1>4 DEF PruneCheck, runVars, repoVars
  <2>2. CASE Goto(Maintenance, "unlink") /\ UNCHANGED <<runLock, job>>
    <3>1. InRepository(job[Maintenance].run) /\ intent[job[Maintenance].run] # 0
      BY <2>1, PruneKnows DEF PruneSound
    <3> QED
      BY <2>1, <2>2, <3>1, PruneMoves
  <2> QED
    BY <2>1, <2>2, <1>1, <1>4 DEF PruneCheck, lockVars
<1>5. CASE PruneClean
  BY <1>5, PruneStops DEF PruneClean, repoVars
<1>6. CASE PruneFault
  <2>1. pc[Maintenance] # "idle" /\ PruneEnds /\ Stays
    BY <1>6 DEF PruneFault, runVars, repoVars
  <2> QED
    BY <2>1, <1>1
<1> QED
  BY <1>2, <1>3, <1>4, <1>5, <1>6, PruneBeginKeeps, PruneIntentKeeps,
     PruneUnlinkKeeps, PruneMetadataKeeps
  DEF PruneStep

-----------------------------------------------------------------------------
(* The other steps, and the invariants of the specification.               *)

LEMMA TamperKeeps ==
    ASSUME WorkInv, NEW r \in Runs, Tamper(r)
    PROVE  WorkInv'
<1>1. UNCHANGED <<attempts, intent, pruning, runLock, db, index, pool, up,
                  pc, job>>
  BY DEF Tamper, repoVars, lockVars
<1>2. /\ artifact' \in [Runs -> {"present", "tampered", "absent"}]
      /\ \A q \in Runs : artifact'[q] = "absent" <=> artifact[q] = "absent"
  BY DEF Tamper, WorkInv, RunTypeOK
<1>3. RunTypeOK'
  BY <1>1, <1>2 DEF WorkInv, RunTypeOK
<1>4. \A c \in Clients : JobSound(c)'
  BY <1>1, <1>2 DEF WorkInv, JobSound, Status, Last, InRepository
<1>5. \A q \in Runs : LatestProof(q)' = LatestProof(q)
  BY <1>1, SameLatest
<1>6. \A q \in Runs : Accounted(q)'
  BY <1>1, <1>2, <1>5 DEF WorkInv, Accounted
<1>7. PruneSound'
  <2>1. CASE pc[Maintenance] = "idle"
    BY <2>1, <1>1 DEF PruneSound
  <2>2. CASE pc[Maintenance] # "idle"
    <3>1. PICK q \in Runs : q = job[Maintenance].run
      BY <2>2 DEF WorkInv, PruneSound
    <3>2. /\ Interrupted(q)' <=> Interrupted(q)
          /\ PruningReadable(q)' <=> PruningReadable(q)
          /\ InRepository(q)' <=> InRepository(q)
      BY <1>1, <1>5 DEF Interrupted, PruningReadable, InRepository
    <3> QED
      BY <1>1, <1>2, <2>2, <3>1, <3>2 DEF WorkInv, PruneSound
  <2> QED
    BY <2>1, <2>2
<1> QED
  BY <1>1, <1>3, <1>4, <1>6, <1>7 DEF WorkInv

(* _recover_interrupted_publications and crashes: no thread is at work.    *)
LEMMA RecoverMakes ==
    ASSUME RunTypeOK, NEW r \in Runs, Recover(r)
    PROVE  /\ attempts' \in [Runs -> Seq(Statuses)]
           /\ \A q \in Runs :
                /\ Len(attempts'[q]) <= MaxAttempts
                /\ LatestProof(q)' = LatestProof(q)
                /\ \A i \in DOMAIN attempts[q] :
                     attempts'[q][i] = "success" => attempts[q][i] = "success"
<1>1. PICK t \in Seq(Statuses) :
        /\ t = Recovered(attempts[r])
        /\ Len(t) = Len(attempts[r]) /\ LatestOf(t) = LatestOf(attempts[r])
        /\ \A i \in DOMAIN attempts[r] :
             t[i] = "success" => attempts[r][i] = "success"
  BY RecoveredKeeps DEF RunTypeOK
<1>2. attempts' = [attempts EXCEPT ![r] = t]
  BY <1>1 DEF Recover, Recovered, RunTypeOK
<1>3. /\ attempts' \in [Runs -> Seq(Statuses)] /\ attempts'[r] = t
      /\ \A q \in Runs \ {r} : attempts'[q] = attempts[q]
  BY <1>2 DEF RunTypeOK
<1>4. ASSUME NEW q \in Runs
      PROVE  /\ Len(attempts'[q]) <= MaxAttempts
             /\ LatestProof(q)' = LatestProof(q)
             /\ \A i \in DOMAIN attempts[q] :
                  attempts'[q][i] = "success" => attempts[q][i] = "success"
  BY <1>1, <1>3, SameLatest, LatestProofOf DEF RunTypeOK
<1> QED
  BY <1>3, <1>4

LEMMA RestartKeeps ==
    ASSUME WorkInv, LeaseInv,
           Crash \/ Open \/ \E r \in Runs : Recover(r)
    PROVE  WorkInv'
<1> USE Threads
<1>1. \A a \in Actors : pc'[a] = "idle"
  BY DEF Crash, Open, Recover, WorkInv
<1>2. \A r \in Runs : LatestProof(r)' = LatestProof(r)
  BY SameLatest, RecoverMakes DEF Crash, Open, WorkInv, runVars
<1>3. RunTypeOK'
  BY RecoverMakes
  DEF Crash, Open, Recover, WorkInv, RunTypeOK, runVars, lockVars
<1>4. \A r \in Runs : Accounted(r)'
  BY <1>2 DEF Crash, Open, Recover, WorkInv, Accounted, runVars
<1>5. PruneSound' /\ \A c \in Clients : JobSound(c)'
  BY <1>1 DEF PruneSound, JobSound
<1> QED
  BY <1>1, <1>3, <1>4, <1>5 DEF WorkInv

LEMMA RemoverWorkKeeps ==
    ASSUME WorkInv, LeaseInv,
           RemoveCall \/ RemoveStep \/ RemoveAbandons \/ RemoveFault
    PROVE  WorkInv'
<1> USE Threads
<1>1. pc[Remover] # "idle" \/ up = "up"
  BY DEF RemoveCall, RemoveStep, RemoveIntent, RemoveLease, RemoveQuery,
     RemoveResult, RemoveMark, RemoveRestore, RemoveAbandons, RemoveFault
<1>2. up = "up"
  BY <1>1 DEF WorkInv, RunTypeOK
<1>3. UNCHANGED <<attempts, artifact, intent, pruning, runLock,
                  db, index, pool, up>>
  BY DEF RemoveCall, RemoveStep, RemoveIntent, RemoveLease, RemoveQuery,
     RemoveResult, RemoveMark, RemoveRestore, RemoveAbandons, RemoveFault,
     runVars, repoVars, lockVars
<1>4. /\ \E p : Goto(Remover, p)
      /\ UNCHANGED job \/ \E j : job' = [job EXCEPT ![Remover] = j]
  BY DEF RemoveCall, RemoveStep, RemoveIntent, RemoveLease, RemoveQuery,
     RemoveResult, RemoveMark, RemoveRestore, RemoveAbandons, RemoveFault,
     TakeLease, RemoveRecoveryRequired, RemoveEnds
<1>5. \A a \in Clients \cup {Maintenance} : SameThread(a)
  BY <1>4 DEF SameThread, Goto, LeaseInv, LeaseTypeOK
<1> QED
  BY <1>2, <1>3, <1>5, WorkStays

LEMMA WorkStep ==
    ASSUME LeaseInv, RepoInv, WorkInv, [Next]_vars
    PROVE  WorkInv'
<1>1. ASSUME NEW a \in Actors, ChildStep(a)  PROVE WorkInv'
  <2>1. Alive(a)
    BY <1>1 DEF ChildStep, ChildCopies, ChildRegisters, ChildExports,
       ChildSweeps, ChildFails, Alive, Working
  <2>2. UNCHANGED <<attempts, artifact, intent, pruning, runLock, up, pc, job>>
    BY <1>1 DEF ChildStep, ChildCopies, ChildRegisters, ChildExports,
       ChildSweeps, ChildFails, runVars, lockVars
  <2> QED
    BY <2>1, <2>2, WorkWhileChildRuns
<1>2. ASSUME UNCHANGED <<attempts, artifact, intent, pruning, runLock,
                         db, index, pool, up, pc, job>>
      PROVE  WorkInv'
  BY <1>2, WorkStays DEF SameThread
<1>3. ASSUME NEW r \in Runs,
             \/ ValidationStarts(r)
             \/ \E success \in BOOLEAN : ValidationEnds(r, success)
      PROVE  WorkInv'
  BY <1>2, <1>3
  DEF ValidationStarts, ValidationEnds, runVars, repoVars, lockVars
<1>4. CASE UNCHANGED vars
  BY <1>2, <1>4 DEF vars, runVars, repoVars, lockVars
<1> QED
  BY <1>1, <1>3, <1>4, ClientKeeps, PruneWorkKeeps, RemoverWorkKeeps,
     TamperKeeps, RestartKeeps
  DEF Next

LEMMA WorkInit == Init => WorkInv
<1> SUFFICES ASSUME Init  PROVE WorkInv
  OBVIOUS
<1>1. \A a \in Actors : pc[a] = "idle"
  BY DEF Init
<1>2. RunTypeOK
  <2>1. << >> \in Seq(Statuses) /\ Len(<< >>) = 0 /\ 0 \in 0..MaxAttempts
    BY EmptySeq, ConstantsAssumption
  <2> QED
    BY <2>1, ConstantsAssumption DEF Init, RunTypeOK
<1>3. \A r \in Runs : Accounted(r)
  BY DEF Init, Accounted
<1> QED
  BY <1>1, <1>2, <1>3, Threads DEF Init, WorkInv, JobSound, PruneSound

LEMMA InvariantsHold == Spec => [](LeaseInv /\ RepoInv /\ WorkInv)
<1>1. Init => RepoInv /\ WorkInv
  BY RepoInit, WorkInit
<1>2. LeaseInv /\ RepoInv /\ WorkInv /\ [Next]_vars => (RepoInv /\ WorkInv)'
  BY RepoStep, WorkStep
<1> QED
  BY <1>1, <1>2, LeaseInvHolds, PTL DEF Spec

-----------------------------------------------------------------------------
(* The theorems about the repository.                                      *)

(* What has no other invariant: the bounds and the history variable.       *)
BoundsInv == /\ removing \in BOOLEAN
             /\ faults \in 0..MaxFaults /\ crashes \in 0..MaxCrashes

LEMMA FailCounts ==
    ASSUME BoundsInv, NEW kind, Fail(kind)
    PROVE  faults' \in 0..MaxFaults
BY ConstantsAssumption DEF BoundsInv, Fail

LEMMA BoundsStep ==
    ASSUME BoundsInv, [Next]_vars
    PROVE  BoundsInv'
<1>1. CASE Crash
  BY <1>1, ConstantsAssumption DEF Crash, BoundsInv, pkgVars
<1>2. ASSUME UNCHANGED crashes, removing' \in {removing, TRUE, FALSE},
             UNCHANGED faults \/ \E kind : Fail(kind)
      PROVE  BoundsInv'
  BY <1>2, FailCounts DEF BoundsInv
<1>3. ASSUME NEW c \in Clients,
             \/ \E r \in Runs, kind \in {"publish", "reconcile"},
                  confirmed \in BOOLEAN : PublishCall(c, r, kind, confirmed)
             \/ PublishStep(c) \/ PublishAbandons(c) \/ PublishFault(c)
      PROVE  BoundsInv'
  BY <1>2, <1>3
  DEF PublishCall, PublishStep, PublishLease, PublishSource, PublishClassify,
      PublishResult, PublishProve, PublishFinish, PublishFail, PublishAbandons,
      PublishFault, boundVars, pkgVars
<1>4. CASE \/ \E r \in Runs, enabled \in BOOLEAN : PruneBegin(r, enabled)
           \/ PruneStep \/ PruneFault
  BY <1>2, <1>4
  DEF PruneBegin, PruneStep, PruneLease, PruneVerify, PruneIntent, PruneCheck,
      PruneUnlink, PruneMetadata, PruneClean, PruneFault, boundVars, pkgVars
<1>5. CASE RemoveCall \/ RemoveStep \/ RemoveAbandons \/ RemoveFault
  BY <1>2, <1>5
  DEF RemoveCall, RemoveStep, RemoveIntent, RemoveLease, RemoveQuery,
      RemoveResult, RemoveMark, RemoveRestore, RemoveAbandons, RemoveFault,
      boundVars, pkgVars
<1>6. ASSUME NEW a \in Actors, ChildStep(a)  PROVE BoundsInv'
  BY <1>2, <1>6
  DEF ChildStep, ChildCopies, ChildRegisters, ChildExports, ChildSweeps,
      ChildFails, boundVars, pkgVars
<1>7. ASSUME NEW r \in Runs,
             \/ ValidationStarts(r) \/ Tamper(r) \/ Recover(r)
             \/ \E success \in BOOLEAN : ValidationEnds(r, success)
      PROVE  BoundsInv'
  BY <1>2, <1>7
  DEF ValidationStarts, ValidationEnds, Tamper, Recover, boundVars, pkgVars
<1>8. CASE Open \/ UNCHANGED vars
  BY <1>2, <1>8 DEF Open, vars, boundVars, pkgVars
<1> QED
  BY <1>1, <1>3, <1>4, <1>5, <1>6, <1>7, <1>8 DEF Next

LEMMA BoundsHold == Spec => []BoundsInv
<1>1. Init => BoundsInv
  <2> SUFFICES ASSUME Init  PROVE BoundsInv
    OBVIOUS
  <2>1. removing = FALSE /\ faults = 0 /\ crashes = 0
    BY Zenon DEF Init
  <2>2. 0 \in 0..MaxFaults /\ 0 \in 0..MaxCrashes
    BY ConstantsAssumption
  <2> QED
    BY <2>1, <2>2, Zenon DEF BoundsInv
<1>2. BoundsInv /\ [Next]_vars => BoundsInv'
  BY BoundsStep
<1> QED
  BY <1>1, <1>2, PTL DEF Spec

(* publish_artifact: what the repository holds of a Run was validated, for *)
(* any number of Runs, architectures, clients, failures and crashes; and   *)
(* every variable keeps its type.                                          *)
THEOREM NothingUnvalidated == Spec => []StateIsSound
<1>1. ASSUME LeaseInv, RepoInv, WorkInv, BoundsInv, RemovalInv
      PROVE  StateIsSound
  <2>1. TypeOK
    BY <1>1
    DEF TypeOK, LeaseInv, LeaseTypeOK, Places, Children, Stages, Jobs, RepoInv,
        RepoTypeOK, Validations, WorkInv, RunTypeOK, Statuses, BoundsInv,
        RemovalInv, Markers
  <2>2. ASSUME NEW x \in Architectures, db[x].of \in Runs
        PROVE  validation[db[x].of].proven
    <3>1. db[x] # None /\ db[x] \in Files \cup {None}
      BY <1>1, <2>2, RunFacts DEF RepoInv, RepoTypeOK, None
    <3>2. LET v == VersionOf[db[x].of] IN
          v \in Versions /\ db[x] = pool[v] /\ pool[v] # None
      BY <1>1, <3>1, FileFacts DEF RepoInv, PoolSound
    <3> QED
      BY <1>1, <2>2, <3>2 DEF RepoInv, PoolSound
  <2> QED
    BY <2>1, <2>2 DEF StateIsSound, OnlyValidated
<1> QED
  BY <1>1, InvariantsHold, BoundsHold, RemovalInvHolds, PTL

(* _prune_locked: whenever a local artifact is missing, the record or an   *)
(* intent names the latest proof of its Run, so that the next pass can     *)
(* finish what a crash, a stop or an exception interrupted.                *)
THEOREM MissingIsAccounted == Spec => []AbsenceAccounted
<1>1. WorkInv => AbsenceAccounted
  BY DEF WorkInv, Accounted, AbsenceAccounted
<1> QED
  BY <1>1, InvariantsHold, PTL

(* The steps that record a success are those of a client past its proof.   *)
LEMMA SuccessStep ==
    ASSUME WorkInv, LeaseInv, [Next]_vars, NEW r \in Runs,
           NEW i \in DOMAIN attempts[r],
           attempts'[r][i] = "success", attempts[r][i] # "success"
    PROVE  InRepository(r)
<1>0. attempts \in [Runs -> Seq(Statuses)] /\ RunTypeOK
  BY DEF WorkInv, RunTypeOK
<1>1. ASSUME UNCHANGED attempts  PROVE FALSE
  BY <1>1
<1>2. ASSUME NEW c \in Clients, pc[c] \in {"finish", "failing"},
             NEW e \in Statuses, SetLast(job[c].run, e),
             e = "success" => pc[c] = "finish"
      PROVE  InRepository(r)
  <2>1. /\ job[c].run \in Runs /\ attempts[job[c].run] # << >> /\ JobSound(c)
    BY <1>2, ClientKnows
  <2>2. \A q \in Runs \ {job[c].run} : attempts'[q] = attempts[q]
    BY <1>0, <1>2, <2>1, SetLastMakes
  <2>3. r = job[c].run
    BY <2>2
  <2>4. e = "success"
    BY <1>0, <1>2, <2>1, <2>3, SetLastMakes
  <2> QED
    BY <1>2, <2>1, <2>3, <2>4 DEF JobSound
<1>3. ASSUME NEW c \in Clients, NEW q \in Runs,
             NEW kind \in {"publish", "reconcile"}, NEW confirmed \in BOOLEAN,
             PublishCall(c, q, kind, confirmed)
      PROVE  FALSE
  <2>1. attempts[q] \in Seq(Statuses)
        /\ attempts' = [attempts EXCEPT ![q] = Append(attempts[q], "running")]
    BY <1>0, <1>3 DEF PublishCall
  <2>2. PICK t : /\ attempts' = [attempts EXCEPT ![q] = t]
                 /\ \A j \in DOMAIN attempts[q] : t[j] = attempts[q][j]
    BY <2>1, Appended
  <2> QED
    BY <1>0, <2>2
<1>4. ASSUME NEW c \in Clients,
             PublishStep(c) \/ PublishAbandons(c) \/ PublishFault(c)
      PROVE  InRepository(r)
  <2>1. \/ UNCHANGED attempts
        \/ pc[c] = "finish" /\ SetLast(job[c].run, "success")
        \/ pc[c] = "failing" /\ SetLast(job[c].run, "failed")
    BY <1>4
    DEF PublishStep, PublishLease, PublishSource, PublishClassify,
        PublishResult, PublishProve, PublishFinish, PublishFail,
        PublishAbandons, PublishFault, runVars
  <2> QED
    BY <2>1, <1>1, <1>2 DEF Statuses
<1>5. ASSUME NEW q \in Runs, Recover(q)  PROVE FALSE
  BY <1>0, <1>5, RecoverMakes
<1>6. CASE \/ \E q \in Runs, enabled \in BOOLEAN : PruneBegin(q, enabled)
           \/ PruneStep \/ PruneFault
  BY <1>1, <1>6
  DEF PruneBegin, PruneStep, PruneLease, PruneVerify, PruneIntent, PruneCheck,
      PruneUnlink, PruneMetadata, PruneClean, PruneFault, runVars
<1>7. CASE RemoveCall \/ RemoveStep \/ RemoveAbandons \/ RemoveFault
  BY <1>1, <1>7
  DEF RemoveCall, RemoveStep, RemoveIntent, RemoveLease, RemoveQuery,
      RemoveResult, RemoveMark, RemoveRestore, RemoveAbandons, RemoveFault,
      runVars
<1>8. ASSUME NEW a \in Actors, ChildStep(a)  PROVE InRepository(r)
  BY <1>1, <1>8
  DEF ChildStep, ChildCopies, ChildRegisters, ChildExports, ChildSweeps,
      ChildFails, runVars
<1>9. ASSUME NEW q \in Runs,
             \/ ValidationStarts(q) \/ Tamper(q)
             \/ \E success \in BOOLEAN : ValidationEnds(q, success)
      PROVE  InRepository(r)
  BY <1>1, <1>9 DEF ValidationStarts, ValidationEnds, Tamper, runVars
<1>10. CASE Crash \/ Open \/ UNCHANGED vars
  BY <1>1, <1>10 DEF Crash, Open, vars, runVars
<1> QED
  BY <1>3, <1>4, <1>5, <1>6, <1>7, <1>8, <1>9, <1>10 DEF Next

(* publish_artifact, reconcile_publication: a success is recorded only     *)
(* while database, indexes and pool hold exactly the bytes of the Run.     *)
THEOREM RecordedIsProven == Spec => SuccessIsProven
<1>1. ASSUME WorkInv, LeaseInv, [Next]_vars
      PROVE  \A r \in Runs :
               (\E i \in DOMAIN attempts[r] : /\ attempts'[r][i] = "success"
                                              /\ attempts[r][i] # "success")
               => InRepository(r)
  BY <1>1, SuccessStep
<1> QED
  BY <1>1, InvariantsHold, PTL DEF Spec, SuccessIsProven

(* A local file disappears in one step of the program only.                *)
LEMMA CopyStep ==
    ASSUME WorkInv, LeaseInv, [Next]_vars, NEW r \in Runs,
           artifact[r] # "absent", artifact'[r] = "absent"
    PROVE  InRepository(r) /\ ~ Interrupted(r)
<1>0. artifact \in [Runs -> {"present", "tampered", "absent"}]
  BY DEF WorkInv, RunTypeOK
<1>1. ASSUME UNCHANGED artifact  PROVE FALSE
  BY <1>1
<1>2. CASE PruneUnlink
  <2>1. /\ pc[Maintenance] = "unlink" /\ job[Maintenance].run = r
    BY <1>0, <1>2 DEF PruneUnlink
  <2> QED
    BY <2>1 DEF WorkInv, PruneSound
<1>3. ASSUME NEW q \in Runs, Tamper(q)  PROVE FALSE
  BY <1>0, <1>3 DEF Tamper
<1>4. ASSUME NEW c \in Clients,
             \/ \E q \in Runs, kind \in {"publish", "reconcile"},
                  confirmed \in BOOLEAN : PublishCall(c, q, kind, confirmed)
             \/ PublishStep(c) \/ PublishAbandons(c) \/ PublishFault(c)
      PROVE  FALSE
  BY <1>1, <1>4
  DEF PublishCall, PublishStep, PublishLease, PublishSource, PublishClassify,
      PublishResult, PublishProve, PublishFinish, PublishFail, PublishAbandons,
      PublishFault, runVars
<1>5. CASE \/ \E q \in Runs, enabled \in BOOLEAN : PruneBegin(q, enabled)
           \/ (PruneStep /\ ~ PruneUnlink) \/ PruneFault
  BY <1>1, <1>5
  DEF PruneBegin, PruneStep, PruneLease, PruneVerify, PruneIntent, PruneCheck,
      PruneMetadata, PruneClean, PruneFault, runVars
<1>6. CASE RemoveCall \/ RemoveStep \/ RemoveAbandons \/ RemoveFault
  BY <1>1, <1>6
  DEF RemoveCall, RemoveStep, RemoveIntent, RemoveLease, RemoveQuery,
      RemoveResult, RemoveMark, RemoveRestore, RemoveAbandons, RemoveFault,
      runVars
<1>7. ASSUME NEW a \in Actors, ChildStep(a)  PROVE FALSE
  BY <1>1, <1>7
  DEF ChildStep, ChildCopies, ChildRegisters, ChildExports, ChildSweeps,
      ChildFails, runVars
<1>8. ASSUME NEW q \in Runs,
             \/ ValidationStarts(q) \/ Recover(q)
             \/ \E success \in BOOLEAN : ValidationEnds(q, success)
      PROVE  FALSE
  BY <1>1, <1>8 DEF ValidationStarts, ValidationEnds, Recover, runVars
<1>9. CASE Crash \/ Open \/ UNCHANGED vars
  BY <1>1, <1>9 DEF Crash, Open, vars, runVars
<1> QED
  BY <1>2, <1>3, <1>4, <1>5, <1>6, <1>7, <1>8, <1>9 DEF Next

(* _prune_locked: the last local copy is unlinked only while the           *)
(* repository holds exactly its bytes, although that was verified steps    *)
(* before, and while no publication of the Run is open.                    *)
THEOREM UnlinkedIsKept == Spec => LastCopyKept
<1>1. ASSUME WorkInv, LeaseInv, [Next]_vars
      PROVE  \A r \in Runs : (artifact[r] # "absent" /\ artifact'[r] = "absent")
                             => InRepository(r) /\ ~ Interrupted(r)
  BY <1>1, CopyStep
<1> QED
  BY <1>1, InvariantsHold, PTL DEF Spec, LastCopyKept

(* The database changes in one step of reprepro only.                      *)
LEMMA DowngradeStep ==
    ASSUME RepoInv, LeaseInv, [Next]_vars, NEW x \in Architectures,
           db'[x].of # Nobody
    PROVE  ~ Newer(db[x], VersionOf[db'[x].of])
<1>1. ASSUME UNCHANGED db  PROVE ~ Newer(db[x], VersionOf[db'[x].of])
  <2>1. db[x] \in Files \cup {None} /\ db'[x] = db[x]
    BY <1>1 DEF RepoInv, RepoTypeOK
  <2>2. VersionOf[db[x].of] \in Nat
    BY <2>1, FileFacts DEF None
  <2> QED
    BY <2>1, <2>2 DEF Newer
<1>2. ASSUME NEW a \in Actors, NEW y \in Architectures, ChildRegisters(a, y)
      PROVE  ~ Newer(db[x], VersionOf[db'[x].of])
  BY <1>2, RegistersKeeps
<1>3. ASSUME NEW a \in Actors, ChildStep(a)
      PROVE  ~ Newer(db[x], VersionOf[db'[x].of])
  BY <1>1, <1>2, <1>3
  DEF ChildStep, ChildCopies, ChildExports, ChildSweeps, ChildFails, repoVars
<1>4. ASSUME NEW c \in Clients,
             \/ \E q \in Runs, kind \in {"publish", "reconcile"},
                  confirmed \in BOOLEAN : PublishCall(c, q, kind, confirmed)
             \/ PublishStep(c) \/ PublishAbandons(c) \/ PublishFault(c)
      PROVE  UNCHANGED db
  BY <1>4
  DEF PublishCall, PublishStep, PublishLease, PublishSource, PublishClassify,
      PublishResult, PublishProve, PublishFinish, PublishFail, PublishAbandons,
      PublishFault, repoVars
<1>5. CASE \/ \E q \in Runs, enabled \in BOOLEAN : PruneBegin(q, enabled)
           \/ PruneStep \/ PruneFault
  BY <1>1, <1>5
  DEF PruneBegin, PruneStep, PruneLease, PruneVerify, PruneIntent, PruneCheck,
      PruneUnlink, PruneMetadata, PruneClean, PruneFault, repoVars
<1>6. CASE RemoveCall \/ RemoveStep \/ RemoveAbandons \/ RemoveFault
  BY <1>1, <1>6
  DEF RemoveCall, RemoveStep, RemoveIntent, RemoveLease, RemoveQuery,
      RemoveResult, RemoveMark, RemoveRestore, RemoveAbandons, RemoveFault,
      repoVars
<1>7. ASSUME NEW q \in Runs,
             \/ ValidationStarts(q) \/ Tamper(q) \/ Recover(q)
             \/ \E success \in BOOLEAN : ValidationEnds(q, success)
      PROVE  UNCHANGED db
  BY <1>7 DEF ValidationStarts, ValidationEnds, Tamper, Recover, repoVars
<1>8. CASE Crash \/ Open \/ UNCHANGED vars
  BY <1>1, <1>8 DEF Crash, Open, vars, repoVars
<1> QED
  BY <1>1, <1>3, <1>4, <1>5, <1>6, <1>7, <1>8 DEF Next

(* publish_artifact: no architecture ever gets an older version in place   *)
(* of a newer one, although versions were compared before reprepro was     *)
(* started and an orphan may work on after its parent died.                *)
THEOREM NeverDowngraded == Spec => NoDowngrade
<1>1. ASSUME RepoInv, LeaseInv, [Next]_vars
      PROVE  \A x \in Architectures :
               db'[x].of # Nobody => ~ Newer(db[x], VersionOf[db'[x].of])
  BY <1>1, DowngradeStep
<1> QED
  BY <1>1, InvariantsHold, PTL DEF Spec, NoDowngrade
=============================================================================
