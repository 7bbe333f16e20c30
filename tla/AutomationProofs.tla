-------------------------- MODULE AutomationProofs --------------------------
(***************************************************************************)
(* Proofs about Automation, for any threads, documents, identities,        *)
(* policies, faults, crashes, edits, retries and bounds of the ledger.     *)
(***************************************************************************)
EXTENDS Automation, TLAPS, FiniteSetTheorems

-----------------------------------------------------------------------------
(* The inductive invariant, in named parts.                                *)

Live(row) == row.state \notin Stopped
Mode(doc) == IF PolicyOf[doc] = "test" THEN "dry_run" ELSE "build"

(* A check was made for a document that asks for automation.               *)
ProbeOK == probe # NoProbe => Eligible(probe.doc)

(* A row is one the ledger accepts; detection alone ends as it is claimed, *)
(* and nothing happens to a claim before its Run id is reserved.           *)
Plain(row) ==
    /\ PolicyOf[row.doc] = "detect" => row.cls = "success"
    /\ row.pre = 0 /\ Live(row) => row.state = "claimed"

Sane(row) == row \in GenerationType /\ ValidGeneration(row) /\ Plain(row)

(* What row k names among the Runs rs was made for it.  From the stage     *)
(* "validation" on, it names the newest attempt.                           *)
RowFits(k, row, rs) ==
    /\ row.pre # 0 =>
          /\ row.pre \in DOMAIN rs
          /\ rs[row.pre].row = k /\ rs[row.pre].doc = row.doc
          /\ rs[row.pre].id = row.id /\ rs[row.pre].mode = Mode(row.doc)
    /\ row.run # 0 =>
          /\ rs[row.run].status \notin {"absent", "partial"}
          /\ row.val \in 0..Len(rs[row.run].vals)
          /\ row.pub \in 0..Len(rs[row.run].pubs)
          /\ row.stage \in {"validation", "publication"} =>
                row.val = Len(rs[row.run].vals)

RowsOK == \A k \in DOMAIN rows : Sane(rows[k]) /\ RowFits(k, rows[k], runs)

(* A Run id is reserved for a row when every older row has stopped.        *)
TurnsOK ==
    \A j, k \in DOMAIN rows :
        j < k /\ rows[k].pre # 0 => rows[j].state \in Stopped

GensOK ==
    /\ Len(rows) <= MaxRows
    /\ \A k \in DOMAIN rows :
          LET same == {j \in RowsOf(Key(rows[k])) : j < k}
          IN  rows[k].gen = Cardinality(same)
    /\ \A k \in DOMAIN rows : rows[k].gen < MaxGenerations

(* A Run of Automation is the one its row reserved, its attempts are that  *)
(* row's, and a directory without run.json is being written now, or was    *)
(* left by a process that died.                                            *)
Committing(k) == \E t \in Threads : adv[t].pc = "commit" /\ adv[t].row = k

RunsOK ==
    \A n \in DOMAIN runs :
        /\ runs[n].row # 0 => /\ runs[n].row \in DOMAIN rows
                              /\ rows[runs[n].row].pre = n
        /\ \A v \in DOMAIN runs[n].vals : runs[n].vals[v].row = runs[n].row
        /\ runs[n].status = "partial" =>
              phase \in {"down", "blocked"} \/ Committing(runs[n].row)

(* What a thread knows of its row and of its Run at each step.             *)
Admitting == {"authorize", "reserve", "recheck", "create", "commit", "link",
              "submit", "linked"}
Opened == {"reserve", "recheck", "create", "commit", "link", "submit", "linked",
           "vcall", "vlink", "pubcall", "publink"}

PcFits(a, row, rs) ==
    /\ a.pc = "notify" <=> row.state \in Stopped
    /\ a.pc \in Admitting => row.run = 0 \/ row.stage = "run"
    /\ a.pc \in Admitting \ {"authorize", "reserve"} => row.pre # 0
    /\ a.pc \in {"submit", "linked", "run", "vadmit"} => row.run # 0
    /\ a.pc = "commit" => rs[row.pre].status = "partial"
    /\ a.pc = "link" => rs[row.pre].status \notin {"absent", "partial"}
    /\ a.pc = "run" => row.stage = "run"
    /\ a.pc = "vadmit" =>
          row.stage \in {"run", "validation_admission", "validation"}
    /\ a.pc \in {"vcall", "vlink"} => row.stage = "validation_admission"
    /\ a.pc = "vlink" => a.out # 0 /\ a.out = Len(rs[row.run].vals)
    /\ a.pc \in {"validation", "publish"} =>
          row.stage \in {"validation", "publication"}
    /\ a.pc \in {"pubcall", "publink"} => row.stage = "publication"
    /\ a.pc = "publink" => a.out \in DOMAIN rs[row.run].pubs
    /\ a.pc = "finish" => a.cls \in Verdicts
    /\ a.existing => row.run # 0

(* At most one thread works on a row, and only on the oldest row that has  *)
(* not stopped; nobody works in a process that is down, and a blocked one  *)
(* admits nothing.                                                         *)
OldestLive(k) == \A j \in DOMAIN rows : j < k => rows[j].state \in Stopped

ThreadFits(t) ==
    /\ adv[t].pc = "idle" <=> adv[t].row = 0
    /\ adv[t].row # 0 =>
          /\ adv[t].row \in DOMAIN rows
          /\ PcFits(adv[t], rows[adv[t].row], runs)
          /\ adv[t].pc # "notify" => OldestLive(adv[t].row)
    /\ phase = "down" => adv[t].pc = "idle"
    /\ phase = "blocked" => adv[t].pc \notin Opened

LocksOK ==
    \A t, u \in Threads : adv[t].row = adv[u].row => t = u \/ adv[t].row = 0

ThreadsOK == (\A t \in Threads : ThreadFits(t)) /\ LocksOK

(* A Run may still be admitted, or is under way or successful.  That a Run *)
(* not yet admitted counts is what OneRunPerIdentity does not say.         *)
Under(n) == runs[n].status \in LiveRun \/ Live(rows[runs[n].row])

OneUnderWay ==
    \A m, n \in DOMAIN runs :
        /\ m < n
        /\ runs[m].row # 0 /\ runs[n].row # 0 /\ runs[m].id = runs[n].id
        /\ Under(m) /\ Under(n)
        => runs[m].mode = "dry_run" /\ runs[n].mode = "build"

IInv == /\ TypeOK /\ ProbeOK /\ RowsOK /\ TurnsOK /\ GensOK /\ RunsOK
        /\ ThreadsOK /\ OneUnderWay

-----------------------------------------------------------------------------
(* What each method of the ledger makes of a row.                          *)

(* The identity of a row never changes, and its Run only once.             *)
Moved(old, new) ==
    /\ new.id = old.id /\ new.doc = old.doc /\ new.gen = old.gen
    /\ old.pre # 0 => new.pre = old.pre
    /\ old.run # 0 => new.run = old.run

SameLinks(old, new) ==
    /\ new.pre = old.pre /\ new.run = old.run
    /\ new.val = old.val /\ new.pub = old.pub

LEMMA PreallocateFits ==
    ASSUME NEW row, NEW c \in Nat \ {0}, Sane(row), Live(row), row.pre = 0
    PROVE  LET new == PreallocateRun(row, c)
           IN  /\ Sane(new) /\ Moved(row, new) /\ Live(new)
               /\ new.pre = c /\ new.run = 0
<1> DEFINE new == PreallocateRun(row, c)
<1>0. row \in GenerationType /\ ValidGeneration(row) /\ Plain(row)
  BY DEF Sane
<1>1. row.run = 0 /\ row.val = 0 /\ row.pub = 0 /\ row.state = "claimed"
      /\ row.cls = "none" /\ PolicyOf[row.doc] # "detect" /\ ~ row.notified
  BY <1>0 DEF ValidGeneration, GenerationType, Stages, Plain, Live, Stopped
<1>2. new = [row EXCEPT !.pre = c, !.state = "run_preallocated",
                        !.stage = "run_admission"]
  BY DEF PreallocateRun
<1>3. new \in GenerationType
  BY <1>0, <1>2 DEF GenerationType, States, Stages
<1>4. /\ new.pre = c /\ new.run = 0 /\ new.val = 0 /\ new.pub = 0
      /\ new.state = "run_preallocated" /\ new.stage = "run_admission"
      /\ new.cls = "none" /\ new.doc = row.doc /\ new.id = row.id
      /\ new.gen = row.gen /\ ~ new.notified
  BY <1>0, <1>1, <1>2 DEF GenerationType
<1>5. ValidGeneration(new) /\ Plain(new)
  BY <1>0, <1>1, <1>4 DEF ValidGeneration, Plain, Stopped, Live
<1> QED
  BY <1>1, <1>3, <1>4, <1>5 DEF Sane, Moved, Live, Stopped

LEMMA LinkFits ==
    ASSUME NEW row, Sane(row), Live(row), row.pre # 0
    PROVE  LET new == LinkRun(row)
           IN  /\ Sane(new) /\ Moved(row, new) /\ Live(new)
               /\ new.pre = row.pre /\ new.run = row.pre
               /\ row.run = 0 => /\ new.stage = "run"
                                 /\ new.val = 0 /\ new.pub = 0
               /\ row.run # 0 => new = row
<1> DEFINE new == LinkRun(row)
<1>0. row \in GenerationType /\ ValidGeneration(row) /\ Plain(row)
  BY DEF Sane
<1>1. CASE row.run # 0
  <2>1. new = row /\ row.run = row.pre
    BY <1>0, <1>1 DEF LinkRun, ValidGeneration
  <2> QED
    BY <2>1, <1>1 DEF Sane, Moved
<1>2. CASE row.run = 0
  <2>1. /\ row.val = 0 /\ row.pub = 0 /\ PolicyOf[row.doc] # "detect"
        /\ ~ row.notified
    BY <1>0, <1>2 DEF ValidGeneration, GenerationType, Stages, Plain, Live, Stopped
  <2>2. new = [row EXCEPT !.run = row.pre, !.state = "admitted",
                          !.stage = "run", !.cls = "none", !.code = "none"]
    BY <1>2 DEF LinkRun
  <2>3. new \in GenerationType
    BY <1>0, <2>2 DEF GenerationType, States, Stages, Codes
  <2>4. /\ new.pre = row.pre /\ new.run = row.pre /\ new.val = 0 /\ new.pub = 0
        /\ new.state = "admitted" /\ new.stage = "run"
        /\ new.cls = "none" /\ new.doc = row.doc /\ new.id = row.id
        /\ new.gen = row.gen /\ ~ new.notified
    BY <1>0, <2>1, <2>2 DEF GenerationType
  <2>5. ValidGeneration(new) /\ Plain(new)
    BY <1>0, <2>1, <2>4 DEF ValidGeneration, Plain, Stopped, Live
  <2> QED
    BY <1>2, <2>3, <2>4, <2>5 DEF Sane, Moved, Live, Stopped
<1> QED
  BY <1>1, <1>2

LEMMA FinishFits ==
    ASSUME NEW row, NEW cls \in Verdicts, NEW code \in Codes, Sane(row),
           Live(row), PolicyOf[row.doc] = "detect" => cls = "success"
    PROVE  LET new == LedgerFinish(row, cls, code)
           IN  /\ Sane(new) /\ Moved(row, new) /\ SameLinks(row, new)
               /\ ~ Live(new) /\ new.stage = "terminal"
<1> DEFINE new == LedgerFinish(row, cls, code)
           st == IF cls = "blocked_manual" THEN "blocked" ELSE "terminal"
<1>0. row \in GenerationType /\ ValidGeneration(row) /\ Plain(row)
  BY DEF Sane
<1>2. new = [row EXCEPT !.state = st, !.cls = cls, !.code = code,
                        !.stage = "terminal"]
  BY DEF LedgerFinish, Verdicts, Stopped
<1>3. new \in GenerationType
  BY <1>0, <1>2 DEF GenerationType, States, Stages, Stopped
<1>4. /\ SameLinks(row, new) /\ new.state = st /\ new.stage = "terminal"
      /\ new.cls = cls /\ new.doc = row.doc /\ new.id = row.id
      /\ new.gen = row.gen /\ new.notified = row.notified
  BY <1>0, <1>2 DEF GenerationType, SameLinks
<1>5. ValidGeneration(new) /\ Plain(new)
  BY <1>0, <1>4 DEF ValidGeneration, Plain, Stopped, Live, Verdicts, SameLinks
<1> QED
  BY <1>3, <1>4, <1>5 DEF Sane, Moved, Live, Stopped, SameLinks

LEMMA RetryFits ==
    ASSUME NEW row, Sane(row), Live(row), row.pre # 0
    PROVE  LET new == ScheduleRetry(row)
           IN  /\ Sane(new) /\ Moved(row, new) /\ SameLinks(row, new)
               /\ Live(new) /\ new.stage = row.stage
<1> DEFINE new == ScheduleRetry(row)
           d == [row EXCEPT !.state = "retry_delayed",
                            !.cls = "transient_retryable", !.code = "none"]
<1>0. row \in GenerationType /\ ValidGeneration(row) /\ Plain(row)
  BY DEF Sane
<1>1. PolicyOf[row.doc] # "detect" /\ ~ row.notified /\ row.stage # "terminal"
  BY <1>0 DEF ValidGeneration, GenerationType, Plain, Live, Stopped
<1>2. d \in GenerationType /\ LedgerFinish(row, "transient_retryable", "none") = d
  BY <1>0 DEF GenerationType, States, Codes, LedgerFinish, Stopped
<1>3. /\ d.stage = row.stage /\ SameLinks(row, d) /\ d.state = "retry_delayed"
      /\ d.cls = "transient_retryable" /\ d.doc = row.doc /\ d.id = row.id
      /\ d.gen = row.gen /\ ~ d.notified
  BY <1>0, <1>1 DEF GenerationType, SameLinks
<1>4. \E v, p \in Nat : new = [d EXCEPT !.vretry = v, !.pretry = p]
  <2> DEFINE v == IF row.stage \in {"validation_admission", "validation"}
                  THEN d.vretry + 1 ELSE d.vretry
             p == IF row.stage = "publication" THEN d.pretry + 1 ELSE d.pretry
  <2>1. new = [d EXCEPT !.vretry = v, !.pretry = p]
    BY <1>2 DEF ScheduleRetry, GenerationType
  <2>2. v \in Nat /\ p \in Nat
    <3>1. d.vretry \in Nat /\ d.pretry \in Nat
      BY <1>2 DEF GenerationType
    <3> HIDE DEF d
    <3> QED
      BY <3>1
  <2> QED
    BY <2>1, <2>2
<1>5. PICK v, p \in Nat : new = [d EXCEPT !.vretry = v, !.pretry = p]
  BY <1>4
<1>6. new \in GenerationType
  BY <1>2, <1>5 DEF GenerationType
<1>7. /\ new.stage = row.stage /\ SameLinks(row, new)
      /\ new.state = "retry_delayed"
      /\ new.cls = "transient_retryable" /\ new.doc = row.doc
      /\ new.id = row.id /\ new.gen = row.gen /\ ~ new.notified
  <2> HIDE DEF d
  <2> QED
    BY <1>2, <1>3, <1>5 DEF GenerationType, SameLinks
<1>8. ValidGeneration(new) /\ Plain(new)
  BY <1>0, <1>1, <1>7 DEF ValidGeneration, Plain, Stopped, Live, SameLinks
<1> QED
  BY <1>6, <1>7, <1>8 DEF Sane, Moved, Live, Stopped, SameLinks

LEMMA AdvanceFits ==
    ASSUME NEW row, NEW stage, NEW v \in Nat, NEW p \in Nat,
           Sane(row), Live(row), row.run # 0,
           \/ /\ stage = "run" /\ v = 0 /\ p = 0
              /\ row.val = 0 /\ row.pub = 0
           \/ /\ stage = "validation_admission" /\ p = 0 /\ row.pub = 0
           \/ /\ stage = "validation" /\ v # 0 /\ p = 0 /\ row.pub = 0
           \/ /\ stage = "publication" /\ v = 0 /\ row.val # 0
    PROVE  LET new == AdvanceLifecycle(row, stage, v, p)
           IN  /\ Sane(new) /\ Moved(row, new) /\ Live(new)
               /\ new.stage = stage /\ new.pre = row.pre /\ new.run = row.run
               /\ new.val = IF v # 0 THEN v ELSE row.val
               /\ new.pub = IF p # 0 THEN p ELSE row.pub
<1> DEFINE new == AdvanceLifecycle(row, stage, v, p)
<1>0. row \in GenerationType /\ ValidGeneration(row) /\ Plain(row)
  BY DEF Sane
<1>1. PolicyOf[row.doc] # "detect" /\ ~ row.notified /\ row.stage # "terminal"
      /\ row.pre = row.run /\ row.pre # 0
  BY <1>0 DEF ValidGeneration, GenerationType, Plain, Live, Stopped
<1>2. new = [row EXCEPT !.state = "admitted", !.stage = stage, !.cls = "none",
                        !.code = "none",
                        !.val = IF v # 0 THEN v ELSE row.val,
                        !.pub = IF p # 0 THEN p ELSE row.pub]
  BY <1>0 DEF AdvanceLifecycle, Live, GenerationType
<1>3. new \in GenerationType
  BY <1>0, <1>2 DEF GenerationType, States, Stages, Codes
<1>4. /\ new.pre = row.pre /\ new.run = row.run
      /\ new.val = (IF v # 0 THEN v ELSE row.val)
      /\ new.pub = (IF p # 0 THEN p ELSE row.pub)
      /\ new.state = "admitted" /\ new.stage = stage
      /\ new.cls = "none" /\ new.doc = row.doc /\ new.id = row.id
      /\ new.gen = row.gen /\ ~ new.notified
  BY <1>0, <1>1, <1>2 DEF GenerationType
<1>5. ValidGeneration(new) /\ Plain(new)
  BY <1>0, <1>1, <1>4 DEF ValidGeneration, Plain, Stopped, Live
<1> QED
  BY <1>3, <1>4, <1>5 DEF Sane, Moved, Live, Stopped

LEMMA NotifyFits ==
    ASSUME NEW row, Sane(row), ~ Live(row)
    PROVE  LET new == MarkNotified(row)
           IN  /\ Sane(new) /\ Moved(row, new) /\ SameLinks(row, new)
               /\ new.state = row.state /\ new.stage = row.stage
<1> DEFINE new == MarkNotified(row)
<1>0. row \in GenerationType /\ ValidGeneration(row) /\ Plain(row)
  BY DEF Sane
<1>1. new = [row EXCEPT !.notified = TRUE]
  BY DEF MarkNotified
<1>2. new \in GenerationType
  BY <1>0, <1>1 DEF GenerationType
<1>3. /\ SameLinks(row, new) /\ new.state = row.state /\ new.stage = row.stage
      /\ new.cls = row.cls /\ new.doc = row.doc /\ new.id = row.id
      /\ new.gen = row.gen
  BY <1>0, <1>1 DEF GenerationType, SameLinks
<1>4. ValidGeneration(new) /\ Plain(new)
  BY <1>0, <1>3 DEF ValidGeneration, Plain, Stopped, Live, SameLinks
<1> QED
  BY <1>2, <1>3, <1>4 DEF Sane, Moved, SameLinks

-----------------------------------------------------------------------------
(* How the state may change around the threads.                            *)

(* The identity and the generation of a row are never changed.             *)
LEMMA GensKept ==
    ASSUME TypeOK, GensOK, rows' \in Seq(GenerationType),
           DOMAIN rows' = DOMAIN rows, Len(rows') = Len(rows),
           \A k \in DOMAIN rows : /\ rows'[k].id = rows[k].id
                                  /\ rows'[k].doc = rows[k].doc
                                  /\ rows'[k].gen = rows[k].gen
    PROVE  GensOK'
<1>1. \A k \in DOMAIN rows : Key(rows'[k]) = Key(rows[k])
  BY DEF Key
<1>2. \A k \in DOMAIN rows : RowsOf(Key(rows[k]))' = RowsOf(Key(rows[k]))
  BY <1>1 DEF RowsOf
<1>3. \A k \in DOMAIN rows :
         {j \in RowsOf(Key(rows[k])) : j < k}'
            = {j \in RowsOf(Key(rows[k])) : j < k}
  BY <1>2
<1> QED
  BY <1>3 DEF GensOK

(* Runs and attempts proceed, or are ended by a restart.                   *)
Ticked ==
    /\ runs' \in Seq(RunType) /\ DOMAIN runs' = DOMAIN runs
    /\ \A n \in DOMAIN runs :
          /\ runs'[n].row = runs[n].row /\ runs'[n].id = runs[n].id
          /\ runs'[n].doc = runs[n].doc /\ runs'[n].mode = runs[n].mode
          /\ Len(runs'[n].vals) = Len(runs[n].vals)
          /\ runs'[n].pubs = runs[n].pubs
          /\ \A v \in DOMAIN runs'[n].vals :
                runs'[n].vals[v].row = runs[n].vals[v].row
          /\ \/ runs'[n].status = runs[n].status
             \/ /\ runs'[n].status \notin {"absent", "partial"}
                /\ runs[n].status \in LiveRun

Chain == RowsOK /\ TurnsOK /\ GensOK /\ RunsOK /\ ThreadsOK /\ OneUnderWay

LEMMA SeqDomain ==
    ASSUME NEW S, NEW s \in Seq(S)
    PROVE  /\ DOMAIN s = 1..Len(s) /\ Len(s) \in Nat
           /\ \A i \in DOMAIN s : s[i] \in S
OBVIOUS

LEMMA TickedFits ==
    ASSUME TypeOK, Ticked, NEW k, NEW row \in GenerationType,
           RowFits(k, row, runs), ValidGeneration(row)
    PROVE  RowFits(k, row, runs')
<1>1. row.run # 0 => row.run \in DOMAIN runs
  BY DEF RowFits, ValidGeneration
<1>2. row.run # 0 =>
         /\ Len(runs'[row.run].vals) = Len(runs[row.run].vals)
         /\ runs'[row.run].pubs = runs[row.run].pubs
         /\ runs'[row.run].status \notin {"absent", "partial"}
  BY <1>1 DEF Ticked, RowFits
<1>3. row.pre # 0 =>
          /\ row.pre \in DOMAIN runs'
          /\ runs'[row.pre].row = k /\ runs'[row.pre].doc = row.doc
          /\ runs'[row.pre].id = row.id /\ runs'[row.pre].mode = Mode(row.doc)
  BY DEF Ticked, RowFits
<1> QED
  BY <1>2, <1>3 DEF RowFits

LEMMA TickedPc ==
    ASSUME TypeOK, Ticked, NEW k, NEW a, NEW row \in GenerationType,
           RowFits(k, row, runs), ValidGeneration(row), PcFits(a, row, runs)
    PROVE  PcFits(a, row, runs')
<1>1. row.run # 0 => row.run \in DOMAIN runs
  BY DEF RowFits, ValidGeneration
<1>2. row.run # 0 =>
         /\ Len(runs'[row.run].vals) = Len(runs[row.run].vals)
         /\ runs'[row.run].pubs = runs[row.run].pubs
  BY <1>1 DEF Ticked, RowFits
<1>3. row.pre # 0 =>
          \/ runs'[row.pre].status = runs[row.pre].status
          \/ /\ runs'[row.pre].status \notin {"absent", "partial"}
             /\ runs[row.pre].status \in LiveRun
  BY DEF Ticked, RowFits
<1>4. a.pc \in {"commit", "link"} => row.pre # 0
  BY DEF PcFits, Admitting
<1>5. a.pc \in {"vlink", "publink"} => row.run # 0
  BY DEF PcFits, ValidGeneration
<1>6. /\ a.pc = "commit" => runs'[row.pre].status = "partial"
      /\ a.pc = "link" => runs'[row.pre].status \notin {"absent", "partial"}
  BY <1>3, <1>4 DEF PcFits, LiveRun
<1> QED
  BY <1>2, <1>5, <1>6 DEF PcFits

LEMMA Ticks ==
    ASSUME IInv, Ticked, UNCHANGED <<rows, adv>>,
           \/ phase' = phase
           \/ phase = "up" /\ phase' = "closing"
           \/ phase = "down" /\ phase' = "blocked"
           \/ /\ phase = "down" /\ phase' = "up"
              /\ \A n \in DOMAIN runs : runs[n].status # "partial"
    PROVE  Chain'
<1>0. TypeOK /\ RowsOK /\ TurnsOK /\ GensOK /\ RunsOK /\ ThreadsOK /\ OneUnderWay
  BY DEF IInv
<1>t. \A k \in DOMAIN rows : rows[k] \in GenerationType
  BY <1>0, SeqDomain DEF TypeOK
<1>1. RowsOK'
  BY <1>0, <1>t, TickedFits DEF RowsOK, Sane
<1>2. TurnsOK'
  BY <1>0 DEF TurnsOK
<1>3. GensOK'
  BY <1>0, GensKept DEF TypeOK
<1>4. RunsOK'
  <2> SUFFICES ASSUME NEW n \in DOMAIN runs
               PROVE  /\ runs'[n].row # 0 => /\ runs'[n].row \in DOMAIN rows
                                             /\ rows[runs'[n].row].pre = n
                      /\ \A v \in DOMAIN runs'[n].vals :
                            runs'[n].vals[v].row = runs'[n].row
                      /\ runs'[n].status = "partial" =>
                            \/ phase' \in {"down", "blocked"}
                            \/ Committing(runs[n].row)
    BY DEF RunsOK, Ticked, Committing
  <2>1. runs[n] \in RunType /\ runs'[n] \in RunType
    BY <1>0, SeqDomain DEF TypeOK, Ticked
  <2>2. DOMAIN runs'[n].vals = DOMAIN runs[n].vals
    <3>1. runs[n].vals \in Seq(AttemptType) /\ runs'[n].vals \in Seq(AttemptType)
      BY <2>1 DEF RunType
    <3> QED
      BY <3>1, SeqDomain DEF Ticked
  <2>3. \A v \in DOMAIN runs'[n].vals : runs'[n].vals[v].row = runs'[n].row
    BY <1>0, <2>2 DEF RunsOK, Ticked
  <2>4. runs'[n].status = "partial" => runs[n].status = "partial"
    BY DEF Ticked
  <2>5. runs'[n].row = runs[n].row
    BY DEF Ticked
  <2>6. runs'[n].status = "partial" =>
           phase' \in {"down", "blocked"} \/ Committing(runs[n].row)
    BY <1>0, <2>4 DEF RunsOK
  <2> QED
    BY <1>0, <2>3, <2>5, <2>6 DEF RunsOK
<1>5. ThreadsOK'
  <2>1. LocksOK'
    BY <1>0 DEF ThreadsOK, LocksOK
  <2>2. ASSUME NEW t \in Threads PROVE ThreadFits(t)'
    <3>1. ThreadFits(t)
      BY <1>0 DEF ThreadsOK
    <3>2. adv[t].row # 0 => PcFits(adv[t], rows[adv[t].row], runs')
      BY <1>0, <1>t, <3>1, TickedPc DEF ThreadFits, RowsOK, Sane
    <3>3. OldestLive(adv[t].row) => OldestLive(adv[t].row)'
      BY DEF OldestLive
    <3>4. phase' = "down" => adv[t].pc = "idle"
      BY <3>1 DEF ThreadFits
    <3>5. phase' = "blocked" => adv[t].pc \notin Opened
      BY <3>1 DEF ThreadFits, Opened
    <3> QED
      BY <3>1, <3>2, <3>3, <3>4, <3>5 DEF ThreadFits
  <2> QED
    BY <2>1, <2>2 DEF ThreadsOK
<1>6. OneUnderWay'
  <2>1. \A n \in DOMAIN runs : Under(n)' => Under(n)
    BY DEF Under, Ticked
  <2> QED
    BY <1>0, <2>1 DEF OneUnderWay, Ticked
<1> QED
  BY <1>1, <1>2, <1>3, <1>4, <1>5, <1>6 DEF Chain

(* The process ends, with its threads.                                     *)
LEMMA Ends ==
    ASSUME IInv, UNCHANGED <<rows, runs>>, phase' = "down",
           \A t \in Threads : adv'[t] = Idle
    PROVE  Chain'
<1>0. TypeOK /\ RowsOK /\ TurnsOK /\ GensOK /\ RunsOK /\ ThreadsOK /\ OneUnderWay
  BY DEF IInv
<1>1. RowsOK' /\ TurnsOK'
  BY <1>0 DEF RowsOK, TurnsOK
<1>3. GensOK'
  BY <1>0, GensKept DEF TypeOK
<1>4. RunsOK'
  BY <1>0 DEF RunsOK
<1>5. ThreadsOK'
  BY DEF ThreadsOK, ThreadFits, LocksOK, Idle, Opened
<1>6. OneUnderWay'
  BY <1>0 DEF OneUnderWay, Under
<1> QED
  BY <1>1, <1>3, <1>4, <1>5, <1>6 DEF Chain

(* A claim or a retry adds a row that nothing has happened to.             *)
LEMMA RowAdded ==
    ASSUME IInv, NEW new, rows' = Append(rows, new), UNCHANGED <<runs, adv, phase>>,
           Sane(new), new.pre = 0, new.run = 0, Len(rows) < MaxRows,
           new.gen = Cardinality(RowsOf(Key(new))), new.gen < MaxGenerations
    PROVE  Chain' /\ rows' \in Seq(GenerationType)
<1>z. PICK z : z = Len(rows) + 1
  OBVIOUS
<1>0. TypeOK /\ RowsOK /\ TurnsOK /\ GensOK /\ RunsOK /\ ThreadsOK /\ OneUnderWay
  BY DEF IInv
<1>1. /\ rows \in Seq(GenerationType) /\ new \in GenerationType
      /\ DOMAIN rows = 1..Len(rows) /\ Len(rows) \in Nat
  BY <1>0, SeqDomain DEF TypeOK, Sane
<1>2. /\ rows' \in Seq(GenerationType) /\ Len(rows') = z /\ z \in Nat
      /\ DOMAIN rows' = DOMAIN rows \cup {z} /\ z \notin DOMAIN rows
      /\ \A k \in DOMAIN rows : k < z /\ rows'[k] = rows[k]
      /\ rows'[z] = new
  BY <1>1, <1>z
<1>3. RowsOK'
  BY <1>0, <1>2 DEF RowsOK, RowFits
<1>4. TurnsOK'
  BY <1>0, <1>1, <1>2 DEF TurnsOK
<1>5. GensOK'
  <2>1. \A k \in DOMAIN rows : Key(rows'[k]) = Key(rows[k])
    BY <1>2
  <2>2. ASSUME NEW k \in DOMAIN rows
        PROVE  {j \in RowsOf(Key(rows[k])) : j < k}'
                  = {j \in RowsOf(Key(rows[k])) : j < k}
    <3>1. \A j \in DOMAIN rows' : j < k => j \in DOMAIN rows
      BY <1>1, <1>2
    <3> QED
      BY <1>2, <2>1, <3>1 DEF RowsOf
  <2>3. {j \in RowsOf(Key(rows[z]))' : j < z} = RowsOf(Key(new))
    <3>1. Key(rows'[z]) = Key(new)
      BY <1>2
    <3>2. \A j \in DOMAIN rows' : j < z <=> j \in DOMAIN rows
      BY <1>1, <1>2
    <3>3. RowsOf(Key(rows[z]))' = {j \in DOMAIN rows' : Key(rows'[j]) = Key(new)}
      BY <3>1, <1>2 DEF RowsOf
    <3>4. \A j : j \in DOMAIN rows' /\ Key(rows'[j]) = Key(new) /\ j < z
                 <=> j \in DOMAIN rows /\ Key(rows[j]) = Key(new)
      BY <1>2, <2>1, <3>2
    <3> QED
      BY <3>3, <3>4 DEF RowsOf
  <2>4. Len(rows') <= MaxRows
    BY <1>1, <1>2, <1>z, ConstantsAssumption
  <2>5. \A k \in DOMAIN rows' :
           rows'[k].gen = Cardinality({j \in RowsOf(Key(rows[k]))' : j < k})
    <3>1. \A k \in DOMAIN rows :
           rows'[k].gen = Cardinality({j \in RowsOf(Key(rows[k]))' : j < k})
      BY <1>0, <1>2, <2>2 DEF GensOK
    <3>2. rows'[z].gen = Cardinality({j \in RowsOf(Key(rows[z]))' : j < z})
      <4>1. rows'[z].gen = Cardinality(RowsOf(Key(new)))
        BY <1>2
      <4> QED
        BY <4>1, <2>3
    <3> QED
      BY <1>2, <3>1, <3>2
  <2>6. \A k \in DOMAIN rows' : rows'[k].gen < MaxGenerations
    BY <1>0, <1>2 DEF GensOK
  <2> QED
    BY <2>4, <2>5, <2>6 DEF GensOK
<1>6. RunsOK'
  BY <1>0, <1>2 DEF RunsOK, Committing
<1>7. ThreadsOK'
  <2>1. ASSUME NEW t \in Threads PROVE ThreadFits(t)'
    <3>1. ThreadFits(t)
      BY <1>0 DEF ThreadsOK
    <3>2. adv[t].row # 0 => adv[t].row \in DOMAIN rows
      BY <3>1 DEF ThreadFits
    <3>3. adv[t].row # 0 /\ OldestLive(adv[t].row) => OldestLive(adv[t].row)'
      BY <1>1, <1>2, <3>2 DEF OldestLive
    <3>4. adv[t].row # 0 => PcFits(adv[t], rows'[adv[t].row], runs)
      BY <1>2, <3>1, <3>2 DEF ThreadFits
    <3> QED
      BY <1>2, <3>1, <3>2, <3>3, <3>4 DEF ThreadFits
  <2>2. LocksOK'
    BY <1>0 DEF ThreadsOK, LocksOK
  <2> QED
    BY <2>1, <2>2 DEF ThreadsOK
<1>8. OneUnderWay'
  <2>1. \A n \in DOMAIN runs : runs[n].row # 0 => (Under(n)' <=> Under(n))
    BY <1>0, <1>2 DEF Under, RunsOK
  <2> QED
    BY <1>0, <2>1 DEF OneUnderWay
<1> QED
  BY <1>2, <1>3, <1>4, <1>5, <1>6, <1>7, <1>8 DEF Chain

(* What a Run that is added leaves as it was.                              *)
LEMMA RunAppended ==
    ASSUME TypeOK, NEW new \in RunType, runs' = Append(runs, new)
    PROVE  /\ runs' \in Seq(RunType) /\ Len(runs) + 1 \in Nat \ {0}
           /\ DOMAIN runs' = DOMAIN runs \cup {Len(runs) + 1}
           /\ Len(runs) + 1 \notin DOMAIN runs
           /\ \A n \in DOMAIN runs :
                 n \in Nat /\ n < Len(runs) + 1 /\ runs'[n] = runs[n]
           /\ runs'[Len(runs) + 1] = new
BY SeqDomain DEF TypeOK

LEMMA FitsAppended ==
    ASSUME TypeOK, NEW new \in RunType, runs' = Append(runs, new),
           NEW k, NEW row \in GenerationType, ValidGeneration(row),
           RowFits(k, row, runs)
    PROVE  /\ RowFits(k, row, runs')
           /\ \A a : PcFits(a, row, runs) => PcFits(a, row, runs')
<1>1. row.run # 0 => row.run \in DOMAIN runs
  BY DEF RowFits, ValidGeneration
<1>2. /\ row.pre # 0 => row.pre \in DOMAIN runs' /\ runs'[row.pre] = runs[row.pre]
      /\ row.run # 0 => runs'[row.run] = runs[row.run]
  BY <1>1, RunAppended DEF RowFits
<1>3. RowFits(k, row, runs')
  BY <1>2 DEF RowFits
<1>4. ASSUME NEW a, PcFits(a, row, runs) PROVE PcFits(a, row, runs')
  <2>1. a.pc \in {"vlink", "publink"} => row.run # 0
    BY <1>4 DEF PcFits, ValidGeneration
  <2>2. a.pc \in {"commit", "link"} => row.pre # 0
    BY <1>4 DEF PcFits, Admitting
  <2> QED
    BY <1>2, <1>4, <2>1, <2>2 DEF PcFits
<1> QED
  BY <1>3, <1>4

(* An operator starts a Run.                                               *)
LEMMA ForeignRunAdded ==
    ASSUME IInv, NEW new \in RunType, runs' = Append(runs, new),
           new.row = 0, new.vals = <<>>, new.status # "partial",
           UNCHANGED <<rows, adv, phase>>
    PROVE  Chain'
<1>0. TypeOK /\ RowsOK /\ TurnsOK /\ GensOK /\ RunsOK /\ ThreadsOK /\ OneUnderWay
  BY DEF IInv
<1>t. \A k \in DOMAIN rows : rows[k] \in GenerationType
  BY <1>0, SeqDomain DEF TypeOK
<1>1. RowsOK'
  BY <1>0, <1>t, FitsAppended DEF RowsOK, Sane
<1>2. TurnsOK'
  BY <1>0 DEF TurnsOK
<1>3. GensOK'
  BY <1>0, GensKept DEF TypeOK
<1>4. RunsOK'
  BY <1>0, RunAppended DEF RunsOK, Committing
<1>5. ThreadsOK'
  <2>1. ASSUME NEW t \in Threads PROVE ThreadFits(t)'
    <3>1. ThreadFits(t)
      BY <1>0 DEF ThreadsOK
    <3>2. adv[t].row # 0 => PcFits(adv[t], rows[adv[t].row], runs')
      BY <1>0, <1>t, <3>1, FitsAppended DEF ThreadFits, RowsOK, Sane
    <3> QED
      BY <3>1, <3>2 DEF ThreadFits, OldestLive
  <2> QED
    BY <1>0, <2>1 DEF ThreadsOK, LocksOK
<1>6. OneUnderWay'
  BY <1>0, RunAppended DEF OneUnderWay, Under
<1> QED
  BY <1>1, <1>2, <1>3, <1>4, <1>5, <1>6 DEF Chain

-----------------------------------------------------------------------------
(* The thread that works on a row, and what it may do in one step.         *)

LEMMA WorkFacts ==
    ASSUME IInv, NEW t \in Threads, adv[t].pc \notin {"idle", "notify"}
    PROVE  /\ adv[t].row # 0 /\ adv[t].row \in DOMAIN rows /\ adv[t].row \in Nat
           /\ Row(t) \in GenerationType /\ Sane(Row(t)) /\ Live(Row(t))
           /\ RowFits(adv[t].row, Row(t), runs) /\ PcFits(adv[t], Row(t), runs)
           /\ OldestLive(adv[t].row)
           /\ adv[t] \in AdvanceType
           /\ phase # "down" /\ (phase = "blocked" => adv[t].pc \notin Opened)
           /\ Row(t).pre # 0 => Row(t).pre \in DOMAIN runs
           /\ Row(t).run # 0 => Row(t).run = Row(t).pre
<1>1. ThreadFits(t) /\ RowsOK /\ TypeOK
  BY DEF IInv, ThreadsOK
<1>2. adv[t].row # 0 /\ adv[t].row \in DOMAIN rows
  BY <1>1 DEF ThreadFits
<1>3. adv[t] \in AdvanceType /\ adv[t].row \in Nat
  BY <1>1 DEF TypeOK, AdvanceType
<1>4. Row(t) \in GenerationType /\ Sane(Row(t)) /\ ValidGeneration(Row(t))
      /\ RowFits(adv[t].row, Row(t), runs)
  BY <1>1, <1>2 DEF RowsOK, Row, Sane
<1>5. PcFits(adv[t], Row(t), runs) /\ OldestLive(adv[t].row)
  BY <1>1, <1>2 DEF ThreadFits, Row
<1>6. Live(Row(t))
  BY <1>5 DEF PcFits, Live
<1>7. phase # "down" /\ (phase = "blocked" => adv[t].pc \notin Opened)
  BY <1>1 DEF ThreadFits
<1>8. /\ Row(t).pre # 0 => Row(t).pre \in DOMAIN runs
      /\ Row(t).run # 0 => Row(t).run = Row(t).pre
  BY <1>4 DEF RowFits, ValidGeneration
<1> QED
  BY <1>2, <1>3, <1>4, <1>5, <1>6, <1>7, <1>8

(* Everybody else waits, or remembers a notification of another row.       *)
LEMMA OthersIdle ==
    ASSUME IInv, NEW t \in Threads, adv[t].pc \notin {"idle", "notify"},
           NEW u \in Threads \ {t}
    PROVE  /\ adv[u].row # adv[t].row
           /\ adv[u].row = 0 \/ adv[u].pc = "notify"
<1>1. ThreadFits(t) /\ ThreadFits(u) /\ LocksOK /\ TypeOK
  BY DEF IInv, ThreadsOK
<1>2. adv[t].row # 0 /\ adv[t].row \in DOMAIN rows /\ Live(rows[adv[t].row])
      /\ OldestLive(adv[t].row)
  BY WorkFacts DEF Row
<1>3. adv[u].row # adv[t].row
  BY <1>1, <1>2 DEF LocksOK
<1>4. ASSUME adv[u].row # 0, adv[u].pc # "notify" PROVE FALSE
  <2>1. adv[u].row \in DOMAIN rows /\ OldestLive(adv[u].row)
        /\ Live(rows[adv[u].row])
    BY <1>1, <1>4 DEF ThreadFits, PcFits, Live
  <2>2. adv[u].row \in Nat /\ adv[t].row \in Nat
    BY <1>1 DEF TypeOK, AdvanceType
  <2> QED
    BY <1>2, <1>3, <2>1, <2>2 DEF OldestLive, Live
<1> QED
  BY <1>3, <1>4

(* The row and the place of the thread that works, and its Run.            *)
RowWorks(t) ==
    LET k == adv[t].row
    IN  /\ rows' \in Seq(GenerationType) /\ DOMAIN rows' = DOMAIN rows
        /\ Len(rows') = Len(rows)
        /\ \A j \in DOMAIN rows : j # k => rows'[j] = rows[j]
        /\ Sane(rows'[k]) /\ Moved(rows[k], rows'[k])

PlaceWorks(t) ==
    LET k == adv[t].row
        a == adv'[t]
    IN  /\ adv' \in [Threads -> AdvanceType]
        /\ \A u \in Threads : u # t => adv'[u] = adv[u]
        /\ \/ a = Idle
           \/ /\ a.row = k /\ a.pc # "idle"
              /\ PcFits(a, rows'[k], runs')
              /\ phase = "blocked" => a.pc \notin Opened

RunWorks(t) ==
    LET p == rows[adv[t].row].pre
    IN  /\ runs' \in Seq(RunType) /\ DOMAIN runs' = DOMAIN runs
        /\ \A n \in DOMAIN runs :
              /\ n # p => runs'[n] = runs[n]
              /\ n = p =>
                    /\ runs'[n].row = runs[n].row /\ runs'[n].id = runs[n].id
                    /\ runs'[n].mode = runs[n].mode
                    /\ \A v \in DOMAIN runs'[n].vals :
                          runs'[n].vals[v].row = runs[n].row
                    /\ runs'[n].status = "partial" =>
                          phase = "blocked" \/ adv'[t].pc = "commit"

Works(t) ==
    /\ RowWorks(t) /\ PlaceWorks(t) /\ RunWorks(t)
    /\ rows'[adv[t].row].pre = rows[adv[t].row].pre
    /\ RowFits(adv[t].row, rows'[adv[t].row], runs')
    /\ phase' = phase

(* The rows of others keep what they say: their Runs are other Runs.       *)
LEMMA OtherRows ==
    ASSUME IInv, NEW t \in Threads, adv[t].pc \notin {"idle", "notify"},
           NEW j \in DOMAIN rows, j # adv[t].row,
           DOMAIN runs \subseteq DOMAIN runs',
           \A n \in DOMAIN runs : n # Row(t).pre => runs'[n] = runs[n]
    PROVE  RowFits(j, rows[j], runs')
<1>1. RowFits(j, rows[j], runs) /\ ValidGeneration(rows[j])
  BY DEF IInv, RowsOK, Sane
<1>2. rows[j].pre # 0 => rows[j].pre # Row(t).pre /\ rows[j].pre \in DOMAIN runs
  BY <1>1, WorkFacts DEF RowFits
<1>3. rows[j].run # 0 => rows[j].run = rows[j].pre /\ rows[j].pre # 0
  BY <1>1 DEF ValidGeneration
<1> QED
  BY <1>1, <1>2, <1>3 DEF RowFits

LEMMA WorksKeeps ==
    ASSUME IInv, NEW t \in Threads, adv[t].pc \notin {"idle", "notify"}, Works(t)
    PROVE  Chain'
<1>0. TypeOK /\ RowsOK /\ TurnsOK /\ GensOK /\ RunsOK /\ ThreadsOK /\ OneUnderWay
  BY DEF IInv
<1> DEFINE k == adv[t].row
<1>k. /\ k # 0 /\ k \in DOMAIN rows /\ k \in Nat /\ Live(rows[k])
      /\ OldestLive(k) /\ phase # "down"
      /\ rows[k].pre # 0 => rows[k].pre \in DOMAIN runs
                            /\ runs[rows[k].pre].row = k
  BY WorkFacts DEF Row, RowFits
<1>w. RowWorks(t) /\ PlaceWorks(t) /\ RunWorks(t) /\ phase' = phase
      /\ rows'[k].pre = rows[k].pre /\ RowFits(k, rows'[k], runs')
  BY DEF Works
<1>r. /\ DOMAIN rows' = DOMAIN rows /\ DOMAIN runs' = DOMAIN runs
      /\ \A j \in DOMAIN rows : j # k => rows'[j] = rows[j]
      /\ \A n \in DOMAIN runs : n # rows[k].pre => runs'[n] = runs[n]
  BY <1>w DEF RowWorks, RunWorks
<1>o. ASSUME NEW u \in Threads, u # t
      PROVE  adv'[u] = adv[u] /\ adv[u].row # k
             /\ (adv[u].row = 0 \/ adv[u].pc = "notify")
  BY <1>w, <1>o, OthersIdle DEF PlaceWorks
<1>1. RowsOK'
  <2>1. ASSUME NEW j \in DOMAIN rows, j # k
        PROVE  Sane(rows'[j]) /\ RowFits(j, rows'[j], runs')
    BY <1>0, <1>r, <2>1, OtherRows DEF RowsOK, Row
  <2>2. Sane(rows'[k]) /\ RowFits(k, rows'[k], runs')
    BY <1>w DEF RowWorks
  <2> QED
    BY <1>r, <2>1, <2>2 DEF RowsOK
<1>2. TurnsOK'
  <2>1. \A j \in DOMAIN rows : rows'[j].pre = rows[j].pre
    BY <1>r, <1>w
  <2>2. \A j \in DOMAIN rows :
           rows[j].state \in Stopped => rows'[j].state \in Stopped
    BY <1>r, <1>k DEF Live
  <2> QED
    BY <1>0, <1>r, <2>1, <2>2 DEF TurnsOK
<1>3. GensOK'
  <2>1. \A j \in DOMAIN rows : /\ rows'[j].id = rows[j].id
                               /\ rows'[j].doc = rows[j].doc
                               /\ rows'[j].gen = rows[j].gen
    BY <1>r, <1>w DEF RowWorks, Moved
  <2> QED
    BY <1>0, <1>w, <2>1, GensKept DEF RowWorks
<1>4. RunsOK'
  <2>1. ASSUME NEW n \in DOMAIN runs, n # rows[k].pre
        PROVE  /\ runs'[n].row # 0 => /\ runs'[n].row \in DOMAIN rows'
                                      /\ rows'[runs'[n].row].pre = n
               /\ \A v \in DOMAIN runs'[n].vals :
                     runs'[n].vals[v].row = runs'[n].row
               /\ runs'[n].status = "partial" =>
                     phase' \in {"down", "blocked"} \/ Committing(runs[n].row)'
    <3>1. runs'[n] = runs[n]
      BY <1>r, <2>1
    <3>2. runs[n].row # 0 => runs[n].row \in DOMAIN rows /\ runs[n].row # k
                             /\ rows[runs[n].row].pre = n
      BY <1>0, <2>1 DEF RunsOK
    <3>3. Committing(runs[n].row) => Committing(runs[n].row)'
      <4> SUFFICES ASSUME NEW u \in Threads, adv[u].pc = "commit",
                          adv[u].row = runs[n].row
                   PROVE  Committing(runs[n].row)'
        BY DEF Committing
      <4>1. adv[u].row # 0
        BY <1>0 DEF ThreadsOK, ThreadFits
      <4>2. u # t
        BY <3>2, <4>1
      <4> QED
        BY <1>o, <4>1, <4>2
    <3>4. runs[n].status = "partial" =>
             phase \in {"down", "blocked"} \/ Committing(runs[n].row)
      BY <1>0 DEF RunsOK
    <3>5. \A v \in DOMAIN runs[n].vals : runs[n].vals[v].row = runs[n].row
      BY <1>0 DEF RunsOK
    <3> QED
      BY <1>r, <1>w, <3>1, <3>2, <3>3, <3>4, <3>5
  <2>2. ASSUME NEW n \in DOMAIN runs, n = rows[k].pre
        PROVE  /\ runs'[n].row # 0 => /\ runs'[n].row \in DOMAIN rows'
                                      /\ rows'[runs'[n].row].pre = n
               /\ \A v \in DOMAIN runs'[n].vals :
                     runs'[n].vals[v].row = runs'[n].row
               /\ runs'[n].status = "partial" =>
                     phase' \in {"down", "blocked"} \/ Committing(runs[n].row)'
    <3>0. rows[k].pre # 0
      BY <1>0, <2>2, SeqDomain DEF TypeOK
    <3>1. runs[n].row = k
      BY <1>k, <2>2, <3>0
    <3>2. /\ runs'[n].row = k
          /\ \A v \in DOMAIN runs'[n].vals : runs'[n].vals[v].row = k
          /\ runs'[n].status = "partial" =>
                phase = "blocked" \/ adv'[t].pc = "commit"
      BY <1>w, <2>2, <3>1 DEF RunWorks
    <3>3. adv'[t].pc = "commit" => adv'[t].row = k
      BY <1>w DEF PlaceWorks, Idle
    <3>4. adv'[t].pc = "commit" => Committing(runs[n].row)'
      BY <3>1, <3>2, <3>3 DEF Committing
    <3> QED
      BY <1>k, <1>r, <1>w, <2>2, <3>2, <3>4
  <2>3. \A n \in DOMAIN runs : runs'[n].row = runs[n].row
    BY <1>w DEF RunWorks
  <2> QED
    BY <1>r, <2>1, <2>2, <2>3 DEF RunsOK, Committing
<1>5. ThreadsOK'
  <2>1. ASSUME NEW u \in Threads, u # t PROVE ThreadFits(u)'
    <3>1. ThreadFits(u)
      BY <1>0 DEF ThreadsOK
    <3>2. adv[u].row # 0 => PcFits(adv[u], rows'[adv[u].row], runs')
      <4>1. adv[u].row # 0 => rows'[adv[u].row] = rows[adv[u].row]
                              /\ adv[u].pc = "notify"
        BY <1>o, <1>r, <2>1, <3>1 DEF ThreadFits
      <4> QED
        BY <3>1, <4>1 DEF ThreadFits, PcFits, Admitting
    <3>3. adv'[u] = adv[u] /\ (adv[u].row = 0 \/ adv[u].pc = "notify")
      BY <1>o, <2>1
    <3> QED
      BY <1>r, <1>w, <3>1, <3>2, <3>3 DEF ThreadFits
  <2>2. ThreadFits(t)'
    <3>1. CASE adv'[t] = Idle
      BY <3>1 DEF ThreadFits, Idle, Opened
    <3>2. CASE adv'[t] # Idle
      <4>1. adv'[t].row = k /\ adv'[t].pc # "idle"
            /\ PcFits(adv'[t], rows'[k], runs')
            /\ (phase = "blocked" => adv'[t].pc \notin Opened)
        BY <1>w, <3>2 DEF PlaceWorks
      <4>2. OldestLive(k)'
        <5>1. \A j \in DOMAIN rows' : j < adv[t].row => rows'[j].state \in Stopped
          BY <1>k, <1>r DEF OldestLive
        <5> QED
          BY <4>1, <5>1 DEF OldestLive
      <4>3. OldestLive(adv[t].row)'
        BY <4>2
      <4> QED
        BY <1>k, <1>r, <1>w, <4>1, <4>3 DEF ThreadFits
    <3> QED
      BY <3>1, <3>2
  <2>3. LocksOK'
    <3>1. adv'[t].row \in {0, k}
      BY <1>w DEF PlaceWorks, Idle
    <3> QED
      BY <1>0, <1>o, <3>1 DEF ThreadsOK, LocksOK
  <2> QED
    BY <2>1, <2>2, <2>3 DEF ThreadsOK
<1>6. OneUnderWay'
  <2>1. \A n \in DOMAIN runs : /\ runs'[n].row = runs[n].row
                               /\ runs'[n].id = runs[n].id
                               /\ runs'[n].mode = runs[n].mode
    BY <1>w DEF RunWorks
  <2>2. ASSUME NEW n \in DOMAIN runs, runs[n].row # 0, Under(n)'
        PROVE  Under(n)
    <3>1. runs[n].row \in DOMAIN rows /\ rows[runs[n].row].pre = n
      BY <1>0, <2>2 DEF RunsOK
    <3>2. CASE n = rows[k].pre
      <4>1. runs[n].row = k
        BY <1>0, <1>k, <2>2, <3>2, SeqDomain DEF TypeOK
      <4> QED
        BY <1>k, <4>1 DEF Under
    <3>3. CASE n # rows[k].pre
      BY <1>r, <2>2, <3>1, <3>3 DEF Under
    <3> QED
      BY <3>2, <3>3
  <2> QED
    BY <1>0, <1>r, <2>1, <2>2 DEF OneUnderWay
<1> QED
  BY <1>1, <1>2, <1>3, <1>4, <1>5, <1>6 DEF Chain

(* A thread that reserves a Run id for its row adds the Run.  The scan has *)
(* found no Run for the identity, and no other row can admit one.          *)
LEMMA ReserveKeeps ==
    ASSUME IInv, NEW t \in Threads, adv[t].pc = "reserve", NEW new \in RunType,
           Row(t).pre = 0, ~ OwnedIdentity(Row(t)),
           rows' \in Seq(GenerationType), DOMAIN rows' = DOMAIN rows,
           Len(rows') = Len(rows),
           \A j \in DOMAIN rows : j # adv[t].row => rows'[j] = rows[j],
           rows'[adv[t].row] = PreallocateRun(Row(t), Len(runs) + 1),
           runs' = Append(runs, new),
           new.row = adv[t].row, new.id = Row(t).id, new.doc = Row(t).doc,
           new.mode = Mode(Row(t).doc), new.status = "absent", new.vals = <<>>,
           adv' \in [Threads -> AdvanceType],
           \A u \in Threads : u # t => adv'[u] = adv[u],
           adv'[t].row = adv[t].row, adv'[t].pc = "recheck",
           adv'[t].existing = adv[t].existing, phase' = phase
    PROVE  Chain'
<1>0. TypeOK /\ RowsOK /\ TurnsOK /\ GensOK /\ RunsOK /\ ThreadsOK /\ OneUnderWay
  BY DEF IInv
<1>c. PICK k : k = adv[t].row
  OBVIOUS
<1>z. PICK z : z = Len(runs) + 1
  OBVIOUS
<1>k. /\ k # 0 /\ k \in DOMAIN rows /\ k \in Nat /\ Live(rows[k])
      /\ OldestLive(k) /\ phase # "down" /\ phase # "blocked"
      /\ Sane(rows[k]) /\ rows[k].pre = 0 /\ Row(t) = rows[k]
  BY <1>c, WorkFacts DEF Row, Opened
<1>a. /\ runs' \in Seq(RunType) /\ z \in Nat \ {0}
      /\ DOMAIN runs' = DOMAIN runs \cup {z} /\ z \notin DOMAIN runs
      /\ \A n \in DOMAIN runs : n \in Nat /\ n < z /\ runs'[n] = runs[n]
      /\ runs'[z] = new
  BY <1>0, <1>z, RunAppended
<1>p. /\ Sane(rows'[k]) /\ Moved(rows[k], rows'[k]) /\ Live(rows'[k])
      /\ rows'[k].pre = z /\ rows'[k].run = 0
  BY <1>c, <1>k, <1>z, <1>a, PreallocateFits
<1>r. /\ DOMAIN rows' = DOMAIN rows
      /\ \A j \in DOMAIN rows : j # k => rows'[j] = rows[j]
  BY <1>c
<1>o. ASSUME NEW u \in Threads, u # t
      PROVE  adv'[u] = adv[u] /\ adv[u].row # k
             /\ (adv[u].row = 0 \/ adv[u].pc = "notify")
  BY <1>c, <1>o, OthersIdle
<1>m. rows[k].id = rows'[k].id /\ rows[k].doc = rows'[k].doc
  BY <1>p DEF Moved
<1>1. RowsOK'
  <2>1. ASSUME NEW j \in DOMAIN rows, j # k
        PROVE  Sane(rows'[j]) /\ RowFits(j, rows'[j], runs')
    BY <1>0, <1>c, <1>a, <1>r, <2>1, OtherRows DEF RowsOK
  <2>2. Sane(rows'[k]) /\ RowFits(k, rows'[k], runs')
    BY <1>c, <1>k, <1>a, <1>p, <1>m DEF RowFits
  <2> QED
    BY <1>r, <2>1, <2>2 DEF RowsOK
<1>2. TurnsOK'
  <2>1. \A j \in DOMAIN rows :
           rows[j].state \in Stopped => rows'[j].state \in Stopped
    BY <1>r, <1>k DEF Live
  <2>2. \A j \in DOMAIN rows : j < k => rows[j].state \in Stopped
    BY <1>k DEF OldestLive
  <2>3. \A j \in DOMAIN rows : j # k => rows'[j].pre = rows[j].pre
    BY <1>r
  <2> QED
    BY <1>0, <1>r, <2>1, <2>2, <2>3 DEF TurnsOK
<1>3. GensOK'
  <2>1. \A j \in DOMAIN rows : /\ rows'[j].id = rows[j].id
                               /\ rows'[j].doc = rows[j].doc
                               /\ rows'[j].gen = rows[j].gen
    BY <1>r, <1>p DEF Moved
  <2> QED
    BY <1>0, <2>1, GensKept
<1>4. RunsOK'
  <2>1. ASSUME NEW n \in DOMAIN runs
        PROVE  /\ runs'[n].row # 0 => /\ runs'[n].row \in DOMAIN rows'
                                      /\ rows'[runs'[n].row].pre = n
               /\ \A v \in DOMAIN runs'[n].vals :
                     runs'[n].vals[v].row = runs'[n].row
               /\ runs'[n].status = "partial" =>
                     phase' \in {"down", "blocked"} \/ Committing(runs[n].row)'
    <3>1. runs'[n] = runs[n] /\ n # 0
      BY <1>0, <1>a, SeqDomain DEF TypeOK
    <3>2. runs[n].row # 0 => runs[n].row \in DOMAIN rows /\ runs[n].row # k
                             /\ rows[runs[n].row].pre = n
      BY <1>0, <1>k, <3>1 DEF RunsOK
    <3>3. Committing(runs[n].row) => Committing(runs[n].row)'
      <4> SUFFICES ASSUME NEW u \in Threads, adv[u].pc = "commit",
                          adv[u].row = runs[n].row
                   PROVE  Committing(runs[n].row)'
        BY DEF Committing
      <4>1. u # t
        OBVIOUS
      <4> QED
        BY <1>a, <1>o, <4>1 DEF Committing
    <3>4. runs[n].status = "partial" =>
             phase \in {"down", "blocked"} \/ Committing(runs[n].row)
      BY <1>0 DEF RunsOK
    <3>5. \A v \in DOMAIN runs[n].vals : runs[n].vals[v].row = runs[n].row
      BY <1>0 DEF RunsOK
    <3> QED
      BY <1>r, <3>1, <3>2, <3>3, <3>4, <3>5
  <2>2. \A n \in DOMAIN runs : runs'[n].row = runs[n].row
    BY <1>a
  <2> QED
    BY <1>c, <1>k, <1>r, <1>a, <1>p, <2>1, <2>2 DEF RunsOK, Committing
<1>5. ThreadsOK'
  <2>1. ASSUME NEW u \in Threads, u # t PROVE ThreadFits(u)'
    <3>1. ThreadFits(u)
      BY <1>0 DEF ThreadsOK
    <3>2. adv[u].row # 0 => PcFits(adv[u], rows'[adv[u].row], runs')
      <4>1. adv[u].row # 0 => rows'[adv[u].row] = rows[adv[u].row]
                              /\ adv[u].pc = "notify"
        BY <1>o, <1>r, <2>1, <3>1 DEF ThreadFits
      <4> QED
        BY <3>1, <4>1 DEF ThreadFits, PcFits, Admitting
    <3>3. adv'[u] = adv[u] /\ (adv[u].row = 0 \/ adv[u].pc = "notify")
      BY <1>o, <2>1
    <3> QED
      BY <1>r, <3>1, <3>2, <3>3 DEF ThreadFits
  <2>2. ThreadFits(t)'
    <3>1. PcFits(adv'[t], rows'[k], runs')
      <4>1. adv[t].existing => rows[k].run # 0
        BY <1>k, WorkFacts DEF PcFits
      <4>2. ~ adv[t].existing
        <5>1. rows[k].run # 0 => rows[k].pre # 0
          BY <1>k DEF Sane, ValidGeneration
        <5> QED
          BY <1>k, <4>1, <5>1
      <4> QED
        BY <1>a, <1>p, <4>2 DEF PcFits, Admitting, Live
    <3>2. \A j \in DOMAIN rows' : j < k => rows'[j].state \in Stopped
      BY <1>k, <1>r DEF OldestLive
    <3>3. OldestLive(adv[t].row)'
      BY <1>c, <3>2 DEF OldestLive
    <3> QED
      BY <1>c, <1>k, <1>r, <3>1, <3>3 DEF ThreadFits
  <2>3. LocksOK'
    BY <1>0, <1>c, <1>o DEF ThreadsOK, LocksOK
  <2> QED
    BY <2>1, <2>2, <2>3 DEF ThreadsOK
<1>6. OneUnderWay'
  <2>1. ASSUME NEW n \in DOMAIN runs, runs[n].row # 0, Under(n)'
        PROVE  Under(n) /\ runs[n].row # k
    <3>1. runs[n].row \in DOMAIN rows /\ rows[runs[n].row].pre = n /\ n # 0
      BY <1>0, <2>1, SeqDomain DEF RunsOK, TypeOK
    <3>2. runs[n].row # k
      BY <1>k, <3>1
    <3> QED
      BY <1>a, <1>r, <2>1, <3>1, <3>2 DEF Under
  <2>2. ASSUME NEW n \in DOMAIN runs, runs[n].row # 0, Under(n),
               runs[n].id = rows[k].id
        PROVE  runs[n].mode = "dry_run" /\ Mode(rows[k].doc) = "build"
    <3>1. runs[n].row \in DOMAIN rows /\ rows[runs[n].row].pre = n /\ n # 0
      BY <1>0, <2>2, SeqDomain DEF RunsOK, TypeOK
    <3>2. ~ Live(rows[runs[n].row])
      <4>1. runs[n].row # k
        BY <1>k, <3>1
      <4>2. runs[n].row \in Nat /\ k \in Nat
        BY <1>0, <1>k, <3>1, SeqDomain DEF TypeOK
      <4>3. CASE runs[n].row < k
        BY <1>k, <3>1, <4>3 DEF OldestLive, Live
      <4>4. CASE k < runs[n].row
        BY <1>0, <1>k, <3>1, <4>4 DEF TurnsOK, Live
      <4> QED
        BY <4>1, <4>2, <4>3, <4>4
    <3>3. runs[n].status \in LiveRun
      BY <2>2, <3>2 DEF Under
    <3>4. runs[n].mode # "build" /\ PolicyOf[rows[k].doc] # "test"
      BY <1>k, <2>2, <3>3 DEF OwnedIdentity
    <3>5. runs[n].mode \in {"dry_run", "build"}
      <4>1. runs[n] \in RunType
        BY <1>0, SeqDomain DEF TypeOK
      <4> QED
        BY <4>1 DEF RunType
    <3> QED
      BY <3>4, <3>5 DEF Mode
  <2>3. new.id = rows[k].id /\ new.mode = Mode(rows[k].doc)
    BY <1>k
  <2>4. ASSUME NEW m \in DOMAIN runs', NEW n \in DOMAIN runs', m < n,
               runs'[m].row # 0, runs'[n].row # 0, runs'[m].id = runs'[n].id,
               Under(m)', Under(n)'
        PROVE  runs'[m].mode = "dry_run" /\ runs'[n].mode = "build"
    <3>1. m \in DOMAIN runs
      <4>1. z \in Nat /\ \A i \in DOMAIN runs : i \in Nat /\ i < z
        BY <1>a
      <4>2. n \in DOMAIN runs \cup {z} /\ m \in DOMAIN runs \cup {z}
        BY <1>a
      <4>3. ~ (z < n)
        BY <4>1, <4>2
      <4> QED
        BY <2>4, <4>2, <4>3
    <3>2. CASE n \in DOMAIN runs
      BY <1>0, <1>a, <2>1, <2>4, <3>1, <3>2 DEF OneUnderWay
    <3>3. CASE n = z
      <4>1. Under(m) /\ runs[m].row # 0 /\ runs[m].id = rows[k].id
        BY <1>a, <2>1, <2>3, <2>4, <3>1, <3>3
      <4> QED
        BY <1>a, <2>2, <2>3, <3>1, <3>3, <4>1
    <3> QED
      BY <1>a, <3>2, <3>3
  <2> QED
    BY <2>4 DEF OneUnderWay
<1> QED
  BY <1>1, <1>2, <1>3, <1>4, <1>5, <1>6 DEF Chain

(* A thread takes the oldest row that has not stopped, unless it is taken. *)
LEMMA AdvanceKeeps ==
    ASSUME IInv, NEW t \in Threads, NEW k \in DOMAIN rows, Advance(t, k)
    PROVE  Chain' /\ adv' \in [Threads -> AdvanceType]
<1>0. TypeOK /\ RowsOK /\ TurnsOK /\ GensOK /\ RunsOK /\ ThreadsOK /\ OneUnderWay
  BY DEF IInv
<1>r. PICK row : row = rows[k]
  OBVIOUS
<1> DEFINE a == [Idle EXCEPT !.row = k, !.pc = Dispatch(row)]
<1>1. /\ adv[t].pc = "idle" /\ phase # "down"
      /\ \A u \in Threads : adv[u].row # k
      /\ Live(row) /\ IsRecipeTurn(k) /\ adv' = [adv EXCEPT ![t] = a]
      /\ UNCHANGED <<rows, runs, phase>>
  BY <1>r DEF Advance, At, Alive, Locked, Live, world
<1>2. k \in Nat \ {0} /\ Sane(row) /\ row \in GenerationType
      /\ ValidGeneration(row) /\ Plain(row)
  BY <1>0, <1>r, SeqDomain DEF TypeOK, RowsOK, Sane
<1>3. Dispatch(row) \in {"authorize", "vadmit", "validation", "run"}
  BY DEF Dispatch
<1>4. a \in AdvanceType /\ a.row = k /\ a.pc = Dispatch(row) /\ ~ a.existing
  BY <1>2, <1>3 DEF AdvanceType, Idle, Pcs, Codes
<1>5. adv' \in [Threads -> AdvanceType] /\ adv'[t] = a
      /\ \A u \in Threads : u # t => adv'[u] = adv[u]
  BY <1>0, <1>1, <1>4 DEF TypeOK
<1> HIDE DEF a
<1>6. PcFits(a, row, runs)
  <2>1. row.stage \in Stages \ {"terminal"}
    <3>1. row.stage \in Stages
      BY <1>2 DEF GenerationType
    <3>2. row.stage # "terminal"
      BY <1>1, <1>2 DEF ValidGeneration, Live
    <3> QED
      BY <3>1, <3>2
  <2>2. row.run # 0 => row.stage \notin {"detection", "run_admission"}
    <3>1. row.stage = "detection" => row.run = 0
      BY <1>2 DEF ValidGeneration
    <3>2. row.stage = "run_admission" => row.run = 0
      BY <1>2 DEF ValidGeneration
    <3> QED
      BY <3>1, <3>2
  <2>3. row.stage \in {"validation_admission", "validation", "publication"} =>
           row.run # 0
    <3>1. row.stage = "validation_admission" => row.run # 0
      BY <1>2 DEF ValidGeneration
    <3>2. row.stage = "validation" => row.run # 0
      BY <1>2 DEF ValidGeneration
    <3>3. row.stage = "publication" => row.run # 0
      BY <1>2 DEF ValidGeneration
    <3> QED
      BY <3>1, <3>2, <3>3
  <2>4. CASE row.run = 0
    <3>1. a.pc = "authorize"
      BY <1>4, <2>3, <2>4 DEF Dispatch
    <3> QED
      BY <1>1, <1>4, <2>4, <3>1 DEF PcFits, Admitting, Live
  <2>5. CASE row.run # 0 /\ row.stage = "validation_admission"
    <3>1. a.pc = "vadmit"
      BY <1>4, <2>5 DEF Dispatch
    <3> QED
      BY <1>1, <1>4, <2>5, <3>1 DEF PcFits, Admitting, Live
  <2>6. CASE row.run # 0 /\ row.stage = "validation"
    <3>1. a.pc \in {"vadmit", "validation"}
      BY <1>4, <2>6 DEF Dispatch
    <3> QED
      BY <1>1, <1>4, <2>6, <3>1 DEF PcFits, Admitting, Live
  <2>7. CASE row.run # 0 /\ row.stage = "publication"
    <3>1. a.pc = "validation"
      BY <1>4, <2>7 DEF Dispatch
    <3> QED
      BY <1>1, <1>4, <2>7, <3>1 DEF PcFits, Admitting, Live
  <2>8. CASE row.run # 0 /\ row.stage = "run"
    <3>1. a.pc = "run"
      BY <1>4, <2>8 DEF Dispatch
    <3> QED
      BY <1>1, <1>4, <2>8, <3>1 DEF PcFits, Admitting, Live
  <2> QED
    BY <2>1, <2>2, <2>4, <2>5, <2>6, <2>7, <2>8 DEF Stages
<1>7. OldestLive(k)
  <2>1. \A j \in DOMAIN rows : j \in Nat
    BY <1>0, SeqDomain DEF TypeOK
  <2> QED
    BY <1>r, <1>1, <1>2, <2>1 DEF IsRecipeTurn, OldestLive, Live
<1>8. RowsOK' /\ TurnsOK' /\ OneUnderWay'
  BY <1>0, <1>1 DEF RowsOK, TurnsOK, OneUnderWay, Under
<1>9. GensOK'
  BY <1>0, <1>1, GensKept DEF TypeOK
<1>10. RunsOK'
  <2>1. \A n \in DOMAIN runs :
           Committing(runs[n].row) => Committing(runs[n].row)'
    BY <1>1, <1>5 DEF Committing
  <2> QED
    BY <1>0, <1>1, <2>1 DEF RunsOK
<1>11. ThreadsOK'
  <2>1. ASSUME NEW u \in Threads, u # t PROVE ThreadFits(u)'
    BY <1>0, <1>1, <1>5, <2>1 DEF ThreadsOK, ThreadFits, OldestLive
  <2>2. ThreadFits(t)'
    <3>1. OldestLive(adv[t].row)'
      BY <1>1, <1>4, <1>5, <1>7 DEF OldestLive
    <3>2. a.pc \notin Opened \cup {"idle"}
      BY <1>3, <1>4 DEF Opened
    <3> QED
      BY <1>r, <1>1, <1>2, <1>4, <1>5, <1>6, <3>1, <3>2 DEF ThreadFits
  <2>3. LocksOK'
    BY <1>0, <1>1, <1>4, <1>5 DEF ThreadsOK, LocksOK
  <2> QED
    BY <2>1, <2>2, <2>3 DEF ThreadsOK
<1> QED
  BY <1>5, <1>8, <1>9, <1>10, <1>11 DEF Chain

LEMMA IdleType == Idle \in AdvanceType
BY DEF Idle, AdvanceType, Pcs, Codes

(* The end of a stopped row is remembered as notified.                     *)
LEMMA NotifyKeeps ==
    ASSUME IInv, NEW t \in Threads, Notify(t)
    PROVE  /\ Chain' /\ adv' \in [Threads -> AdvanceType]
           /\ rows' \in Seq(GenerationType)
<1>0. TypeOK /\ RowsOK /\ TurnsOK /\ GensOK /\ RunsOK /\ ThreadsOK /\ OneUnderWay
  BY DEF IInv
<1>c. PICK k : k = adv[t].row
  OBVIOUS
<1>1. /\ adv[t].pc = "notify" /\ adv' = [adv EXCEPT ![t] = Idle]
      /\ rows' = [rows EXCEPT ![k] = MarkNotified(rows[k])]
      /\ UNCHANGED <<runs, phase>>
  BY <1>c DEF Notify, At, Store, Return, Row, world
<1>2. ThreadFits(t)
  BY <1>0 DEF ThreadsOK
<1>3. k \in DOMAIN rows /\ k # 0 /\ ~ Live(rows[k])
  BY <1>c, <1>1, <1>2 DEF ThreadFits, PcFits, Live
<1>4. /\ Sane(rows[k]) /\ rows[k] \in GenerationType /\ RowFits(k, rows[k], runs)
  BY <1>0, <1>3 DEF RowsOK, Sane
<1>5. /\ Sane(MarkNotified(rows[k])) /\ Moved(rows[k], MarkNotified(rows[k]))
      /\ SameLinks(rows[k], MarkNotified(rows[k]))
      /\ MarkNotified(rows[k]).state = rows[k].state
      /\ MarkNotified(rows[k]).stage = rows[k].stage
  BY <1>3, <1>4, NotifyFits
<1>6. /\ rows' \in Seq(GenerationType) /\ DOMAIN rows' = DOMAIN rows
      /\ Len(rows') = Len(rows) /\ rows'[k] = MarkNotified(rows[k])
      /\ \A j \in DOMAIN rows : j # k => rows'[j] = rows[j]
  <2>1. MarkNotified(rows[k]) \in GenerationType
    BY <1>5 DEF Sane
  <2> QED
    BY <1>0, <1>1, <1>3, <2>1 DEF TypeOK
<1>7. adv' \in [Threads -> AdvanceType] /\ adv'[t] = Idle
      /\ \A u \in Threads : u # t => adv'[u] = adv[u]
  BY <1>0, <1>1, IdleType DEF TypeOK
<1>8. \A j \in DOMAIN rows :
         /\ rows'[j].state = rows[j].state /\ rows'[j].stage = rows[j].stage
         /\ SameLinks(rows[j], rows'[j]) /\ Moved(rows[j], rows'[j])
  BY <1>5, <1>6 DEF SameLinks, Moved
<1>9. RowsOK'
  <2>1. RowFits(k, rows'[k], runs)
    BY <1>3, <1>4, <1>8 DEF RowFits, SameLinks, Moved
  <2> QED
    BY <1>0, <1>1, <1>5, <1>6, <2>1 DEF RowsOK
<1>10. TurnsOK' /\ OneUnderWay'
  <2>1. TurnsOK'
    BY <1>0, <1>6, <1>8 DEF TurnsOK, SameLinks
  <2>2. \A n \in DOMAIN runs : runs[n].row # 0 => (Under(n)' => Under(n))
    BY <1>0, <1>1, <1>8 DEF Under, Live, RunsOK
  <2> QED
    BY <1>0, <1>1, <2>1, <2>2 DEF OneUnderWay
<1>11. GensOK'
  BY <1>0, <1>6, <1>8, GensKept DEF Moved
<1>12. RunsOK'
  <2>1. \A n \in DOMAIN runs :
           Committing(runs[n].row) => Committing(runs[n].row)'
    BY <1>1, <1>7 DEF Committing
  <2>2. \A n \in DOMAIN runs : runs[n].row # 0 =>
           runs[n].row \in DOMAIN rows' /\ rows'[runs[n].row].pre = n
    BY <1>0, <1>6, <1>8 DEF RunsOK, SameLinks
  <2> QED
    BY <1>0, <1>1, <2>1, <2>2 DEF RunsOK
<1>13. ThreadsOK'
  <2>1. ASSUME NEW u \in Threads, u # t PROVE ThreadFits(u)'
    <3>1. ThreadFits(u) /\ adv'[u] = adv[u]
      BY <1>0, <1>7, <2>1 DEF ThreadsOK
    <3>2. adv[u].row # k
      BY <1>0, <1>c, <1>3, <2>1 DEF ThreadsOK, LocksOK
    <3>3. adv[u].row # 0 => PcFits(adv[u], rows'[adv[u].row], runs)
      BY <1>6, <3>1, <3>2 DEF ThreadFits
    <3>4. OldestLive(adv[u].row) => OldestLive(adv[u].row)'
      BY <1>6, <1>8, <3>1 DEF OldestLive
    <3> QED
      BY <1>1, <1>6, <3>1, <3>3, <3>4 DEF ThreadFits
  <2>2. ThreadFits(t)'
    BY <1>7 DEF ThreadFits, Idle, Opened
  <2>3. LocksOK'
    BY <1>0, <1>7 DEF ThreadsOK, LocksOK, Idle
  <2> QED
    BY <2>1, <2>2, <2>3 DEF ThreadsOK
<1> QED
  BY <1>6, <1>7, <1>9, <1>10, <1>11, <1>12, <1>13 DEF Chain

-----------------------------------------------------------------------------
(* The ways a step of a thread ends: the row is stored or left, and the    *)
(* thread goes on, concludes or returns.                                   *)

Stores(t, row) ==
    \/ Store(t, row)
    \/ row = Row(t) /\ UNCHANGED rows

LEMMA StoresWorks ==
    ASSUME IInv, NEW t \in Threads, adv[t].pc \notin {"idle", "notify"},
           NEW row, Sane(row), Moved(Row(t), row), Stores(t, row)
    PROVE  RowWorks(t) /\ rows'[adv[t].row] = row
<1>1. rows \in Seq(GenerationType) /\ adv[t].row \in DOMAIN rows
      /\ row \in GenerationType
  BY WorkFacts DEF IInv, TypeOK, Sane
<1>2. rows' = [rows EXCEPT ![adv[t].row] = row]
  BY <1>1 DEF Stores, Store, Row
<1>3. /\ rows' \in Seq(GenerationType) /\ DOMAIN rows' = DOMAIN rows
      /\ Len(rows') = Len(rows) /\ rows'[adv[t].row] = row
      /\ \A j \in DOMAIN rows : j # adv[t].row => rows'[j] = rows[j]
  BY <1>1, <1>2
<1> QED
  BY <1>3 DEF RowWorks, Row

LEMMA SameRuns ==
    ASSUME IInv, NEW t \in Threads, UNCHANGED runs,
           adv[t].pc \notin {"idle", "notify", "commit"}
    PROVE  RunWorks(t)
<1>1. RunsOK /\ TypeOK /\ LocksOK /\ phase # "down" /\ adv[t].row # 0
      /\ RowFits(adv[t].row, Row(t), runs)
  BY WorkFacts DEF IInv, ThreadsOK
<1>2. runs \in Seq(RunType)
  BY <1>1 DEF TypeOK
<1>3. ASSUME NEW n \in DOMAIN runs, n = Row(t).pre, runs[n].status = "partial"
      PROVE  phase = "blocked"
  <2>1. n # 0
    BY <1>1, SeqDomain DEF TypeOK
  <2>2. runs[n].row = adv[t].row
    BY <1>1, <1>3, <2>1 DEF RowFits
  <2>3. ~ Committing(runs[n].row)
    BY <1>1, <2>2 DEF Committing, LocksOK
  <2> QED
    BY <1>1, <1>3, <2>3 DEF RunsOK
<1>4. \A n \in DOMAIN runs :
         \A v \in DOMAIN runs[n].vals : runs[n].vals[v].row = runs[n].row
  BY <1>1 DEF RunsOK
<1> QED
  BY <1>2, <1>3, <1>4 DEF RunWorks, Row

(* The Run of the row is changed, and no other.                            *)
RunBecomes(t, r) == runs' = [runs EXCEPT ![Row(t).pre] = r]

LEMMA RunSet ==
    ASSUME IInv, NEW t \in Threads, adv[t].pc \notin {"idle", "notify"},
           Row(t).pre # 0, NEW r \in RunType,
           RunBecomes(t, r),
           r.row = runs[Row(t).pre].row, r.id = runs[Row(t).pre].id,
           r.mode = runs[Row(t).pre].mode,
           \A v \in DOMAIN r.vals : r.vals[v].row = runs[Row(t).pre].row,
           r.status = "partial" => adv'[t].pc = "commit"
    PROVE  RunWorks(t) /\ runs'[Row(t).pre] = r /\ DOMAIN runs' = DOMAIN runs
<1>1. runs \in Seq(RunType) /\ Row(t).pre \in DOMAIN runs
  BY WorkFacts DEF IInv, TypeOK
<1>2. /\ runs' \in Seq(RunType) /\ DOMAIN runs' = DOMAIN runs
      /\ runs'[Row(t).pre] = r
      /\ \A n \in DOMAIN runs : n # Row(t).pre => runs'[n] = runs[n]
  BY <1>1 DEF RunBecomes
<1> QED
  BY <1>2 DEF RunWorks, Row

LEMMA Goes ==
    ASSUME IInv, NEW t \in Threads, adv[t].pc \notin {"idle", "notify"},
           NEW pc \in Pcs \ {"idle"}, Go(t, pc),
           phase = "blocked" => pc \notin Opened,
           PcFits([adv[t] EXCEPT !.pc = pc], rows'[adv[t].row], runs')
    PROVE  PlaceWorks(t) /\ adv'[t].pc = pc
<1> DEFINE a == [adv[t] EXCEPT !.pc = pc]
<1>1. adv \in [Threads -> AdvanceType] /\ adv[t] \in AdvanceType
  BY DEF IInv, TypeOK
<1>2. a \in AdvanceType /\ a.row = adv[t].row /\ a.pc = pc
  BY <1>1 DEF AdvanceType
<1>3. adv' = [adv EXCEPT ![t] = a]
  BY <1>1 DEF Go
<1>4. PcFits(a, rows'[adv[t].row], runs')
  OBVIOUS
<1> HIDE DEF a
<1>5. /\ adv' \in [Threads -> AdvanceType] /\ adv'[t] = a
      /\ \A u \in Threads : u # t => adv'[u] = adv[u]
  BY <1>1, <1>2, <1>3
<1> QED
  BY <1>2, <1>4, <1>5 DEF PlaceWorks

LEMMA Returns ==
    ASSUME IInv, NEW t \in Threads, Return(t)
    PROVE  PlaceWorks(t)
<1>1. adv \in [Threads -> AdvanceType] /\ Idle \in AdvanceType
  BY IdleType DEF IInv, TypeOK
<1>2. /\ adv' \in [Threads -> AdvanceType] /\ adv'[t] = Idle
      /\ \A u \in Threads : u # t => adv'[u] = adv[u]
  BY <1>1 DEF Return
<1> QED
  BY <1>2 DEF PlaceWorks

LEMMA Concludes ==
    ASSUME IInv, NEW t \in Threads, adv[t].pc \notin {"idle", "notify"},
           NEW cls \in Verdicts, NEW code \in Codes, Conclude(t, cls, code),
           Live(rows'[adv[t].row]), Moved(Row(t), rows'[adv[t].row])
    PROVE  PlaceWorks(t) /\ adv'[t].pc = "finish"
<1> DEFINE a == [adv[t] EXCEPT !.pc = "finish", !.cls = cls, !.code = code]
<1>1. /\ adv \in [Threads -> AdvanceType] /\ adv[t] \in AdvanceType
      /\ adv[t].existing => Row(t).run # 0
  BY WorkFacts DEF IInv, TypeOK, PcFits
<1>2. /\ a \in AdvanceType /\ a.row = adv[t].row /\ a.pc = "finish"
      /\ a.cls = cls /\ a.existing = adv[t].existing
  BY <1>1 DEF AdvanceType, Pcs
<1>3. adv' = [adv EXCEPT ![t] = a]
  BY <1>1 DEF Conclude
<1> HIDE DEF a
<1>4. /\ adv' \in [Threads -> AdvanceType] /\ adv'[t] = a
      /\ \A u \in Threads : u # t => adv'[u] = adv[u]
  BY <1>1, <1>2, <1>3
<1>5. a.existing => rows'[adv[t].row].run # 0
  BY <1>1, <1>2 DEF Moved
<1>6. PcFits(a, rows'[adv[t].row], runs')
  BY <1>2, <1>5 DEF PcFits, Admitting, Live
<1> QED
  BY <1>2, <1>4, <1>6 DEF PlaceWorks, Opened

LEMMA StaysFit ==
    ASSUME NEW k, NEW row, NEW new, NEW rs, RowFits(k, row, rs),
           Moved(row, new), SameLinks(row, new),
           \/ new.stage = row.stage
           \/ new.stage \notin {"validation", "publication"}
    PROVE  RowFits(k, new, rs)
BY DEF RowFits, Moved, SameLinks

LEMMA StaysMoved == ASSUME NEW row PROVE Moved(row, row) /\ SameLinks(row, row)
BY DEF Moved, SameLinks

(* A step that leaves the row and the Run: it returns, concludes or goes on*)
(* to another step.                                                        *)
LEMMA LeavesWork ==
    ASSUME IInv, NEW t \in Threads,
           adv[t].pc \notin {"idle", "notify", "commit"},
           UNCHANGED <<rows, runs, phase>>, PlaceWorks(t)
    PROVE  Works(t)
<1>1. Sane(Row(t)) /\ RowFits(adv[t].row, Row(t), runs)
  BY WorkFacts
<1>2. Stores(t, Row(t)) /\ Moved(Row(t), Row(t))
  BY StaysMoved DEF Stores
<1>3. RowWorks(t)
  BY <1>1, <1>2, StoresWorks
<1> QED
  BY <1>1, <1>3, SameRuns DEF Works, Row

LEMMA StoresWork ==
    ASSUME IInv, NEW t \in Threads,
           adv[t].pc \notin {"idle", "notify", "commit"},
           NEW row, Sane(row), Moved(Row(t), row), row.pre = Row(t).pre,
           RowFits(adv[t].row, row, runs), Stores(t, row),
           UNCHANGED <<runs, phase>>, PlaceWorks(t)
    PROVE  Works(t)
<1>1. RowWorks(t) /\ rows'[adv[t].row] = row
  BY StoresWorks
<1> QED
  BY <1>1, SameRuns DEF Works, Row

LEMMA GivesUp ==
    ASSUME IInv, NEW t \in Threads,
           adv[t].pc \notin {"idle", "notify", "commit"},
           UNCHANGED <<rows, runs, phase>>, Return(t)
    PROVE  Works(t)
BY Returns, LeavesWork

LEMMA Decides ==
    ASSUME IInv, NEW t \in Threads,
           adv[t].pc \notin {"idle", "notify", "commit"},
           NEW cls \in Verdicts, NEW code \in Codes,
           NEW row, Sane(row), Live(row), Moved(Row(t), row),
           row.pre = Row(t).pre, RowFits(adv[t].row, row, runs),
           Stores(t, row), UNCHANGED <<runs, phase>>, Conclude(t, cls, code)
    PROVE  Works(t)
<1>1. rows'[adv[t].row] = row
  BY StoresWorks
<1>2. PlaceWorks(t)
  BY <1>1, Concludes
<1> QED
  BY <1>2, StoresWork

LEMMA DecidesNow ==
    ASSUME IInv, NEW t \in Threads,
           adv[t].pc \notin {"idle", "notify", "commit"},
           NEW cls \in Verdicts, NEW code \in Codes,
           UNCHANGED <<rows, runs, phase>>, Conclude(t, cls, code)
    PROVE  Works(t)
<1>1. Sane(Row(t)) /\ Live(Row(t)) /\ RowFits(adv[t].row, Row(t), runs)
  BY WorkFacts
<1>2. Stores(t, Row(t)) /\ Moved(Row(t), Row(t))
  BY StaysMoved DEF Stores
<1> QED
  BY <1>1, <1>2, Decides

LEMMA Delays ==
    ASSUME IInv, NEW t \in Threads,
           adv[t].pc \notin {"idle", "notify", "commit"},
           NEW row, Sane(row), Live(row), Moved(Row(t), row),
           row.pre = Row(t).pre, row.pre # 0, RowFits(adv[t].row, row, runs),
           Store(t, ScheduleRetry(row)), Return(t), UNCHANGED <<runs, phase>>
    PROVE  Works(t)
<1> DEFINE new == ScheduleRetry(row)
<1>1. /\ Sane(new) /\ Moved(row, new) /\ SameLinks(row, new)
      /\ new.stage = row.stage
  BY RetryFits
<1> HIDE DEF new
<1>2. RowFits(adv[t].row, new, runs)
  BY <1>1, StaysFit
<1>3. Moved(Row(t), new) /\ new.pre = Row(t).pre
  BY <1>1 DEF Moved, SameLinks
<1>4. Stores(t, new)
  BY DEF Stores, new
<1> QED
  BY <1>1, <1>2, <1>3, <1>4, Returns, StoresWork

LEMMA FailsWork ==
    ASSUME IInv, NEW t \in Threads,
           adv[t].pc \notin {"idle", "notify", "commit"},
           Row(t).pre # 0, AdmissionFails(t), UNCHANGED <<runs, phase>>
    PROVE  Works(t)
<1>1. Sane(Row(t)) /\ Live(Row(t)) /\ RowFits(adv[t].row, Row(t), runs)
      /\ Moved(Row(t), Row(t))
  BY WorkFacts, StaysMoved
<1>2. CASE ~Open /\ Return(t) /\ UNCHANGED rows
  BY <1>2, GivesUp
<1>3. CASE Store(t, ScheduleRetry(Row(t))) /\ Return(t)
  BY <1>1, <1>3, Delays
<1>4. CASE UNCHANGED rows /\ Conclude(t, "terminal_failure", "none")
  BY <1>4, DecidesNow DEF Verdicts, Codes
<1> QED
  BY <1>2, <1>3, <1>4 DEF AdmissionFails

(* The record of a thread that goes on to another step.                    *)
LEMMA Place ==
    ASSUME NEW a \in AdvanceType, NEW pc
    PROVE  LET b == [a EXCEPT !.pc = pc]
           IN  /\ b.pc = pc /\ b.existing = a.existing /\ b.out = a.out
               /\ b.cls = a.cls /\ b.row = a.row
BY DEF AdvanceType

LEMMA GoesOn ==
    ASSUME IInv, NEW t \in Threads,
           adv[t].pc \notin {"idle", "notify", "commit"},
           NEW pc \in Pcs \ {"idle"}, Go(t, pc),
           phase = "blocked" => pc \notin Opened,
           NEW row, Sane(row), Moved(Row(t), row), row.pre = Row(t).pre,
           RowFits(adv[t].row, row, runs), Stores(t, row),
           PcFits([adv[t] EXCEPT !.pc = pc], row, runs),
           UNCHANGED <<runs, phase>>
    PROVE  Works(t)
<1>1. rows'[adv[t].row] = row
  BY StoresWorks
<1>2. PlaceWorks(t)
  BY <1>1, Goes
<1> QED
  BY <1>2, StoresWork

-----------------------------------------------------------------------------
(* Each step of a thread that has a row.                                   *)

LEMMA AuthorizeWorks ==
    ASSUME IInv, NEW t \in Threads, Authorize(t)
    PROVE  Works(t)
<1>1. adv[t].pc = "authorize" /\ UNCHANGED <<rows, runs, phase>>
  BY DEF Authorize, At, world
<1>2. /\ Sane(Row(t)) /\ Live(Row(t)) /\ RowFits(adv[t].row, Row(t), runs)
      /\ PcFits(adv[t], Row(t), runs) /\ adv[t] \in AdvanceType
      /\ Moved(Row(t), Row(t)) /\ Stores(t, Row(t))
  BY <1>1, WorkFacts, StaysMoved DEF Stores
<1>3. CASE Return(t)
  BY <1>1, <1>3, GivesUp
<1>4. CASE Conclude(t, "disabled", "final")
  BY <1>1, <1>4, DecidesNow DEF Verdicts, Codes
<1>5. CASE Open /\ Go(t, "reserve")
  <2>1. PcFits([adv[t] EXCEPT !.pc = "reserve"], Row(t), runs)
    BY <1>1, <1>2, Place DEF PcFits, Admitting
  <2> QED
    BY <1>1, <1>2, <1>5, <2>1, GoesOn DEF Pcs, Open
<1> QED
  <2>1. Return(t) \/ Conclude(t, "disabled", "final") \/ (Open /\ Go(t, "reserve"))
    BY DEF Authorize
  <2> QED
    BY <1>3, <1>4, <1>5, <2>1

LEMMA ReserveWorks ==
    ASSUME IInv, NEW t \in Threads, Reserve(t)
    PROVE  \/ Works(t)
           \/ Chain' /\ rows' \in Seq(GenerationType) /\ runs' \in Seq(RunType)
                     /\ adv' \in [Threads -> AdvanceType]
<1>1. adv[t].pc = "reserve" /\ phase' = phase
  BY DEF Reserve, At, world
<1>2. /\ Sane(Row(t)) /\ Live(Row(t)) /\ RowFits(adv[t].row, Row(t), runs)
      /\ PcFits(adv[t], Row(t), runs) /\ adv[t] \in AdvanceType
      /\ Moved(Row(t), Row(t)) /\ phase # "blocked" /\ phase # "down"
      /\ TypeOK /\ adv[t].row \in DOMAIN rows /\ adv[t].row \in Nat
      /\ Row(t) \in GenerationType
  BY <1>1, WorkFacts, StaysMoved DEF Opened, IInv
<1>3. CASE ~Open /\ Return(t) /\ UNCHANGED <<rows, runs>>
  BY <1>1, <1>3, GivesUp
<1>4. CASE Conclude(t, "success", "owned") /\ UNCHANGED <<rows, runs>>
  BY <1>1, <1>4, DecidesNow DEF Verdicts, Codes
<1>5. CASE /\ Open /\ ~OwnedIdentity(Row(t)) /\ Row(t).pre = 0
           /\ Store(t, PreallocateRun(Row(t), Len(runs) + 1))
           /\ runs' = Append(runs,
                [row |-> adv[t].row, id |-> Row(t).id, doc |-> Row(t).doc,
                 mode |-> IF PolicyOf[Row(t).doc] = "test" THEN "dry_run"
                          ELSE "build",
                 status |-> "absent", vals |-> <<>>, pubs |-> <<>>])
           /\ Go(t, "recheck")
  <2>1. PICK new : new =
                [row |-> adv[t].row, id |-> Row(t).id, doc |-> Row(t).doc,
                 mode |-> IF PolicyOf[Row(t).doc] = "test" THEN "dry_run"
                          ELSE "build",
                 status |-> "absent", vals |-> <<>>, pubs |-> <<>>]
    OBVIOUS
  <2>2. PICK row : row = PreallocateRun(Row(t), Len(runs) + 1)
    OBVIOUS
  <2>3. /\ new.row = adv[t].row /\ new.id = Row(t).id /\ new.doc = Row(t).doc
        /\ new.mode = Mode(Row(t).doc) /\ new.status = "absent"
        /\ new.vals = <<>>
    BY <2>1 DEF Mode
  <2>4. new \in RunType
    <3>1. /\ Row(t).id \in Identities /\ Row(t).doc \in Documents
      BY <1>2 DEF GenerationType
    <3> QED
      BY <1>2, <2>1, <3>1 DEF RunType
  <2>5. row \in GenerationType
    <3>1. Len(runs) + 1 \in Nat \ {0}
      BY <1>2 DEF TypeOK
    <3> QED
      BY <1>2, <1>5, <2>2, <3>1, PreallocateFits DEF Sane
  <2>6. /\ rows' \in Seq(GenerationType) /\ DOMAIN rows' = DOMAIN rows
        /\ Len(rows') = Len(rows) /\ rows'[adv[t].row] = row
        /\ \A j \in DOMAIN rows : j # adv[t].row => rows'[j] = rows[j]
    BY <1>2, <1>5, <2>2, <2>5 DEF Store, TypeOK
  <2>7. /\ adv' = [adv EXCEPT ![t] = [adv[t] EXCEPT !.pc = "recheck"]]
        /\ [adv[t] EXCEPT !.pc = "recheck"] \in AdvanceType
    BY <1>2, <1>5 DEF Go, AdvanceType, Pcs, TypeOK
  <2>8. /\ adv' \in [Threads -> AdvanceType]
        /\ \A u \in Threads : u # t => adv'[u] = adv[u]
        /\ adv'[t] = [adv[t] EXCEPT !.pc = "recheck"]
    BY <1>2, <2>7 DEF TypeOK
  <2>9. /\ adv'[t].row = adv[t].row /\ adv'[t].pc = "recheck"
        /\ adv'[t].existing = adv[t].existing
    BY <1>2, <2>8, Place
  <2>10. runs' = Append(runs, new)
    BY <1>5, <2>1
  <2>11. runs' \in Seq(RunType)
    BY <1>2, <2>4, <2>10, RunAppended
  <2> QED
    BY <1>1, <1>5, <2>2, <2>3, <2>4, <2>6, <2>8, <2>9, <2>10, <2>11, ReserveKeeps
<1>6. CASE /\ Open /\ Row(t).pre # 0
           /\ Store(t, IF runs[Row(t).pre].status = "absent" THEN Row(t)
                       ELSE LinkRun(Row(t)))
           /\ Go(t, "recheck")
           /\ UNCHANGED runs
  <2>1. PICK row : row = IF runs[Row(t).pre].status = "absent" THEN Row(t)
                         ELSE LinkRun(Row(t))
    OBVIOUS
  <2>2. /\ Sane(row) /\ Moved(Row(t), row) /\ row.pre = Row(t).pre
        /\ Live(row) /\ (row.run = 0 \/ row.stage = "run")
        /\ RowFits(adv[t].row, row, runs)
    <3>1. CASE row = Row(t)
      BY <1>1, <1>2, <3>1 DEF PcFits, Admitting
    <3>2. CASE row # Row(t)
      <4>1. row = LinkRun(Row(t)) /\ runs[Row(t).pre].status # "absent"
        BY <2>1, <3>2
      <4>2. /\ Sane(row) /\ Moved(Row(t), row) /\ Live(row)
            /\ row.pre = Row(t).pre /\ row.run = Row(t).pre
            /\ row.stage = "run" /\ row.val = 0 /\ row.pub = 0
        BY <1>2, <1>6, <3>2, <4>1, LinkFits
      <4>3. Row(t).pre \in DOMAIN runs /\ runs[Row(t).pre] \in RunType
            /\ runs[Row(t).pre].row = adv[t].row
        BY <1>2, <1>6, SeqDomain DEF RowFits, TypeOK
      <4>4. runs[Row(t).pre].status # "partial"
        <5>1. ~ Committing(adv[t].row)
          BY <1>1, <1>2, WorkFacts DEF Committing, IInv, ThreadsOK, LocksOK
        <5> QED
          BY <1>2, <4>3, <5>1 DEF IInv, RunsOK
      <4>5. /\ runs[Row(t).pre].vals \in Seq(AttemptType)
            /\ runs[Row(t).pre].pubs \in Seq({"success", "transient", "blocked"})
        BY <4>3 DEF RunType
      <4>6. RowFits(adv[t].row, row, runs)
        BY <1>2, <1>6, <4>1, <4>2, <4>4, <4>5 DEF RowFits, Moved
      <4> QED
        BY <4>2, <4>6
    <3> QED
      BY <3>1, <3>2
  <2>3. PcFits([adv[t] EXCEPT !.pc = "recheck"], row, runs)
    <3>1. adv[t].existing => row.run # 0
      BY <1>2, <2>2 DEF PcFits, Moved
    <3> QED
      BY <1>2, <1>6, <2>2, <3>1, Place DEF PcFits, Admitting, Live
  <2>4. Stores(t, row)
    BY <1>6, <2>1 DEF Stores
  <2> QED
    BY <1>1, <1>2, <1>6, <2>2, <2>3, <2>4, GoesOn DEF Pcs
<1> QED
  BY <1>3, <1>4, <1>5, <1>6 DEF Reserve

(* A Run whose fields are kept but for its status or its document.         *)
LEMMA StatusSet ==
    ASSUME NEW r \in RunType, NEW s, NEW status,
           status \in {"absent", "partial"} \cup LiveRun \cup TerminalRun,
           s = [r EXCEPT !.status = status]
    PROVE  /\ s \in RunType /\ s.row = r.row /\ s.id = r.id
           /\ s.mode = r.mode /\ s.doc = r.doc /\ s.vals = r.vals
           /\ s.pubs = r.pubs /\ s.status = status
BY DEF RunType

LEMMA DocumentSet ==
    ASSUME NEW r \in RunType, NEW s, NEW doc \in Documents,
           s = [r EXCEPT !.doc = doc]
    PROVE  /\ s \in RunType /\ s.row = r.row /\ s.id = r.id
           /\ s.mode = r.mode /\ s.doc = doc /\ s.vals = r.vals
           /\ s.pubs = r.pubs /\ s.status = r.status
BY DEF RunType

LEMMA PreFacts ==
    ASSUME IInv, NEW t \in Threads, adv[t].pc \notin {"idle", "notify"},
           Row(t).pre # 0
    PROVE  /\ Row(t).pre \in DOMAIN runs /\ runs[Row(t).pre] \in RunType
           /\ runs[Row(t).pre].row = adv[t].row
           /\ runs[Row(t).pre].doc = Row(t).doc
           /\ \A v \in DOMAIN runs[Row(t).pre].vals :
                 runs[Row(t).pre].vals[v].row = runs[Row(t).pre].row
           /\ runs[Row(t).pre].vals \in Seq(AttemptType)
           /\ runs[Row(t).pre].pubs \in Seq({"success", "transient", "blocked"})
           /\ runs[Row(t).pre].status = "partial" =>
                 phase = "blocked" \/ adv[t].pc = "commit"
<1>1. /\ Row(t).pre \in DOMAIN runs /\ runs \in Seq(RunType) /\ phase # "down"
      /\ runs[Row(t).pre].row = adv[t].row /\ adv[t].row # 0
      /\ runs[Row(t).pre].doc = Row(t).doc
  BY WorkFacts DEF IInv, TypeOK, RowFits
<1>2. runs[Row(t).pre] \in RunType
  BY <1>1, SeqDomain
<1>3. Committing(adv[t].row) => adv[t].pc = "commit"
  BY <1>1 DEF Committing, IInv, ThreadsOK, LocksOK
<1>4. /\ \A v \in DOMAIN runs[Row(t).pre].vals :
            runs[Row(t).pre].vals[v].row = runs[Row(t).pre].row
      /\ runs[Row(t).pre].status = "partial" =>
            phase = "blocked" \/ Committing(adv[t].row)
  BY <1>1 DEF IInv, RunsOK
<1>5. /\ runs[Row(t).pre].vals \in Seq(AttemptType)
      /\ runs[Row(t).pre].pubs \in Seq({"success", "transient", "blocked"})
  BY <1>2 DEF RunType
<1> QED
  BY <1>1, <1>2, <1>3, <1>4, <1>5

LEMMA RecheckWorks ==
    ASSUME IInv, NEW t \in Threads, Recheck(t)
    PROVE  Works(t)
<1>1. adv[t].pc = "recheck" /\ UNCHANGED <<rows, phase>>
  BY DEF Recheck, At, world
<1>2. /\ Sane(Row(t)) /\ RowFits(adv[t].row, Row(t), runs)
      /\ PcFits(adv[t], Row(t), runs) /\ adv[t] \in AdvanceType
      /\ Moved(Row(t), Row(t)) /\ Stores(t, Row(t)) /\ phase # "blocked"
      /\ Row(t).run # 0 => Row(t).run = Row(t).pre
      /\ recipe \in Documents /\ runs \in Seq(RunType)
  BY <1>1, WorkFacts, StaysMoved DEF Stores, Opened, IInv, TypeOK
<1>3. Row(t).pre # 0
  BY <1>1, <1>2 DEF PcFits, Admitting
<1>4. RowWorks(t) /\ rows'[adv[t].row] = Row(t)
  BY <1>1, <1>2, StoresWorks
<1>5. CASE Conclude(t, "disabled", "final") /\ UNCHANGED runs
  BY <1>1, <1>5, DecidesNow DEF Verdicts, Codes
<1>6. CASE UNCHANGED runs /\ Go(t, "create")
  <2>1. PcFits([adv[t] EXCEPT !.pc = "create"], Row(t), runs)
    BY <1>1, <1>2, Place DEF PcFits, Admitting
  <2> QED
    BY <1>1, <1>2, <1>6, <2>1, GoesOn DEF Pcs
<1>7. CASE /\ runs[Row(t).pre].status = "absent"
           /\ runs' = [runs EXCEPT ![Row(t).pre].doc = recipe]
           /\ Go(t, "create")
           /\ IF adv[t].existing
              THEN DownstreamAuthorized(PolicyOf[Row(t).doc])
              ELSE InitialAuthorized(Row(t))
  <2>1. Row(t).run = 0 /\ ~ adv[t].existing
    BY <1>2, <1>7 DEF RowFits, PcFits
  <2>2. recipe = Row(t).doc
    BY <1>7, <2>1 DEF InitialAuthorized
  <2> DEFINE r == [runs[Row(t).pre] EXCEPT !.doc = recipe]
  <2>3. runs[Row(t).pre] \in RunType
    BY <1>1, <1>3, PreFacts
  <2>4. /\ r \in RunType /\ r.row = runs[Row(t).pre].row
        /\ r.id = runs[Row(t).pre].id /\ r.mode = runs[Row(t).pre].mode
        /\ r.doc = Row(t).doc /\ r.vals = runs[Row(t).pre].vals
        /\ r.status = "absent"
    BY <1>2, <1>7, <2>2, <2>3, DocumentSet
  <2>5. RunBecomes(t, r)
    BY <1>7 DEF RunBecomes
  <2> HIDE DEF r
  <2>6. RunWorks(t) /\ runs'[Row(t).pre] = r /\ DOMAIN runs' = DOMAIN runs
    BY <1>1, <1>3, <2>4, <2>5, PreFacts, RunSet
  <2>7. RowFits(adv[t].row, Row(t), runs')
    BY <1>2, <1>3, <2>1, <2>4, <2>6 DEF RowFits
  <2>8. PcFits([adv[t] EXCEPT !.pc = "create"], Row(t), runs')
    BY <1>1, <1>2, Place DEF PcFits, Admitting
  <2>9. PlaceWorks(t)
    BY <1>1, <1>2, <1>4, <1>7, <2>8, Goes DEF Pcs
  <2> QED
    BY <1>1, <1>4, <2>6, <2>7, <2>9 DEF Works, Row
<1> QED
  BY <1>5, <1>6, <1>7 DEF Recheck

LEMMA CreateRunWorks ==
    ASSUME IInv, NEW t \in Threads, CreateRun(t)
    PROVE  Works(t)
<1>1. adv[t].pc = "create" /\ UNCHANGED phase
  BY DEF CreateRun, At, world
<1>2. /\ Sane(Row(t)) /\ RowFits(adv[t].row, Row(t), runs)
      /\ PcFits(adv[t], Row(t), runs) /\ adv[t] \in AdvanceType
      /\ Moved(Row(t), Row(t)) /\ phase # "blocked"
      /\ Row(t).run # 0 => Row(t).run = Row(t).pre
      /\ runs \in Seq(RunType)
  BY <1>1, WorkFacts, StaysMoved DEF Opened, IInv, TypeOK
<1>3. Row(t).pre # 0
  BY <1>1, <1>2 DEF PcFits, Admitting
<1>4. CASE /\ runs[Row(t).pre].status = "absent"
           /\ SetRun(Row(t).pre, "partial") /\ Go(t, "commit")
           /\ UNCHANGED rows
  <2>1. Row(t).run = 0 /\ ~ adv[t].existing
    BY <1>2, <1>4 DEF RowFits, PcFits
  <2>2. RowWorks(t) /\ rows'[adv[t].row] = Row(t)
    BY <1>1, <1>2, <1>4, StoresWorks DEF Stores
  <2> DEFINE r == [runs[Row(t).pre] EXCEPT !.status = "partial"]
  <2>3. runs[Row(t).pre] \in RunType
    BY <1>1, <1>3, PreFacts
  <2>4. /\ r \in RunType /\ r.row = runs[Row(t).pre].row
        /\ r.id = runs[Row(t).pre].id /\ r.mode = runs[Row(t).pre].mode
        /\ r.doc = runs[Row(t).pre].doc /\ r.vals = runs[Row(t).pre].vals
        /\ r.status = "partial"
    BY <2>3, StatusSet
  <2>5. RunBecomes(t, r)
    BY <1>4 DEF RunBecomes, SetRun
  <2> HIDE DEF r
  <2>6. runs'[Row(t).pre] = r
    BY <1>1, <1>2, <1>3, <2>5, PreFacts DEF RunBecomes
  <2>7. PcFits([adv[t] EXCEPT !.pc = "commit"], Row(t), runs')
    BY <1>1, <1>2, <1>3, <2>1, <2>4, <2>6, Place DEF PcFits, Admitting
  <2>8. PlaceWorks(t) /\ adv'[t].pc = "commit"
    BY <1>1, <1>2, <1>4, <2>2, <2>7, Goes DEF Pcs
  <2>9. RunWorks(t) /\ DOMAIN runs' = DOMAIN runs
    BY <1>1, <1>3, <2>4, <2>5, <2>8, PreFacts, RunSet
  <2>10. RowFits(adv[t].row, Row(t), runs')
    BY <1>2, <1>3, <2>1, <2>4, <2>6, <2>9 DEF RowFits
  <2> QED
    BY <1>1, <2>2, <2>8, <2>9, <2>10 DEF Works, Row
<1>5. CASE /\ runs[Row(t).pre].status # "absent"
           /\ Go(t, "link") /\ UNCHANGED <<rows, runs>>
  <2>1. runs[Row(t).pre].status # "partial"
    BY <1>1, <1>2, <1>3, PreFacts
  <2>2. PcFits([adv[t] EXCEPT !.pc = "link"], Row(t), runs)
    BY <1>1, <1>2, <1>5, <2>1, Place DEF PcFits, Admitting
  <2> QED
    BY <1>1, <1>2, <1>5, <2>2, GoesOn DEF Pcs, Stores
<1>6. CASE AdmissionFails(t) /\ UNCHANGED runs
  BY <1>1, <1>3, <1>6, FailsWork
<1> QED
  BY <1>4, <1>5, <1>6 DEF CreateRun

LEMMA CommitRunWorks ==
    ASSUME IInv, NEW t \in Threads, CommitRun(t)
    PROVE  Works(t)
<1>1. /\ adv[t].pc = "commit" /\ UNCHANGED <<rows, phase>> /\ Go(t, "link")
      /\ SetRun(Row(t).pre, "pending")
  BY DEF CommitRun, At, world
<1>2. /\ Sane(Row(t)) /\ RowFits(adv[t].row, Row(t), runs)
      /\ PcFits(adv[t], Row(t), runs) /\ adv[t] \in AdvanceType
      /\ Moved(Row(t), Row(t)) /\ phase # "blocked"
      /\ Row(t).run # 0 => Row(t).run = Row(t).pre
      /\ runs \in Seq(RunType)
  BY <1>1, WorkFacts, StaysMoved DEF Opened, IInv, TypeOK
<1>3. Row(t).pre # 0 /\ runs[Row(t).pre].status = "partial"
  BY <1>1, <1>2 DEF PcFits, Admitting
<1>4. Row(t).run = 0 /\ ~ adv[t].existing
  BY <1>2, <1>3 DEF RowFits, PcFits
<1>5. RowWorks(t) /\ rows'[adv[t].row] = Row(t)
  BY <1>1, <1>2, StoresWorks DEF Stores
<1> DEFINE r == [runs[Row(t).pre] EXCEPT !.status = "pending"]
<1>6. runs[Row(t).pre] \in RunType
  BY <1>1, <1>3, PreFacts
<1>7. /\ r \in RunType /\ r.row = runs[Row(t).pre].row
      /\ r.id = runs[Row(t).pre].id /\ r.mode = runs[Row(t).pre].mode
      /\ r.doc = runs[Row(t).pre].doc /\ r.vals = runs[Row(t).pre].vals
      /\ r.status = "pending"
  BY <1>6, StatusSet DEF LiveRun
<1>8. RunBecomes(t, r)
  BY <1>1 DEF RunBecomes, SetRun
<1> HIDE DEF r
<1>9. RunWorks(t) /\ runs'[Row(t).pre] = r /\ DOMAIN runs' = DOMAIN runs
  BY <1>1, <1>3, <1>7, <1>8, PreFacts, RunSet
<1>10. RowFits(adv[t].row, Row(t), runs')
  BY <1>2, <1>3, <1>4, <1>7, <1>9 DEF RowFits
<1>11. PcFits([adv[t] EXCEPT !.pc = "link"], Row(t), runs')
  BY <1>1, <1>2, <1>3, <1>4, <1>7, <1>9, Place DEF PcFits, Admitting
<1>12. PlaceWorks(t)
  BY <1>1, <1>2, <1>5, <1>11, Goes DEF Pcs
<1> QED
  BY <1>1, <1>5, <1>9, <1>10, <1>12 DEF Works, Row

LEMMA CreatedCallbackWorks ==
    ASSUME IInv, NEW t \in Threads, CreatedCallback(t)
    PROVE  Works(t)
<1>1. adv[t].pc = "link" /\ UNCHANGED <<runs, phase>>
      /\ Store(t, LinkRun(Row(t)))
      /\ (Go(t, "submit") \/ Go(t, "linked"))
  BY DEF CreatedCallback, At, world
<1>2. /\ Sane(Row(t)) /\ Live(Row(t)) /\ RowFits(adv[t].row, Row(t), runs)
      /\ PcFits(adv[t], Row(t), runs) /\ adv[t] \in AdvanceType
      /\ phase # "blocked"
  BY <1>1, WorkFacts DEF Opened
<1>3. Row(t).pre # 0 /\ runs[Row(t).pre].status \notin {"absent", "partial"}
      /\ (Row(t).run = 0 \/ Row(t).stage = "run")
  BY <1>1, <1>2 DEF PcFits, Admitting
<1>4. PICK row : row = LinkRun(Row(t))
  OBVIOUS
<1>5. /\ Sane(row) /\ Moved(Row(t), row) /\ Live(row)
      /\ row.pre = Row(t).pre /\ row.run = Row(t).pre /\ row.stage = "run"
      /\ Row(t).run = 0 => row.val = 0 /\ row.pub = 0
      /\ Row(t).run # 0 => row = Row(t)
  BY <1>2, <1>3, <1>4, LinkFits
<1>6. RowFits(adv[t].row, row, runs)
  <2>1. CASE Row(t).run # 0
    BY <1>2, <1>5, <2>1
  <2>2. CASE Row(t).run = 0
    BY <1>1, <1>2, <1>3, <1>5, <2>2, PreFacts DEF RowFits, Moved
  <2> QED
    BY <2>1, <2>2
<1>7. ASSUME NEW pc \in {"submit", "linked"}
      PROVE  PcFits([adv[t] EXCEPT !.pc = pc], row, runs)
  BY <1>2, <1>3, <1>5, Place DEF PcFits, Admitting, Live
<1>8. Stores(t, row)
  BY <1>1, <1>4 DEF Stores
<1>9. CASE Go(t, "submit")
  BY <1>1, <1>2, <1>5, <1>6, <1>7, <1>8, <1>9, GoesOn DEF Pcs
<1>10. CASE Go(t, "linked")
  BY <1>1, <1>2, <1>5, <1>6, <1>7, <1>8, <1>10, GoesOn DEF Pcs
<1> QED
  BY <1>1, <1>9, <1>10

LEMMA SubmitRunWorks ==
    ASSUME IInv, NEW t \in Threads, SubmitRun(t)
    PROVE  Works(t)
<1>1. adv[t].pc = "submit" /\ UNCHANGED phase
  BY DEF SubmitRun, At, world
<1>2. /\ Sane(Row(t)) /\ RowFits(adv[t].row, Row(t), runs)
      /\ PcFits(adv[t], Row(t), runs) /\ adv[t] \in AdvanceType
      /\ Moved(Row(t), Row(t)) /\ phase # "blocked"
      /\ Row(t).run # 0 => Row(t).run = Row(t).pre
  BY <1>1, WorkFacts, StaysMoved DEF Opened
<1>3. Row(t).run # 0 /\ Row(t).run = Row(t).pre /\ Row(t).pre # 0
      /\ Row(t).stage = "run"
  BY <1>1, <1>2 DEF PcFits, Admitting
<1>4. CASE SetRun(Row(t).run, "queued") /\ Go(t, "linked") /\ UNCHANGED rows
  <2>1. RowWorks(t) /\ rows'[adv[t].row] = Row(t)
    BY <1>1, <1>2, <1>4, StoresWorks DEF Stores
  <2> DEFINE r == [runs[Row(t).pre] EXCEPT !.status = "queued"]
  <2>2. runs[Row(t).pre] \in RunType
    BY <1>1, <1>3, PreFacts
  <2>3. /\ r \in RunType /\ r.row = runs[Row(t).pre].row
        /\ r.id = runs[Row(t).pre].id /\ r.mode = runs[Row(t).pre].mode
        /\ r.doc = runs[Row(t).pre].doc /\ r.vals = runs[Row(t).pre].vals
        /\ r.pubs = runs[Row(t).pre].pubs /\ r.status = "queued"
    BY <2>2, StatusSet DEF LiveRun
  <2>4. RunBecomes(t, r)
    BY <1>3, <1>4 DEF RunBecomes, SetRun
  <2> HIDE DEF r
  <2>5. RunWorks(t) /\ runs'[Row(t).pre] = r /\ DOMAIN runs' = DOMAIN runs
    BY <1>1, <1>3, <2>3, <2>4, PreFacts, RunSet
  <2>6. RowFits(adv[t].row, Row(t), runs')
    BY <1>2, <1>3, <2>3, <2>5 DEF RowFits
  <2>7. PcFits([adv[t] EXCEPT !.pc = "linked"], Row(t), runs')
    BY <1>1, <1>2, <1>3, Place DEF PcFits, Admitting
  <2>8. PlaceWorks(t)
    BY <1>1, <1>2, <1>4, <2>1, <2>7, Goes DEF Pcs
  <2> QED
    BY <1>1, <2>1, <2>5, <2>6, <2>8 DEF Works, Row
<1>5. CASE AdmissionFails(t) /\ UNCHANGED runs
  BY <1>1, <1>3, <1>5, FailsWork
<1> QED
  BY <1>4, <1>5 DEF SubmitRun

LEMMA RunAdmittedWorks ==
    ASSUME IInv, NEW t \in Threads, RunAdmitted(t)
    PROVE  Works(t)
<1>1. /\ adv[t].pc = "linked" /\ UNCHANGED <<runs, phase>>
      /\ Store(t, AdvanceLifecycle(Row(t), "run", 0, 0))
      /\ Go(t, "run") \/ Return(t)
  BY DEF RunAdmitted, At, world
<1>2. /\ Sane(Row(t)) /\ Live(Row(t)) /\ RowFits(adv[t].row, Row(t), runs)
      /\ PcFits(adv[t], Row(t), runs) /\ adv[t] \in AdvanceType
      /\ phase # "blocked" /\ Row(t).run # 0 /\ Row(t).stage = "run"
  BY <1>1, WorkFacts DEF Opened, PcFits, Admitting
<1>3. Row(t).val = 0 /\ Row(t).pub = 0
  BY <1>2 DEF Sane, ValidGeneration
<1>4. PICK row : row = AdvanceLifecycle(Row(t), "run", 0, 0)
  OBVIOUS
<1>5. /\ Sane(row) /\ Moved(Row(t), row) /\ Live(row) /\ row.stage = "run"
      /\ row.pre = Row(t).pre /\ row.run = Row(t).run
      /\ row.val = 0 /\ row.pub = 0
  BY <1>2, <1>3, <1>4, AdvanceFits
<1>6. RowFits(adv[t].row, row, runs)
  BY <1>2, <1>3, <1>5 DEF RowFits, Moved
<1>7. Stores(t, row)
  BY <1>1, <1>4 DEF Stores
<1>8. CASE Return(t)
  BY <1>1, <1>5, <1>6, <1>7, <1>8, Returns, StoresWork
<1>9. CASE Go(t, "run")
  <2>1. PcFits([adv[t] EXCEPT !.pc = "run"], row, runs)
    BY <1>1, <1>2, <1>5, Place DEF PcFits, Admitting, Live
  <2> QED
    BY <1>1, <1>2, <1>5, <1>6, <1>7, <1>9, <2>1, GoesOn DEF Pcs
<1> QED
  BY <1>1, <1>8, <1>9

LEMMA HandleRunWorks ==
    ASSUME IInv, NEW t \in Threads, HandleRun(t)
    PROVE  Works(t)
<1>1. adv[t].pc = "run" /\ UNCHANGED <<rows, runs, phase>>
  BY DEF HandleRun, At, world
<1>2. /\ Sane(Row(t)) /\ Live(Row(t)) /\ RowFits(adv[t].row, Row(t), runs)
      /\ PcFits(adv[t], Row(t), runs) /\ adv[t] \in AdvanceType
      /\ Moved(Row(t), Row(t)) /\ Stores(t, Row(t))
      /\ Row(t).run # 0 /\ Row(t).stage = "run" /\ adv \in [Threads -> AdvanceType]
      /\ Row(t).run \in DOMAIN runs
  BY <1>1, WorkFacts, StaysMoved DEF Stores, PcFits, IInv, TypeOK
<1>3. RunOf(t) \in RunType
  BY <1>2, SeqDomain DEF RunOf, IInv, TypeOK
<1>4. RunOf(t).status \in LiveRun \cup TerminalRun
  BY <1>2, <1>3 DEF RowFits, RunOf, RunType
<1>5. CASE Return(t)
  BY <1>1, <1>5, GivesUp
<1>6. ASSUME NEW cls \in Verdicts, Conclude(t, cls, "none")
      PROVE  Works(t)
  BY <1>1, <1>6, DecidesNow DEF Codes
<1>7. CASE Go(t, "vadmit")
  <2>1. PcFits([adv[t] EXCEPT !.pc = "vadmit"], Row(t), runs)
    BY <1>1, <1>2, Place DEF PcFits, Admitting
  <2> QED
    BY <1>1, <1>2, <1>7, <2>1, GoesOn DEF Pcs, Opened
<1>8. CASE adv' = [adv EXCEPT ![t].pc = "authorize", ![t].existing = TRUE]
  <2> DEFINE a == [adv[t] EXCEPT !.pc = "authorize", !.existing = TRUE]
  <2>1. /\ a \in AdvanceType /\ a.row = adv[t].row /\ a.pc = "authorize"
    BY <1>2 DEF AdvanceType, Pcs
  <2>2. adv' = [adv EXCEPT ![t] = a]
    BY <1>2, <1>8
  <2> HIDE DEF a
  <2>3. /\ adv' \in [Threads -> AdvanceType] /\ adv'[t] = a
        /\ \A u \in Threads : u # t => adv'[u] = adv[u]
    BY <1>2, <2>1, <2>2
  <2>4. PcFits(a, rows'[adv[t].row], runs')
    BY <1>1, <1>2, <2>1 DEF PcFits, Admitting, Live, Row
  <2>5. PlaceWorks(t)
    BY <2>1, <2>3, <2>4 DEF PlaceWorks, Opened
  <2> QED
    BY <1>1, <2>5, LeavesWork
<1> QED
  <2>1. \/ Return(t) \/ Go(t, "vadmit")
        \/ \E cls \in Verdicts : Conclude(t, cls, "none")
        \/ adv' = [adv EXCEPT ![t].pc = "authorize", ![t].existing = TRUE]
    BY <1>4 DEF HandleRun, LiveRun, TerminalRun, Verdicts
  <2> QED
    BY <1>5, <1>6, <1>7, <1>8, <2>1

(* Every attempt of the Run of a row was made for that row.                *)
LEMMA Newest ==
    ASSUME IInv, NEW t \in Threads, adv[t].pc \notin {"idle", "notify"},
           Row(t).run # 0
    PROVE  /\ RunOf(t) \in RunType /\ RunOf(t).vals \in Seq(AttemptType)
           /\ NewestValidation(adv[t].row) = Len(RunOf(t).vals)
           /\ Row(t).val \in 0..Len(RunOf(t).vals)
           /\ RunOf(t) = runs[Row(t).pre] /\ Row(t).run = Row(t).pre
           /\ Row(t).run \in DOMAIN runs
<1>1. /\ Row(t).run = Row(t).pre /\ Row(t).pre # 0
      /\ RowFits(adv[t].row, Row(t), runs)
  BY WorkFacts
<1>2. /\ RunOf(t) = runs[Row(t).pre] /\ RunOf(t).row = adv[t].row
      /\ RunOf(t) \in RunType /\ RunOf(t).vals \in Seq(AttemptType)
      /\ \A v \in DOMAIN RunOf(t).vals : RunOf(t).vals[v].row = adv[t].row
      /\ Row(t).pre \in DOMAIN runs
  BY <1>1, PreFacts DEF RunOf
<1>3. PICK vals : vals = RunOf(t).vals
  OBVIOUS
<1>4. /\ vals \in Seq(AttemptType) /\ Len(vals) \in Nat
      /\ DOMAIN vals = 1..Len(vals)
  BY <1>2, <1>3
<1>5. {v \in DOMAIN vals : vals[v].row = adv[t].row} = 1..Len(vals)
  BY <1>2, <1>3, <1>4
<1>6. Row(t).val \in 0..Len(vals)
  BY <1>1, <1>3 DEF RowFits, RunOf
<1>7. NewestValidation(adv[t].row) =
         IF 1..Len(vals) = {} THEN Row(t).val
         ELSE CHOOSE v \in 1..Len(vals) : \A w \in 1..Len(vals) : w <= v
  <2> DEFINE mine == {v \in DOMAIN RunOf(t).vals :
                         RunOf(t).vals[v].row = adv[t].row}
  <2>1. NewestValidation(adv[t].row) =
           IF mine = {} THEN Row(t).val
           ELSE CHOOSE v \in mine : \A w \in mine : w <= v
    BY DEF NewestValidation, Row, RunOf
  <2>2. mine = 1..Len(vals)
    BY <1>3, <1>5
  <2> HIDE DEF mine
  <2> QED
    BY <2>1, <2>2
<1>8. CASE Len(vals) = 0
  BY <1>1, <1>2, <1>3, <1>4, <1>6, <1>7, <1>8
<1>9. CASE Len(vals) # 0
  <2>1. \A v \in 1..Len(vals) :
           (\A w \in 1..Len(vals) : w <= v) <=> v = Len(vals)
    BY <1>4, <1>9
  <2>2. NewestValidation(adv[t].row) =
           CHOOSE v \in 1..Len(vals) : \A w \in 1..Len(vals) : w <= v
    BY <1>4, <1>7, <1>9
  <2>3. Len(vals) \in 1..Len(vals)
    BY <1>4, <1>9
  <2>4. NewestValidation(adv[t].row) = Len(vals)
    BY <2>1, <2>2, <2>3
  <2> QED
    BY <1>1, <1>2, <1>3, <1>6, <2>4
<1> QED
  BY <1>4, <1>8, <1>9

LEMMA AdmitValidationWorks ==
    ASSUME IInv, NEW t \in Threads, AdmitValidation(t)
    PROVE  Works(t)
<1>1. adv[t].pc = "vadmit" /\ UNCHANGED <<runs, phase>>
  BY DEF AdmitValidation, At, world
<1>2. /\ Sane(Row(t)) /\ Live(Row(t)) /\ RowFits(adv[t].row, Row(t), runs)
      /\ PcFits(adv[t], Row(t), runs) /\ adv[t] \in AdvanceType
      /\ Row(t).run # 0 /\ Row(t) \in GenerationType
      /\ Row(t).stage \in {"run", "validation_admission", "validation"}
  BY <1>1, WorkFacts DEF PcFits
<1>3. Row(t).pub = 0
  BY <1>2 DEF Sane, ValidGeneration
<1>4. PICK n : n = NewestValidation(adv[t].row)
  OBVIOUS
<1>5. n = Len(RunOf(t).vals) /\ n \in Nat /\ Row(t).val \in 0..n
  BY <1>1, <1>2, <1>4, Newest
<1>6. CASE Return(t) /\ UNCHANGED rows
  BY <1>1, <1>6, GivesUp
<1>7. CASE Conclude(t, "disabled", "final") /\ UNCHANGED rows
  BY <1>1, <1>7, DecidesNow DEF Verdicts, Codes
<1>8. CASE /\ n # Row(t).val /\ Go(t, "validation")
           /\ Store(t, AdvanceLifecycle(Row(t), "validation", n, 0))
  <2>1. n # 0
    BY <1>5, <1>8
  <2>2. PICK row : row = AdvanceLifecycle(Row(t), "validation", n, 0)
    OBVIOUS
  <2>3. /\ Sane(row) /\ Moved(Row(t), row) /\ Live(row)
        /\ row.stage = "validation"
        /\ row.pre = Row(t).pre /\ row.run = Row(t).run
        /\ row.val = n /\ row.pub = 0
    BY <1>2, <1>3, <1>5, <2>1, <2>2, AdvanceFits
  <2>4. RowFits(adv[t].row, row, runs)
    BY <1>2, <1>3, <1>5, <2>3 DEF RowFits, Moved, RunOf
  <2>5. PcFits([adv[t] EXCEPT !.pc = "validation"], row, runs)
    BY <1>1, <1>2, <2>3, Place DEF PcFits, Admitting, Live
  <2> QED
    BY <1>1, <1>8, <2>2, <2>3, <2>4, <2>5, GoesOn DEF Pcs, Opened, Stores
<1>9. CASE /\ Open /\ Go(t, "vcall")
           /\ Store(t, AdvanceLifecycle(Row(t), "validation_admission", 0, 0))
  <2>1. PICK row : row = AdvanceLifecycle(Row(t), "validation_admission", 0, 0)
    OBVIOUS
  <2>2. /\ Sane(row) /\ Moved(Row(t), row) /\ Live(row)
        /\ row.stage = "validation_admission"
        /\ row.pre = Row(t).pre /\ row.run = Row(t).run
        /\ row.val = Row(t).val /\ row.pub = 0
    BY <1>2, <1>3, <2>1, AdvanceFits
  <2>3. RowFits(adv[t].row, row, runs)
    BY <1>2, <1>3, <2>2 DEF RowFits, Moved
  <2>4. PcFits([adv[t] EXCEPT !.pc = "vcall"], row, runs)
    BY <1>1, <1>2, <2>2, Place DEF PcFits, Admitting, Live
  <2> QED
    BY <1>1, <1>9, <2>1, <2>2, <2>3, <2>4, GoesOn DEF Pcs, Open, Stores
<1> QED
  BY <1>4, <1>6, <1>7, <1>8, <1>9 DEF AdmitValidation

LEMMA CallAdmitWorks ==
    ASSUME IInv, NEW t \in Threads, CallAdmit(t)
    PROVE  Works(t)
<1>1. adv[t].pc = "vcall" /\ UNCHANGED phase
  BY DEF CallAdmit, At, world
<1>2. /\ Sane(Row(t)) /\ Live(Row(t)) /\ RowFits(adv[t].row, Row(t), runs)
      /\ PcFits(adv[t], Row(t), runs) /\ adv[t] \in AdvanceType
      /\ Moved(Row(t), Row(t)) /\ phase # "blocked"
      /\ adv \in [Threads -> AdvanceType]
  BY <1>1, WorkFacts, StaysMoved DEF Opened, IInv, TypeOK
<1>3. Row(t).stage = "validation_admission" /\ Row(t).run # 0
  BY <1>1, <1>2 DEF PcFits, Sane, ValidGeneration
<1>4. /\ Row(t).run = Row(t).pre /\ Row(t).pre # 0
      /\ RunOf(t) = runs[Row(t).pre] /\ runs[Row(t).pre] \in RunType
      /\ RunOf(t).vals \in Seq(AttemptType)
      /\ runs[Row(t).pre].row = adv[t].row /\ adv[t].row \in Nat
      /\ \A v \in DOMAIN RunOf(t).vals : RunOf(t).vals[v].row = adv[t].row
  BY <1>1, <1>3, Newest, PreFacts, WorkFacts
<1>5. CASE AdmissionFails(t) /\ UNCHANGED runs
  BY <1>1, <1>4, <1>5, FailsWork
<1>6. CASE /\ runs' = [runs EXCEPT ![Row(t).run].vals =
                         Append(@, [row |-> adv[t].row, status |-> "active"])]
           /\ adv' = [adv EXCEPT ![t].pc = "vlink",
                                 ![t].out = Len(RunOf(t).vals) + 1]
           /\ UNCHANGED rows
  <2>1. PICK vals : vals = Append(RunOf(t).vals,
                              [row |-> adv[t].row, status |-> "active"])
    OBVIOUS
  <2>2. /\ vals \in Seq(AttemptType) /\ Len(vals) = Len(RunOf(t).vals) + 1
        /\ Len(RunOf(t).vals) \in Nat
        /\ \A v \in DOMAIN vals : vals[v].row = adv[t].row
    <3>1. [row |-> adv[t].row, status |-> "active"] \in AttemptType
      BY <1>4 DEF AttemptType
    <3> QED
      BY <1>4, <2>1, <3>1
  <2> DEFINE r == [runs[Row(t).pre] EXCEPT !.vals = vals]
             a == [adv[t] EXCEPT !.pc = "vlink",
                                 !.out = Len(RunOf(t).vals) + 1]
  <2>3. /\ r \in RunType /\ r.row = runs[Row(t).pre].row
        /\ r.id = runs[Row(t).pre].id /\ r.mode = runs[Row(t).pre].mode
        /\ r.doc = runs[Row(t).pre].doc /\ r.vals = vals
        /\ r.pubs = runs[Row(t).pre].pubs
        /\ r.status = runs[Row(t).pre].status
    BY <1>4, <2>2 DEF RunType
  <2>4. RunBecomes(t, r)
    BY <1>4, <1>6, <2>1 DEF RunBecomes
  <2>5. /\ a \in AdvanceType /\ a.row = adv[t].row /\ a.pc = "vlink"
        /\ a.out = Len(vals) /\ a.existing = adv[t].existing
    <3>1. PICK out : out = Len(RunOf(t).vals) + 1
      OBVIOUS
    <3>2. out \in Nat /\ out = Len(vals)
      BY <2>2, <3>1
    <3>3. a = [adv[t] EXCEPT !.pc = "vlink", !.out = out]
      BY <3>1
    <3> HIDE DEF a
    <3> QED
      BY <1>2, <3>2, <3>3 DEF AdvanceType, Pcs
  <2>6. adv' = [adv EXCEPT ![t] = a]
    BY <1>2, <1>6
  <2> HIDE DEF r, a
  <2>7. /\ adv' \in [Threads -> AdvanceType] /\ adv'[t] = a
        /\ \A u \in Threads : u # t => adv'[u] = adv[u]
    BY <1>2, <2>5, <2>6
  <2>8. RowWorks(t) /\ rows'[adv[t].row] = Row(t)
    BY <1>1, <1>2, <1>6, StoresWorks DEF Stores
  <2>9. r.status # "partial"
    BY <1>2, <1>3, <1>4, <2>3 DEF RowFits
  <2>10. RunWorks(t) /\ runs'[Row(t).pre] = r /\ DOMAIN runs' = DOMAIN runs
    BY <1>1, <1>4, <2>2, <2>3, <2>4, <2>9, RunSet
  <2>11. RowFits(adv[t].row, Row(t), runs')
    <3>1. Row(t).val \in 0..Len(vals)
      BY <1>2, <1>3, <1>4, <2>2 DEF RowFits
    <3> QED
      BY <1>2, <1>3, <1>4, <2>2, <2>3, <2>10, <3>1 DEF RowFits
  <2>12. PcFits(a, Row(t), runs')
    BY <1>1, <1>2, <1>3, <1>4, <2>2, <2>3, <2>5, <2>10
       DEF PcFits, Admitting, Live
  <2>13. PlaceWorks(t)
    BY <1>2, <2>5, <2>7, <2>8, <2>12 DEF PlaceWorks
  <2> QED
    BY <1>1, <2>8, <2>10, <2>11, <2>13 DEF Works, Row
<1> QED
  BY <1>5, <1>6 DEF CallAdmit

LEMMA LinkValidationWorks ==
    ASSUME IInv, NEW t \in Threads, LinkValidation(t)
    PROVE  Works(t)
<1>1. /\ adv[t].pc = "vlink" /\ UNCHANGED <<runs, phase>>
      /\ Store(t, AdvanceLifecycle(Row(t), "validation", adv[t].out, 0))
      /\ Go(t, "validation") \/ Return(t)
  BY DEF LinkValidation, At, world
<1>2. /\ Sane(Row(t)) /\ Live(Row(t)) /\ RowFits(adv[t].row, Row(t), runs)
      /\ PcFits(adv[t], Row(t), runs) /\ adv[t] \in AdvanceType
      /\ Row(t).stage = "validation_admission"
      /\ adv[t].out # 0 /\ adv[t].out = Len(runs[Row(t).run].vals)
  BY <1>1, WorkFacts DEF PcFits
<1>3. Row(t).pub = 0 /\ Row(t).run # 0 /\ adv[t].out \in Nat
  BY <1>2 DEF Sane, ValidGeneration, AdvanceType
<1>4. PICK row : row = AdvanceLifecycle(Row(t), "validation", adv[t].out, 0)
  OBVIOUS
<1>5. /\ Sane(row) /\ Moved(Row(t), row) /\ Live(row)
      /\ row.stage = "validation"
      /\ row.pre = Row(t).pre /\ row.run = Row(t).run
      /\ row.val = adv[t].out /\ row.pub = 0
  BY <1>2, <1>3, <1>4, AdvanceFits
<1>6. RowFits(adv[t].row, row, runs)
  BY <1>2, <1>3, <1>5 DEF RowFits, Moved
<1>7. Stores(t, row)
  BY <1>1, <1>4 DEF Stores
<1>8. CASE Return(t)
  BY <1>1, <1>5, <1>6, <1>7, <1>8, Returns, StoresWork
<1>9. CASE Go(t, "validation")
  <2>1. PcFits([adv[t] EXCEPT !.pc = "validation"], row, runs)
    BY <1>1, <1>2, <1>3, <1>5, Place DEF PcFits, Admitting, Live
  <2> QED
    BY <1>1, <1>5, <1>6, <1>7, <1>9, <2>1, GoesOn DEF Pcs, Opened
<1> QED
  BY <1>1, <1>8, <1>9

(* From the stage "validation" on, the row names the newest attempt.       *)
LEMMA HandleValidationCases ==
    ASSUME IInv, NEW t \in Threads, HandleValidation(t)
    PROVE  \/ Store(t, Row(t)) /\ Return(t)
           \/ Store(t, ScheduleRetry(Row(t))) /\ Return(t)
           \/ Store(t, Row(t)) /\ Conclude(t, "cancelled", "none")
           \/ Store(t, Row(t)) /\ Conclude(t, "terminal_failure", "none")
           \/ Store(t, Row(t)) /\ Conclude(t, "success", "none")
           \/ Store(t, Row(t)) /\ Go(t, "publish")
<1>1. adv[t].pc = "validation" /\ UNCHANGED <<runs, phase>>
  BY DEF HandleValidation, At, world
<1>2. /\ Sane(Row(t)) /\ Live(Row(t)) /\ RowFits(adv[t].row, Row(t), runs)
      /\ PcFits(adv[t], Row(t), runs) /\ adv[t] \in AdvanceType
      /\ Moved(Row(t), Row(t)) /\ Row(t) \in GenerationType
      /\ Row(t).stage \in {"validation", "publication"}
  BY <1>1, WorkFacts, StaysMoved DEF PcFits
<1>3. Row(t).run # 0 /\ Row(t).val # 0
  BY <1>2 DEF Sane, ValidGeneration
<1>4. PICK n : n = NewestValidation(adv[t].row)
  OBVIOUS
<1>5. /\ n = Row(t).val /\ RunOf(t).vals \in Seq(AttemptType)
      /\ n \in DOMAIN RunOf(t).vals /\ Row(t).pre # 0
  <2>1. /\ RunOf(t).vals \in Seq(AttemptType) /\ n = Len(RunOf(t).vals)
        /\ Row(t).run = Row(t).pre
    BY <1>1, <1>3, <1>4, Newest
  <2>2. n = Row(t).val
    BY <1>2, <1>3, <2>1 DEF RowFits, RunOf
  <2>3. n \in Nat /\ DOMAIN RunOf(t).vals = 1..n
    BY <2>1, SeqDomain
  <2> QED
    BY <1>3, <2>1, <2>2, <2>3
<1>6. PICK status : status = RunOf(t).vals[n].status
  OBVIOUS
<1>7. status \in {"active", "success", "transient", "failed", "cancelled"}
  <2>1. RunOf(t).vals[n] \in AttemptType
    BY <1>5
  <2> QED
    BY <1>6, <2>1 DEF AttemptType
<1>8. Row(t).vretry < MaxValidationRetries \/ Row(t).vretry >= MaxValidationRetries
  BY <1>2, ConstantsAssumption DEF GenerationType
<1>9. CASE status = "active"
  BY <1>4, <1>5, <1>6, <1>9 DEF HandleValidation
<1>10. CASE status = "cancelled"
  BY <1>4, <1>5, <1>6, <1>10 DEF HandleValidation
<1>11. CASE status = "success"
  BY <1>4, <1>5, <1>6, <1>11 DEF HandleValidation
<1>12. CASE status = "failed"
  BY <1>4, <1>5, <1>6, <1>12 DEF HandleValidation
<1>13. CASE status = "transient"
  BY <1>2, <1>4, <1>5, <1>6, <1>8, <1>13, ConstantsAssumption
     DEF HandleValidation, GenerationType
<1> QED
  BY <1>7, <1>9, <1>10, <1>11, <1>12, <1>13

LEMMA HandleValidationWorks ==
    ASSUME IInv, NEW t \in Threads, HandleValidation(t)
    PROVE  Works(t)
<1>1. adv[t].pc = "validation" /\ UNCHANGED <<runs, phase>>
  BY DEF HandleValidation, At, world
<1>2. /\ Sane(Row(t)) /\ Live(Row(t)) /\ RowFits(adv[t].row, Row(t), runs)
      /\ PcFits(adv[t], Row(t), runs) /\ adv[t] \in AdvanceType
      /\ Moved(Row(t), Row(t))
      /\ Row(t).stage \in {"validation", "publication"}
      /\ Row(t).run # 0 => Row(t).run = Row(t).pre
  BY <1>1, WorkFacts, StaysMoved DEF PcFits
<1>3. Row(t).pre # 0
  BY <1>2 DEF Sane, ValidGeneration
<1>4. CASE Store(t, Row(t)) /\ Return(t)
  BY <1>1, <1>2, <1>4, Returns, StoresWork DEF Stores
<1>5. CASE Store(t, ScheduleRetry(Row(t))) /\ Return(t)
  BY <1>1, <1>2, <1>3, <1>5, Delays
<1>6. ASSUME NEW cls \in Verdicts, Store(t, Row(t)) /\ Conclude(t, cls, "none")
      PROVE  Works(t)
  BY <1>1, <1>2, <1>6, Decides DEF Stores, Codes
<1>7. CASE Store(t, Row(t)) /\ Go(t, "publish")
  <2>1. PcFits([adv[t] EXCEPT !.pc = "publish"], Row(t), runs)
    BY <1>1, <1>2, Place DEF PcFits, Admitting
  <2> QED
    BY <1>1, <1>2, <1>7, <2>1, GoesOn DEF Pcs, Opened, Stores
<1> QED
  BY <1>4, <1>5, <1>6, <1>7, HandleValidationCases DEF Verdicts

LEMMA PublicationFails ==
    ASSUME IInv, NEW t \in Threads,
           adv[t].pc \notin {"idle", "notify", "commit"},
           NEW row, Sane(row), Live(row), Moved(Row(t), row),
           row.pre = Row(t).pre, row.pre # 0, RowFits(adv[t].row, row, runs),
           NEW outcome, PublicationFailed(t, row, outcome),
           UNCHANGED <<runs, phase>>
    PROVE  Works(t)
<1>1. CASE Store(t, ScheduleRetry(row)) /\ Return(t)
  BY <1>1, Delays
<1>2. CASE Store(t, row) /\ Conclude(t, "blocked_manual", "final")
  BY <1>2, Decides DEF Stores, Verdicts, Codes
<1>3. CASE Store(t, row) /\ Conclude(t, "terminal_failure", "none")
  BY <1>3, Decides DEF Stores, Verdicts, Codes
<1> QED
  BY <1>1, <1>2, <1>3 DEF PublicationFailed

LEMMA PublishWorks ==
    ASSUME IInv, NEW t \in Threads, Publish(t)
    PROVE  Works(t)
<1>1. adv[t].pc = "publish" /\ UNCHANGED <<runs, phase>>
  BY DEF Publish, At, world
<1>2. /\ Sane(Row(t)) /\ Live(Row(t)) /\ RowFits(adv[t].row, Row(t), runs)
      /\ PcFits(adv[t], Row(t), runs) /\ adv[t] \in AdvanceType
      /\ Row(t).stage \in {"validation", "publication"}
  BY <1>1, WorkFacts DEF PcFits
<1>3. Row(t).run # 0 /\ Row(t).val # 0
  BY <1>2 DEF Sane, ValidGeneration
<1>4. PICK last : last = Len(RunOf(t).pubs)
  OBVIOUS
<1>5. /\ last \in Nat /\ Row(t).run = Row(t).pre /\ Row(t).pre # 0
  BY <1>1, <1>3, <1>4, Newest DEF RunType
<1>6. ASSUME NEW p \in Nat, p \in {0, last}, NEW row,
             row = AdvanceLifecycle(Row(t), "publication", 0, p)
      PROVE  /\ Sane(row) /\ Moved(Row(t), row) /\ Live(row)
             /\ row.stage = "publication"
             /\ row.pre = Row(t).pre /\ row.run = Row(t).run
             /\ RowFits(adv[t].row, row, runs)
  <2>1. /\ Sane(row) /\ Moved(Row(t), row) /\ Live(row)
        /\ row.stage = "publication"
        /\ row.pre = Row(t).pre /\ row.run = Row(t).run
        /\ row.val = Row(t).val
        /\ row.pub = IF p # 0 THEN p ELSE Row(t).pub
    BY <1>2, <1>3, <1>6, AdvanceFits
  <2>2. row.pub \in 0..Len(runs[row.run].pubs)
    BY <1>2, <1>3, <1>4, <1>5, <1>6, <2>1 DEF RowFits, RunOf
  <2>3. RowFits(adv[t].row, row, runs)
    BY <1>2, <1>3, <2>1, <2>2 DEF RowFits, Moved
  <2> QED
    BY <2>1, <2>3
<1>7. CASE Return(t) /\ UNCHANGED rows
  BY <1>1, <1>7, GivesUp
<1>8. CASE Conclude(t, "disabled", "final") /\ UNCHANGED rows
  BY <1>1, <1>8, DecidesNow DEF Verdicts, Codes
<1>9. ASSUME NEW outcome,
             PublicationFailed(t,
                AdvanceLifecycle(Row(t), "publication", 0, last), outcome)
      PROVE  Works(t)
  <2>1. PICK row : row = AdvanceLifecycle(Row(t), "publication", 0, last)
    OBVIOUS
  <2>2. PublicationFailed(t, row, outcome)
    BY <1>9, <2>1
  <2> QED
    BY <1>1, <1>5, <1>6, <2>1, <2>2, PublicationFails
<1>10. CASE /\ Open /\ Go(t, "pubcall")
            /\ Store(t, AdvanceLifecycle(Row(t), "publication", 0, 0))
  <2>1. PICK row : row = AdvanceLifecycle(Row(t), "publication", 0, 0)
    OBVIOUS
  <2>2. /\ Sane(row) /\ Moved(Row(t), row) /\ Live(row)
        /\ row.stage = "publication"
        /\ row.pre = Row(t).pre /\ row.run = Row(t).run
        /\ RowFits(adv[t].row, row, runs)
    BY <1>6, <2>1
  <2>3. PcFits([adv[t] EXCEPT !.pc = "pubcall"], row, runs)
    BY <1>1, <1>2, <1>3, <2>2, Place DEF PcFits, Admitting, Live
  <2> QED
    BY <1>1, <1>10, <2>1, <2>2, <2>3, GoesOn DEF Pcs, Open, Stores
<1> QED
  BY <1>4, <1>7, <1>8, <1>9, <1>10 DEF Publish

LEMMA CallPublishWorks ==
    ASSUME IInv, NEW t \in Threads, CallPublish(t)
    PROVE  Works(t)
<1>1. adv[t].pc = "pubcall" /\ UNCHANGED phase
  BY DEF CallPublish, At, world
<1>2. /\ Sane(Row(t)) /\ Live(Row(t)) /\ RowFits(adv[t].row, Row(t), runs)
      /\ PcFits(adv[t], Row(t), runs) /\ adv[t] \in AdvanceType
      /\ Moved(Row(t), Row(t)) /\ phase # "blocked"
      /\ adv \in [Threads -> AdvanceType]
      /\ Row(t).stage = "publication"
  BY <1>1, WorkFacts, StaysMoved DEF Opened, IInv, TypeOK, PcFits
<1>3. Row(t).run # 0
  BY <1>2 DEF Sane, ValidGeneration
<1>4. /\ Row(t).run = Row(t).pre /\ Row(t).pre # 0
      /\ RunOf(t) = runs[Row(t).pre] /\ runs[Row(t).pre] \in RunType
      /\ RunOf(t).pubs \in Seq({"success", "transient", "blocked"})
      /\ runs[Row(t).pre].row = adv[t].row
      /\ \A v \in DOMAIN RunOf(t).vals : RunOf(t).vals[v].row = adv[t].row
  BY <1>1, <1>3, Newest, PreFacts
<1>5. PICK outcome \in {"success", "transient", "blocked"} :
         \/ /\ runs' = [runs EXCEPT ![Row(t).run].pubs = Append(@, outcome)]
            /\ adv' = [adv EXCEPT ![t].pc = "publink",
                                  ![t].out = Len(RunOf(t).pubs) + 1]
            /\ UNCHANGED rows
         \/ /\ UNCHANGED runs
            /\ \/ PublicationFailed(t, Row(t), outcome)
               \/ Return(t) /\ UNCHANGED rows
  BY DEF CallPublish
<1>6. CASE /\ UNCHANGED runs
           /\ \/ PublicationFailed(t, Row(t), outcome)
              \/ Return(t) /\ UNCHANGED rows
  <2>1. CASE PublicationFailed(t, Row(t), outcome)
    BY <1>1, <1>2, <1>4, <1>6, <2>1, PublicationFails
  <2>2. CASE Return(t) /\ UNCHANGED rows
    BY <1>1, <1>6, <2>2, GivesUp
  <2> QED
    BY <1>6, <2>1, <2>2
<1>7. CASE /\ runs' = [runs EXCEPT ![Row(t).run].pubs = Append(@, outcome)]
           /\ adv' = [adv EXCEPT ![t].pc = "publink",
                                 ![t].out = Len(RunOf(t).pubs) + 1]
           /\ UNCHANGED rows
  <2>1. PICK pubs : pubs = Append(RunOf(t).pubs, outcome)
    OBVIOUS
  <2>2. PICK out : out = Len(RunOf(t).pubs) + 1
    OBVIOUS
  <2>3. /\ pubs \in Seq({"success", "transient", "blocked"})
        /\ Len(pubs) = out /\ out \in Nat /\ out \in DOMAIN pubs
        /\ Len(RunOf(t).pubs) \in Nat /\ out = Len(RunOf(t).pubs) + 1
    BY <1>4, <1>5, <2>1, <2>2
  <2> DEFINE r == [runs[Row(t).pre] EXCEPT !.pubs = pubs]
             a == [adv[t] EXCEPT !.pc = "publink",
                                 !.out = Len(RunOf(t).pubs) + 1]
  <2>4. /\ r \in RunType /\ r.row = runs[Row(t).pre].row
        /\ r.id = runs[Row(t).pre].id /\ r.mode = runs[Row(t).pre].mode
        /\ r.doc = runs[Row(t).pre].doc /\ r.vals = runs[Row(t).pre].vals
        /\ r.pubs = pubs /\ r.status = runs[Row(t).pre].status
    BY <1>4, <2>3 DEF RunType
  <2>5. RunBecomes(t, r)
    BY <1>4, <1>7, <2>1 DEF RunBecomes
  <2>6. adv' = [adv EXCEPT ![t] = a]
    BY <1>2, <1>7
  <2>7. a = [adv[t] EXCEPT !.pc = "publink", !.out = out]
    BY <2>2
  <2> HIDE DEF r, a
  <2>8. /\ a \in AdvanceType /\ a.row = adv[t].row /\ a.pc = "publink"
        /\ a.out = out /\ a.existing = adv[t].existing
    BY <1>2, <2>3, <2>7 DEF AdvanceType, Pcs
  <2>9. /\ adv' \in [Threads -> AdvanceType] /\ adv'[t] = a
        /\ \A u \in Threads : u # t => adv'[u] = adv[u]
    BY <1>2, <2>6, <2>8
  <2>10. RowWorks(t) /\ rows'[adv[t].row] = Row(t)
    BY <1>1, <1>2, <1>7, StoresWorks DEF Stores
  <2>11. r.status # "partial"
    BY <1>2, <1>3, <1>4, <2>4 DEF RowFits
  <2>12. RunWorks(t) /\ runs'[Row(t).pre] = r /\ DOMAIN runs' = DOMAIN runs
    BY <1>1, <1>4, <2>4, <2>5, <2>11, RunSet
  <2>13. Row(t).pub \in 0..Len(pubs)
    BY <1>2, <1>3, <1>4, <2>3 DEF RowFits
  <2>14. RowFits(adv[t].row, Row(t), runs')
    BY <1>2, <1>3, <1>4, <2>4, <2>12, <2>13 DEF RowFits
  <2>15. PcFits(a, Row(t), runs')
    BY <1>1, <1>2, <1>3, <1>4, <2>3, <2>4, <2>8, <2>12
       DEF PcFits, Admitting, Live
  <2>16. PlaceWorks(t)
    BY <1>2, <2>8, <2>9, <2>10, <2>15 DEF PlaceWorks
  <2> QED
    BY <1>1, <2>10, <2>12, <2>14, <2>16 DEF Works, Row
<1> QED
  BY <1>5, <1>6, <1>7

LEMMA LinkPublicationWorks ==
    ASSUME IInv, NEW t \in Threads, LinkPublication(t)
    PROVE  Works(t)
<1>1. adv[t].pc = "publink" /\ UNCHANGED <<runs, phase>>
  BY DEF LinkPublication, At, world
<1>2. /\ Sane(Row(t)) /\ Live(Row(t)) /\ RowFits(adv[t].row, Row(t), runs)
      /\ PcFits(adv[t], Row(t), runs) /\ adv[t] \in AdvanceType
      /\ Row(t).stage = "publication" /\ adv[t].out \in Nat
      /\ adv[t].out \in DOMAIN RunOf(t).pubs
  BY <1>1, WorkFacts DEF PcFits, RunOf, AdvanceType
<1>3. Row(t).run # 0 /\ Row(t).val # 0
  BY <1>2 DEF Sane, ValidGeneration
<1>4. /\ Row(t).run = Row(t).pre /\ Row(t).pre # 0
      /\ adv[t].out \in 0..Len(RunOf(t).pubs)
  BY <1>1, <1>2, <1>3, Newest DEF RunType
<1>5. PICK row : row = AdvanceLifecycle(Row(t), "publication", 0, adv[t].out)
  OBVIOUS
<1>6. /\ Sane(row) /\ Moved(Row(t), row) /\ Live(row)
      /\ row.stage = "publication"
      /\ row.pre = Row(t).pre /\ row.run = Row(t).run /\ row.val = Row(t).val
      /\ row.pub = IF adv[t].out # 0 THEN adv[t].out ELSE Row(t).pub
  BY <1>2, <1>3, <1>5, AdvanceFits
<1>7. row.pub \in 0..Len(runs[row.run].pubs)
  BY <1>2, <1>3, <1>4, <1>6 DEF RowFits, RunOf
<1>8. RowFits(adv[t].row, row, runs)
  BY <1>2, <1>3, <1>6, <1>7 DEF RowFits, Moved
<1>9. CASE Store(t, row) /\ Conclude(t, "success", "none")
  BY <1>1, <1>6, <1>8, <1>9, Decides DEF Stores, Verdicts, Codes
<1>10. ASSUME NEW outcome, PublicationFailed(t, row, outcome)
       PROVE  Works(t)
  BY <1>1, <1>4, <1>6, <1>8, <1>10, PublicationFails
<1> QED
  BY <1>5, <1>9, <1>10 DEF LinkPublication

LEMMA FinishWorks ==
    ASSUME IInv, NEW t \in Threads, Finish(t)
    PROVE  Works(t)
<1>1. /\ adv[t].pc = "finish" /\ UNCHANGED <<runs, phase>> /\ Go(t, "notify")
      /\ Store(t, LedgerFinish(Row(t), adv[t].cls, adv[t].code))
  BY DEF Finish, At, world
<1>2. /\ Sane(Row(t)) /\ Live(Row(t)) /\ RowFits(adv[t].row, Row(t), runs)
      /\ PcFits(adv[t], Row(t), runs) /\ adv[t] \in AdvanceType
      /\ adv[t].cls \in Verdicts /\ adv[t].code \in Codes
  BY <1>1, WorkFacts DEF PcFits, AdvanceType
<1>3. PolicyOf[Row(t).doc] # "detect"
  BY <1>2 DEF Sane, Plain, Live, ValidGeneration
<1>4. PICK row : row = LedgerFinish(Row(t), adv[t].cls, adv[t].code)
  OBVIOUS
<1>5. /\ Sane(row) /\ Moved(Row(t), row) /\ SameLinks(Row(t), row)
      /\ ~ Live(row) /\ row.stage = "terminal"
  BY <1>2, <1>3, <1>4, FinishFits
<1>6. RowFits(adv[t].row, row, runs)
  BY <1>2, <1>5, StaysFit
<1>7. PcFits([adv[t] EXCEPT !.pc = "notify"], row, runs)
  BY <1>2, <1>5, Place DEF PcFits, Admitting, Live, SameLinks
<1> QED
  BY <1>1, <1>4, <1>5, <1>6, <1>7, GoesOn DEF Pcs, Opened, Stores, SameLinks

-----------------------------------------------------------------------------
(* Every step keeps the invariant.                                         *)

LEMMA StepKeeps ==
    ASSUME IInv, NEW t \in Threads, Step(t)
    PROVE  /\ Chain' /\ rows' \in Seq(GenerationType)
           /\ runs' \in Seq(RunType) /\ adv' \in [Threads -> AdvanceType]
<1>1. ASSUME Works(t), adv[t].pc \notin {"idle", "notify"}
      PROVE  /\ Chain' /\ rows' \in Seq(GenerationType)
             /\ runs' \in Seq(RunType) /\ adv' \in [Threads -> AdvanceType]
  BY <1>1, WorksKeeps DEF Works, RowWorks, PlaceWorks, RunWorks
<1>2. CASE Authorize(t)
  BY <1>1, <1>2, AuthorizeWorks DEF Authorize, At
<1>3. CASE Reserve(t)
  BY <1>1, <1>3, ReserveWorks DEF Reserve, At
<1>4. CASE Recheck(t)
  BY <1>1, <1>4, RecheckWorks DEF Recheck, At
<1>5. CASE CreateRun(t)
  BY <1>1, <1>5, CreateRunWorks DEF CreateRun, At
<1>6. CASE CommitRun(t)
  BY <1>1, <1>6, CommitRunWorks DEF CommitRun, At
<1>7. CASE CreatedCallback(t)
  BY <1>1, <1>7, CreatedCallbackWorks DEF CreatedCallback, At
<1>8. CASE SubmitRun(t)
  BY <1>1, <1>8, SubmitRunWorks DEF SubmitRun, At
<1>9. CASE RunAdmitted(t)
  BY <1>1, <1>9, RunAdmittedWorks DEF RunAdmitted, At
<1>10. CASE HandleRun(t)
  BY <1>1, <1>10, HandleRunWorks DEF HandleRun, At
<1>11. CASE AdmitValidation(t)
  BY <1>1, <1>11, AdmitValidationWorks DEF AdmitValidation, At
<1>12. CASE CallAdmit(t)
  BY <1>1, <1>12, CallAdmitWorks DEF CallAdmit, At
<1>13. CASE LinkValidation(t)
  BY <1>1, <1>13, LinkValidationWorks DEF LinkValidation, At
<1>14. CASE HandleValidation(t)
  BY <1>1, <1>14, HandleValidationWorks DEF HandleValidation, At
<1>15. CASE Publish(t)
  BY <1>1, <1>15, PublishWorks DEF Publish, At
<1>16. CASE CallPublish(t)
  BY <1>1, <1>16, CallPublishWorks DEF CallPublish, At
<1>17. CASE LinkPublication(t)
  BY <1>1, <1>17, LinkPublicationWorks DEF LinkPublication, At
<1>18. CASE Finish(t)
  BY <1>1, <1>18, FinishWorks DEF Finish, At
<1>19. CASE Notify(t)
  <2>1. runs \in Seq(RunType) /\ UNCHANGED runs
    BY <1>19 DEF Notify, IInv, TypeOK
  <2> QED
    BY <1>19, <2>1, NotifyKeeps
<1> QED
  BY <1>2, <1>3, <1>4, <1>5, <1>6, <1>7, <1>8, <1>9, <1>10, <1>11, <1>12,
     <1>13, <1>14, <1>15, <1>16, <1>17, <1>18, <1>19 DEF Step

(* A thread leaves the Recipe, upstream, the answer of a check and the     *)
(* phase of the process alone.                                             *)
LEMMA StepWorld ==
    ASSUME NEW t \in Threads, Step(t)
    PROVE  UNCHANGED world
BY DEF Step, Authorize, Reserve, Recheck, CreateRun, CommitRun, CreatedCallback,
       SubmitRun, RunAdmitted, HandleRun, AdmitValidation, CallAdmit,
       LinkValidation, HandleValidation, Publish, CallPublish, LinkPublication,
       Finish, Notify

LEMMA ClaimKeeps ==
    ASSUME IInv, Claim
    PROVE  Chain' /\ rows' \in Seq(GenerationType)
<1>1. PICK new : new = Generation(probe.id, probe.doc, 0)
  OBVIOUS
<1>2. PICK row : row = LedgerFinish(new, "success", "baseline")
  OBVIOUS
<1>3. /\ UNCHANGED <<runs, adv, phase>> /\ probe # NoProbe
      /\ \/ UNCHANGED rows
         \/ /\ Len(rows) < MaxRows /\ RowsOf(Key(new)) = {}
            /\ \/ rows' = Append(rows, row)
               \/ rows' = Append(rows, new) /\ PolicyOf[probe.doc] # "detect"
  BY <1>1, <1>2 DEF Claim
<1>4. /\ probe.id \in Identities /\ probe.doc \in Documents
      /\ PolicyOf[probe.doc] # "manual"
      /\ Ticked /\ rows \in Seq(GenerationType)
  <2>1. runs \in Seq(RunType) /\ probe \in [doc : Documents, id : Identities]
    BY <1>3 DEF IInv, TypeOK
  <2> QED
    BY <1>3, <2>1 DEF IInv, TypeOK, ProbeOK, Eligible, Ticked
<1>5. /\ new.id = probe.id /\ new.doc = probe.doc /\ new.gen = 0
      /\ new.state = "claimed" /\ new.stage = "detection"
      /\ new.cls = "none" /\ new.code = "none"
      /\ new.pre = 0 /\ new.run = 0 /\ new.val = 0 /\ new.pub = 0
      /\ ~ new.notified /\ new \in GenerationType
  BY <1>1, <1>4 DEF Generation, GenerationType, States, Stages, Codes
<1>6. /\ row = [new EXCEPT !.state = "terminal", !.cls = "success",
                           !.code = "baseline", !.stage = "terminal"]
  BY <1>2 DEF LedgerFinish, Stopped
<1>7. /\ row.id = probe.id /\ row.doc = probe.doc /\ row.gen = 0
      /\ row.state = "terminal" /\ row.stage = "terminal"
      /\ row.cls = "success"
      /\ row.pre = 0 /\ row.run = 0 /\ row.val = 0 /\ row.pub = 0
      /\ ~ row.notified /\ row \in GenerationType
  BY <1>5, <1>6 DEF GenerationType, States, Stages, Codes, Verdicts, Stopped
<1>8. Sane(row)
  BY <1>4, <1>7 DEF Sane, ValidGeneration, Plain, Live, Stopped
<1>9. PolicyOf[probe.doc] # "detect" => Sane(new)
  BY <1>4, <1>5 DEF Sane, ValidGeneration, Plain, Live, Stopped
<1>10. RowsOf(Key(new)) = {} =>
          /\ new.gen = Cardinality(RowsOf(Key(new)))
          /\ row.gen = Cardinality(RowsOf(Key(row)))
  BY <1>5, <1>7, FS_EmptySet DEF Key
<1>11. 0 < MaxGenerations
  BY ConstantsAssumption
<1>12. CASE UNCHANGED rows
  BY <1>3, <1>4, <1>12, Ticks
<1>13. CASE /\ Len(rows) < MaxRows /\ RowsOf(Key(new)) = {}
            /\ rows' = Append(rows, row)
  BY <1>3, <1>7, <1>8, <1>10, <1>11, <1>13, RowAdded
<1>14. CASE /\ Len(rows) < MaxRows /\ RowsOf(Key(new)) = {}
            /\ rows' = Append(rows, new) /\ PolicyOf[probe.doc] # "detect"
  BY <1>3, <1>5, <1>9, <1>10, <1>11, <1>14, RowAdded
<1> QED
  BY <1>3, <1>12, <1>13, <1>14

LEMMA RetryKeeps ==
    ASSUME IInv, NEW k \in DOMAIN rows, Retry(k)
    PROVE  Chain' /\ rows' \in Seq(GenerationType)
<1>1. PICK new : new = Generation(rows[k].id, rows[k].doc, rows[k].gen + 1)
  OBVIOUS
<1>2. /\ UNCHANGED <<runs, adv, phase>> /\ Len(rows) < MaxRows
      /\ rows[k].cls \in {"terminal_failure", "cancelled", "blocked_manual"}
      /\ rows[k].gen + 1 < MaxGenerations
      /\ \A j \in RowsOf(Key(rows[k])) : j <= k
      /\ rows' = Append(rows, new)
  BY <1>1 DEF Retry, CanRetry, world
<1>3. Sane(rows[k])
  BY DEF IInv, RowsOK
<1>4. /\ rows[k].id \in Identities /\ rows[k].doc \in Documents
      /\ rows[k].gen \in Nat /\ PolicyOf[rows[k].doc] \notin {"manual", "detect"}
  BY <1>2, <1>3 DEF Sane, GenerationType, Plain, ValidGeneration
<1>5. /\ new.id = rows[k].id /\ new.doc = rows[k].doc
      /\ new.gen = rows[k].gen + 1
      /\ new.state = "claimed" /\ new.stage = "detection"
      /\ new.cls = "none" /\ new.code = "none"
      /\ new.pre = 0 /\ new.run = 0 /\ new.val = 0 /\ new.pub = 0
      /\ ~ new.notified /\ new \in GenerationType
  BY <1>1, <1>4 DEF Generation, GenerationType, States, Stages, Codes
<1>6. Sane(new)
  BY <1>4, <1>5 DEF Sane, ValidGeneration, Plain, Live, Stopped
<1>7. new.gen = Cardinality(RowsOf(Key(new)))
  <2> DEFINE same == {j \in RowsOf(Key(rows[k])) : j < k}
  <2>1. rows[k].gen = Cardinality(same)
    BY DEF IInv, GensOK
  <2>2. DOMAIN rows = 1..Len(rows) /\ Len(rows) \in Nat
    BY SeqDomain DEF IInv, TypeOK
  <2>3. IsFiniteSet(same)
    <3>1. IsFiniteSet(1..Len(rows)) /\ same \subseteq 1..Len(rows)
      BY <2>2, FS_Interval DEF RowsOf
    <3> QED
      BY <3>1, FS_Subset
  <2>4. k \notin same /\ RowsOf(Key(rows[k])) = same \cup {k}
    BY <1>2, <2>2 DEF RowsOf
  <2>5. Key(new) = Key(rows[k])
    BY <1>5 DEF Key
  <2> HIDE DEF same
  <2>6. Cardinality(same \cup {k}) = Cardinality(same) + 1
    BY <2>3, <2>4, FS_AddElement
  <2> QED
    BY <1>5, <2>1, <2>4, <2>5, <2>6
<1> QED
  BY <1>2, <1>5, <1>6, <1>7, RowAdded

(* A manager moves one Run, and the Run stays the one it was.              *)
LEMMA OneTicks ==
    ASSUME TypeOK, NEW n \in DOMAIN runs, NEW r \in RunType,
           DOMAIN runs' = DOMAIN runs, runs' \in Seq(RunType), runs'[n] = r,
           \A m \in DOMAIN runs : m # n => runs'[m] = runs[m],
           r.row = runs[n].row, r.id = runs[n].id, r.doc = runs[n].doc,
           r.mode = runs[n].mode, r.pubs = runs[n].pubs,
           Len(r.vals) = Len(runs[n].vals),
           \A v \in DOMAIN r.vals : r.vals[v].row = runs[n].vals[v].row,
           \/ r.status = runs[n].status
           \/ r.status \notin {"absent", "partial"} /\ runs[n].status \in LiveRun
    PROVE  Ticked
<1>1. ASSUME NEW m \in DOMAIN runs
      PROVE  /\ runs'[m].row = runs[m].row /\ runs'[m].id = runs[m].id
             /\ runs'[m].doc = runs[m].doc /\ runs'[m].mode = runs[m].mode
             /\ Len(runs'[m].vals) = Len(runs[m].vals)
             /\ runs'[m].pubs = runs[m].pubs
             /\ \A v \in DOMAIN runs'[m].vals :
                   runs'[m].vals[v].row = runs[m].vals[v].row
             /\ \/ runs'[m].status = runs[m].status
                \/ /\ runs'[m].status \notin {"absent", "partial"}
                   /\ runs[m].status \in LiveRun
  <2>1. CASE m = n
    BY <2>1
  <2>2. CASE m # n
    BY <2>2
  <2> QED
    BY <2>1, <2>2
<1> QED
  BY <1>1 DEF Ticked

LEMMA RunProceedsTicks ==
    ASSUME IInv, NEW n \in DOMAIN runs, RunProceeds(n)
    PROVE  Ticked
<1>1. runs \in Seq(RunType) /\ runs[n] \in RunType
  BY SeqDomain DEF IInv, TypeOK
<1>2. PICK status : /\ status \in {"running", "success", "failed", "cancelled"}
                    /\ SetRun(n, status)
  BY DEF RunProceeds
<1> DEFINE r == [runs[n] EXCEPT !.status = status]
<1>3. /\ r \in RunType /\ r.row = runs[n].row /\ r.id = runs[n].id
      /\ r.mode = runs[n].mode /\ r.doc = runs[n].doc
      /\ r.vals = runs[n].vals /\ r.pubs = runs[n].pubs /\ r.status = status
  <2>1. status \in {"absent", "partial"} \cup LiveRun \cup TerminalRun
    BY <1>2 DEF LiveRun, TerminalRun
  <2> QED
    BY <1>1, <2>1, StatusSet
<1>4. runs' = [runs EXCEPT ![n] = r]
  BY <1>2 DEF SetRun
<1> HIDE DEF r
<1>5. /\ runs' \in Seq(RunType) /\ DOMAIN runs' = DOMAIN runs /\ runs'[n] = r
      /\ \A m \in DOMAIN runs : m # n => runs'[m] = runs[m]
  BY <1>1, <1>3, <1>4
<1>6. runs[n].status \in LiveRun /\ status \notin {"absent", "partial"}
  BY <1>2 DEF RunProceeds, LiveRun
<1>7. \A v \in DOMAIN r.vals : r.vals[v].row = runs[n].vals[v].row
  BY <1>3
<1> QED
  BY <1>3, <1>5, <1>6, <1>7, OneTicks DEF IInv

LEMMA ValidationEndsTicks ==
    ASSUME IInv, NEW n \in DOMAIN runs, NEW v \in DOMAIN runs[n].vals,
           ValidationEnds(n, v)
    PROVE  Ticked
<1>1. /\ runs \in Seq(RunType) /\ runs[n] \in RunType
      /\ runs[n].vals \in Seq(AttemptType)
  <2>1. runs \in Seq(RunType) /\ runs[n] \in RunType
    BY SeqDomain DEF IInv, TypeOK
  <2> QED
    BY <2>1 DEF RunType
<1>2. PICK outcome :
         /\ outcome \in {"success", "transient", "failed", "cancelled"}
         /\ runs' = [runs EXCEPT ![n].vals[v].status = outcome]
  BY DEF ValidationEnds
<1> DEFINE a == [runs[n].vals[v] EXCEPT !.status = outcome]
           vals == [runs[n].vals EXCEPT ![v] = a]
           r == [runs[n] EXCEPT !.vals = vals]
<1>3. /\ a \in AttemptType /\ a.row = runs[n].vals[v].row
  <2>1. runs[n].vals[v] \in AttemptType
    BY <1>1, SeqDomain
  <2> QED
    BY <1>2, <2>1 DEF AttemptType
<1>4. runs' = [runs EXCEPT ![n] = r]
  BY <1>2
<1> HIDE DEF a
<1>5. /\ vals \in Seq(AttemptType) /\ Len(vals) = Len(runs[n].vals)
      /\ DOMAIN vals = DOMAIN runs[n].vals
      /\ \A w \in DOMAIN vals : vals[w].row = runs[n].vals[w].row
  BY <1>1, <1>3
<1> HIDE DEF vals
<1>6. /\ r \in RunType /\ r.row = runs[n].row /\ r.id = runs[n].id
      /\ r.mode = runs[n].mode /\ r.doc = runs[n].doc
      /\ r.vals = vals /\ r.pubs = runs[n].pubs /\ r.status = runs[n].status
  BY <1>1, <1>5 DEF RunType
<1> HIDE DEF r
<1>7. /\ runs' \in Seq(RunType) /\ DOMAIN runs' = DOMAIN runs /\ runs'[n] = r
      /\ \A m \in DOMAIN runs : m # n => runs'[m] = runs[m]
  BY <1>1, <1>4, <1>6
<1> QED
  BY <1>5, <1>6, <1>7, OneTicks DEF IInv

LEMMA RestartTicks ==
    ASSUME IInv, Restart
    PROVE  Ticked
<1>1. runs \in Seq(RunType) /\ DOMAIN runs = 1..Len(runs) /\ Len(runs) \in Nat
  BY SeqDomain DEF IInv, TypeOK
<1>2. PICK outcome \in {"active", "transient", "failed"} :
         runs' = [n \in DOMAIN runs |->
                     [runs[n] EXCEPT
                        !.status = IF @ \in {"pending", "queued", "running"}
                                   THEN "failed" ELSE @,
                        !.vals = [v \in DOMAIN @ |->
                           IF @[v].status = "active"
                           THEN [@[v] EXCEPT !.status = outcome] ELSE @[v]]]]
  BY DEF Restart
<1>3. ASSUME NEW n \in DOMAIN runs
      PROVE  /\ runs'[n] \in RunType
             /\ runs'[n].row = runs[n].row /\ runs'[n].id = runs[n].id
             /\ runs'[n].doc = runs[n].doc /\ runs'[n].mode = runs[n].mode
             /\ Len(runs'[n].vals) = Len(runs[n].vals)
             /\ runs'[n].pubs = runs[n].pubs
             /\ \A v \in DOMAIN runs'[n].vals :
                   runs'[n].vals[v].row = runs[n].vals[v].row
             /\ \/ runs'[n].status = runs[n].status
                \/ /\ runs'[n].status \notin {"absent", "partial"}
                   /\ runs[n].status \in LiveRun
  <2> DEFINE vals == [v \in DOMAIN runs[n].vals |->
                        IF runs[n].vals[v].status = "active"
                        THEN [runs[n].vals[v] EXCEPT !.status = outcome]
                        ELSE runs[n].vals[v]]
             status == IF runs[n].status \in {"pending", "queued", "running"}
                       THEN "failed" ELSE runs[n].status
  <2>1. runs[n] \in RunType /\ runs[n].vals \in Seq(AttemptType)
    <3>1. runs[n] \in RunType
      BY <1>1, SeqDomain
    <3> QED
      BY <3>1 DEF RunType
  <2>2. /\ Len(runs[n].vals) \in Nat
        /\ DOMAIN runs[n].vals = 1..Len(runs[n].vals)
    BY <2>1, SeqDomain
  <2>3. ASSUME NEW v \in DOMAIN runs[n].vals
        PROVE  vals[v] \in AttemptType /\ vals[v].row = runs[n].vals[v].row
    <3>1. runs[n].vals[v] \in AttemptType
      BY <2>1, SeqDomain
    <3> QED
      BY <1>2, <3>1 DEF AttemptType
  <2>4. /\ vals \in Seq(AttemptType) /\ DOMAIN vals = DOMAIN runs[n].vals
        /\ Len(vals) = Len(runs[n].vals)
    <3>1. vals = [v \in 1..Len(runs[n].vals) |-> vals[v]]
      BY <2>2
    <3>2. \A v \in 1..Len(runs[n].vals) : vals[v] \in AttemptType
      BY <2>2, <2>3
    <3> HIDE DEF vals
    <3> QED
      BY <2>2, <3>1, <3>2
  <2>5. runs'[n] = [runs[n] EXCEPT !.status = status, !.vals = vals]
    BY <1>2
  <2>6. status \in {"absent", "partial"} \cup LiveRun \cup TerminalRun
    BY <2>1 DEF RunType, TerminalRun
  <2>7. \/ status = runs[n].status
        \/ status \notin {"absent", "partial"} /\ runs[n].status \in LiveRun
    BY DEF LiveRun
  <2>8. \A v \in DOMAIN vals : vals[v].row = runs[n].vals[v].row
    BY <2>3, <2>4
  <2> HIDE DEF vals, status
  <2>9. /\ runs'[n] \in RunType /\ runs'[n].vals = vals
        /\ runs'[n].status = status
        /\ runs'[n].row = runs[n].row /\ runs'[n].id = runs[n].id
        /\ runs'[n].doc = runs[n].doc /\ runs'[n].mode = runs[n].mode
        /\ runs'[n].pubs = runs[n].pubs
    BY <2>1, <2>4, <2>5, <2>6 DEF RunType
  <2> QED
    BY <2>4, <2>7, <2>8, <2>9
<1>4. DOMAIN runs' = DOMAIN runs
  BY <1>2
<1>5. runs' \in Seq(RunType)
  <2>1. runs' = [n \in 1..Len(runs) |-> runs'[n]]
    BY <1>1, <1>2
  <2>2. \A n \in 1..Len(runs) : runs'[n] \in RunType
    BY <1>1, <1>3
  <2> QED
    BY <1>1, <2>1, <2>2
<1> QED
  BY <1>3, <1>4, <1>5 DEF Ticked

(* The steps of everyone but the threads.                                  *)
LEMMA OthersKeep ==
    ASSUME IInv,
           \/ Detect \/ Claim \/ ManualRun \/ Close \/ Exit \/ Crash \/ Restart
           \/ \E k \in DOMAIN rows : Retry(k)
           \/ \E d \in Documents : EditRecipe(d)
           \/ \E i \in Identities : UpstreamMoves(i)
           \/ \E n \in DOMAIN runs :
                 RunProceeds(n) \/ \E v \in DOMAIN runs[n].vals : ValidationEnds(n, v)
           \/ UNCHANGED vars
    PROVE  /\ Chain' /\ rows' \in Seq(GenerationType)
           /\ runs' \in Seq(RunType) /\ adv' \in [Threads -> AdvanceType]
<1>1. /\ rows \in Seq(GenerationType) /\ runs \in Seq(RunType)
      /\ adv \in [Threads -> AdvanceType] /\ Idle \in AdvanceType
      /\ recipe \in Documents /\ upstream \in Identities /\ TypeOK
  BY IdleType DEF IInv, TypeOK
<1>2. UNCHANGED runs => Ticked
  BY <1>1 DEF Ticked
<1>3. ASSUME UNCHANGED <<rows, runs, adv>>,
             phase' = phase \/ (phase = "up" /\ phase' = "closing")
      PROVE  /\ Chain' /\ rows' \in Seq(GenerationType)
             /\ runs' \in Seq(RunType) /\ adv' \in [Threads -> AdvanceType]
  BY <1>1, <1>2, <1>3, Ticks
<1>4. CASE Detect
  BY <1>3, <1>4 DEF Detect
<1>5. CASE Claim
  BY <1>1, <1>5, ClaimKeeps DEF Claim
<1>6. CASE ManualRun
  <2> DEFINE new == [row |-> 0, id |-> upstream, doc |-> recipe,
                     mode |-> "build", status |-> "running",
                     vals |-> <<>>, pubs |-> <<>>]
  <2>1. /\ new \in RunType /\ new.row = 0 /\ new.vals = <<>>
        /\ new.status # "partial"
    BY <1>1 DEF RunType, LiveRun
  <2>2. runs' = Append(runs, new) /\ UNCHANGED <<rows, adv, phase>>
    BY <1>6 DEF ManualRun, world
  <2> HIDE DEF new
  <2>3. Chain' /\ runs' \in Seq(RunType)
    BY <1>1, <2>1, <2>2, ForeignRunAdded, RunAppended
  <2> QED
    BY <1>1, <2>2, <2>3
<1>7. CASE Close
  BY <1>3, <1>7 DEF Close
<1>8. CASE Exit
  <2>1. /\ \A t \in Threads : adv'[t] = Idle
        /\ UNCHANGED <<rows, runs, adv>> /\ phase' = "down"
    BY <1>8 DEF Exit
  <2> QED
    BY <1>1, <2>1, Ends
<1>9. CASE Crash
  <2>1. /\ adv' = [t \in Threads |-> Idle]
        /\ UNCHANGED <<rows, runs>> /\ phase' = "down"
    BY <1>9 DEF Crash
  <2> QED
    BY <1>1, <2>1, Ends
<1>10. CASE Restart
  <2>1. Ticked /\ UNCHANGED <<rows, adv>> /\ phase = "down"
        /\ \/ phase' = "blocked"
           \/ phase' = "up" /\ \A n \in DOMAIN runs : runs[n].status # "partial"
    BY <1>10, RestartTicks DEF Restart
  <2> QED
    BY <1>1, <2>1, Ticks DEF Ticked
<1>11. ASSUME NEW k \in DOMAIN rows, Retry(k)
       PROVE  /\ Chain' /\ rows' \in Seq(GenerationType)
              /\ runs' \in Seq(RunType) /\ adv' \in [Threads -> AdvanceType]
  BY <1>1, <1>11, RetryKeeps DEF Retry
<1>12. ASSUME NEW d \in Documents, EditRecipe(d)
       PROVE  /\ Chain' /\ rows' \in Seq(GenerationType)
              /\ runs' \in Seq(RunType) /\ adv' \in [Threads -> AdvanceType]
  BY <1>3, <1>12 DEF EditRecipe
<1>13. ASSUME NEW i \in Identities, UpstreamMoves(i)
       PROVE  /\ Chain' /\ rows' \in Seq(GenerationType)
              /\ runs' \in Seq(RunType) /\ adv' \in [Threads -> AdvanceType]
  BY <1>3, <1>13 DEF UpstreamMoves
<1>14. ASSUME NEW n \in DOMAIN runs,
              \/ RunProceeds(n)
              \/ \E v \in DOMAIN runs[n].vals : ValidationEnds(n, v)
       PROVE  /\ Chain' /\ rows' \in Seq(GenerationType)
              /\ runs' \in Seq(RunType) /\ adv' \in [Threads -> AdvanceType]
  <2>1. Ticked
    BY <1>14, RunProceedsTicks, ValidationEndsTicks
  <2>2. UNCHANGED <<rows, adv, phase>>
    BY <1>14 DEF RunProceeds, ValidationEnds, world
  <2> QED
    BY <1>1, <2>1, <2>2, Ticks DEF Ticked
<1>15. CASE UNCHANGED vars
  BY <1>3, <1>15 DEF vars
<1> QED
  BY <1>4, <1>5, <1>6, <1>7, <1>8, <1>9, <1>10, <1>11, <1>12, <1>13, <1>14,
     <1>15

(* The Recipe, upstream, and the answer of a check.                        *)
LEMMA WorldKept ==
    ASSUME IInv, [Next]_vars
    PROVE  /\ phase' \in {"up", "closing", "down", "blocked"}
           /\ recipe' \in Documents /\ upstream' \in Identities
           /\ probe' \in [doc : Documents, id : Identities] \cup {NoProbe}
           /\ ProbeOK'
<1>1. /\ phase \in {"up", "closing", "down", "blocked"}
      /\ recipe \in Documents /\ upstream \in Identities
      /\ probe \in [doc : Documents, id : Identities] \cup {NoProbe}
      /\ ProbeOK
  BY DEF IInv, TypeOK
<1>2. ASSUME probe' = probe \/ probe' = NoProbe
      PROVE  /\ probe' \in [doc : Documents, id : Identities] \cup {NoProbe}
             /\ ProbeOK'
  BY <1>1, <1>2 DEF ProbeOK, Eligible
<1>3. ASSUME NEW t \in Threads, Step(t) \/ \E k \in DOMAIN rows : Advance(t, k)
      PROVE  UNCHANGED world
  BY <1>3, StepWorld DEF Advance
<1>4. CASE \E t \in Threads : Step(t) \/ \E k \in DOMAIN rows : Advance(t, k)
  BY <1>1, <1>2, <1>3, <1>4 DEF world
<1>5. CASE Detect
  <2>1. /\ probe' = [doc |-> recipe, id |-> upstream]
        /\ Eligible(recipe) /\ UNCHANGED <<phase, recipe, upstream>>
    BY <1>5 DEF Detect
  <2>2. /\ probe' \in [doc : Documents, id : Identities]
        /\ probe'.doc = recipe
    BY <1>1, <2>1
  <2>3. ProbeOK'
    BY <2>1, <2>2 DEF ProbeOK, Eligible
  <2> QED
    BY <1>1, <2>1, <2>2, <2>3
<1>6. CASE Claim
  BY <1>1, <1>2, <1>6 DEF Claim
<1>7. CASE \E k \in DOMAIN rows : Retry(k)
  BY <1>1, <1>2, <1>7 DEF Retry, world
<1>8. CASE \E d \in Documents : EditRecipe(d)
  BY <1>1, <1>2, <1>8 DEF EditRecipe
<1>9. CASE \E i \in Identities : UpstreamMoves(i)
  BY <1>1, <1>2, <1>9 DEF UpstreamMoves
<1>10. CASE ManualRun
  BY <1>1, <1>2, <1>10 DEF ManualRun, world
<1>11. CASE \E n \in DOMAIN runs :
               RunProceeds(n) \/ \E v \in DOMAIN runs[n].vals : ValidationEnds(n, v)
  BY <1>1, <1>2, <1>11 DEF RunProceeds, ValidationEnds, world
<1>12. CASE Close
  BY <1>1, <1>2, <1>12 DEF Close
<1>13. CASE Exit \/ Crash
  BY <1>1, <1>2, <1>13 DEF Exit, Crash
<1>14. CASE Restart
  BY <1>1, <1>2, <1>14 DEF Restart
<1>15. CASE UNCHANGED vars
  BY <1>1, <1>2, <1>15 DEF vars
<1> QED
  BY <1>4, <1>5, <1>6, <1>7, <1>8, <1>9, <1>10, <1>11, <1>12, <1>13, <1>14,
     <1>15 DEF Next

-----------------------------------------------------------------------------
(* The invariant holds at the start, and every step keeps it.              *)

LEMMA InitIInv == Init => IInv
<1> SUFFICES ASSUME Init PROVE IInv
  OBVIOUS
<1>1. /\ rows = <<>> /\ runs = <<>> /\ probe = NoProbe /\ phase = "up"
      /\ adv = [t \in Threads |-> Idle]
      /\ recipe \in Documents /\ upstream \in Identities
      /\ Idle \in AdvanceType /\ Idle.row = 0 /\ Idle.pc = "idle"
  BY IdleType, ConstantsAssumption DEF Init, Idle
<1>2. DOMAIN rows = {} /\ DOMAIN runs = {} /\ Len(rows) = 0
  BY <1>1
<1>3. TypeOK
  BY <1>1 DEF TypeOK
<1>4. GensOK
  BY <1>2, ConstantsAssumption DEF GensOK
<1>5. ThreadsOK
  BY <1>1 DEF ThreadsOK, ThreadFits, LocksOK, Opened
<1> QED
  BY <1>1, <1>2, <1>3, <1>4, <1>5
     DEF IInv, ProbeOK, RowsOK, TurnsOK, RunsOK, OneUnderWay

LEMMA NextIInv == IInv /\ [Next]_vars => IInv'
<1> SUFFICES ASSUME IInv, [Next]_vars PROVE IInv'
  OBVIOUS
<1> DEFINE Kept == /\ Chain' /\ rows' \in Seq(GenerationType)
                   /\ runs' \in Seq(RunType)
                   /\ adv' \in [Threads -> AdvanceType]
<1>1. ASSUME NEW t \in Threads, Step(t)
      PROVE  Kept
  BY <1>1, StepKeeps
<1>2. ASSUME NEW t \in Threads, NEW k \in DOMAIN rows, Advance(t, k)
      PROVE  Kept
  <2>1. /\ UNCHANGED <<rows, runs>>
        /\ rows \in Seq(GenerationType) /\ runs \in Seq(RunType)
    BY <1>2 DEF Advance, IInv, TypeOK
  <2> QED
    BY <1>2, <2>1, AdvanceKeeps
<1>3. Kept
  <2>1. CASE \E t \in Threads : Step(t) \/ \E k \in DOMAIN rows : Advance(t, k)
    BY <1>1, <1>2, <2>1
  <2>2. CASE ~ \E t \in Threads : Step(t) \/ \E k \in DOMAIN rows : Advance(t, k)
    BY <2>2, OthersKeep DEF Next
  <2> QED
    BY <2>1, <2>2
<1> QED
  BY <1>3, WorldKept DEF IInv, TypeOK, Chain

LEMMA Inductive == Spec => []IInv
BY InitIInv, NextIInv, PTL DEF Spec

-----------------------------------------------------------------------------
(* The results.                                                            *)

(* Every document that the orchestrator saves is one that _save_unlocked() *)
(* accepts, and names Runs and attempts that exist.                        *)
THEOREM Accepts == Spec => []LedgerAccepts
<1>1. IInv => LedgerAccepts
  <2> SUFFICES ASSUME IInv PROVE LedgerAccepts
    OBVIOUS
  <2>1. TypeOK /\ GensOK /\ \A k \in DOMAIN rows : Sane(rows[k])
    BY DEF IInv, RowsOK
  <2>2. LinksExist
    <3> SUFFICES ASSUME NEW k \in DOMAIN rows
                 PROVE  /\ rows[k].pre \in 0..Len(runs)
                        /\ rows[k].run \in 0..Len(runs)
                        /\ rows[k].run # 0 =>
                              /\ rows[k].val \in 0..Len(runs[rows[k].run].vals)
                              /\ rows[k].pub \in 0..Len(runs[rows[k].run].pubs)
      BY DEF LinksExist
    <3>1. RowFits(k, rows[k], runs) /\ Sane(rows[k])
      BY DEF IInv, RowsOK
    <3>2. DOMAIN runs = 1..Len(runs) /\ Len(runs) \in Nat
      BY SeqDomain DEF IInv, TypeOK
    <3>3. rows[k].pre \in 0..Len(runs)
      BY <3>1, <3>2 DEF RowFits
    <3>4. rows[k].run = 0 \/ rows[k].run = rows[k].pre
      BY <3>1 DEF Sane, ValidGeneration
    <3> QED
      BY <3>1, <3>2, <3>3, <3>4 DEF RowFits
  <2>3. ValidLedger
    BY <2>1 DEF ValidLedger, GensOK, Sane
  <2> QED
    BY <2>1, <2>2, <2>3 DEF LedgerAccepts
<1> QED
  BY <1>1, Inductive, PTL

(* An upstream identity is built once.                                     *)
THEOREM BuiltOnce == Spec => []OneRunPerIdentity
<1>1. IInv => OneRunPerIdentity
  BY DEF IInv, OneUnderWay, OneRunPerIdentity, Under
<1> QED
  BY <1>1, Inductive, PTL

(* The Run of a row was made for that row, from the document it claimed.   *)
THEOREM Bound == Spec => []RunIsBound
<1>1. IInv => RunIsBound
  <2> SUFFICES ASSUME IInv, NEW k \in DOMAIN rows, rows[k].run # 0
               PROVE  /\ runs[rows[k].run].row = k
                      /\ runs[rows[k].run].doc = rows[k].doc
                      /\ runs[rows[k].run].status \notin {"absent", "partial"}
    BY DEF RunIsBound
  <2>1. RowFits(k, rows[k], runs) /\ Sane(rows[k])
    BY DEF IInv, RowsOK
  <2>2. rows[k].run = rows[k].pre
    BY <2>1 DEF Sane, ValidGeneration
  <2> QED
    BY <2>1, <2>2 DEF RowFits
<1> QED
  BY <1>1, Inductive, PTL

(* A thread writes to the row it advances, which has not stopped, or marks *)
(* a stopped one as notified.                                              *)
LEMMA StepStores ==
    ASSUME IInv, NEW t \in Threads, Step(t), NEW k \in DOMAIN rows,
           rows[k].state \in Stopped
    PROVE  rows'[k] = rows[k] \/ rows'[k] = MarkNotified(rows[k])
<1>1. rows \in Seq(GenerationType)
  BY DEF IInv, TypeOK
<1>2. ASSUME NEW row, Store(t, row), adv[t].pc \notin {"idle", "notify"}
      PROVE  rows'[k] = rows[k]
  <2>1. k # adv[t].row
    BY <1>2, WorkFacts DEF Live, Row
  <2> QED
    BY <1>1, <1>2, <2>1 DEF Store
<1>3. CASE UNCHANGED rows
  BY <1>3
<1>4. CASE Notify(t)
  BY <1>1, <1>4 DEF Notify, Store, Row
<1>5. ASSUME NEW row, NEW outcome, PublicationFailed(t, row, outcome)
      PROVE  \E new : Store(t, new)
  BY <1>5 DEF PublicationFailed
<1>6. AdmissionFails(t) => UNCHANGED rows \/ \E row : Store(t, row)
  BY DEF AdmissionFails
<1>7. CASE Authorize(t) \/ Recheck(t) \/ HandleRun(t) \/ CommitRun(t)
  BY <1>3, <1>7 DEF Authorize, Recheck, HandleRun, CommitRun
<1>8. CASE Reserve(t)
  BY <1>2, <1>3, <1>8 DEF Reserve, At
<1>9. CASE CreateRun(t) \/ SubmitRun(t) \/ CallAdmit(t)
  BY <1>2, <1>3, <1>6, <1>9 DEF CreateRun, SubmitRun, CallAdmit, At
<1>10. CASE CreatedCallback(t) \/ RunAdmitted(t) \/ LinkValidation(t)
  BY <1>2, <1>10 DEF CreatedCallback, RunAdmitted, LinkValidation, At
<1>11. CASE AdmitValidation(t)
  BY <1>2, <1>3, <1>11 DEF AdmitValidation, At
<1>12. CASE HandleValidation(t)
  BY <1>2, <1>12, HandleValidationCases DEF HandleValidation, At
<1>13. CASE Publish(t)
  BY <1>2, <1>3, <1>5, <1>13 DEF Publish, At
<1>14. CASE CallPublish(t)
  BY <1>2, <1>3, <1>5, <1>14 DEF CallPublish, At
<1>15. CASE LinkPublication(t)
  BY <1>2, <1>5, <1>15 DEF LinkPublication, At
<1>16. CASE Finish(t)
  BY <1>2, <1>16 DEF Finish, At
<1> QED
  BY <1>4, <1>7, <1>8, <1>9, <1>10, <1>11, <1>12, <1>13, <1>14, <1>15, <1>16
     DEF Step

(* A stopped generation keeps its classification and its links.            *)
THEOREM VerdictsStand == Spec => VerdictStands
<1> DEFINE Stands == \A k \in DOMAIN rows :
                        rows[k].state \in Stopped =>
                           rows'[k] = rows[k] \/ rows'[k] = MarkNotified(rows[k])
<1>1. ASSUME IInv, [Next]_vars
      PROVE  Stands
  <2> SUFFICES ASSUME NEW k \in DOMAIN rows, rows[k].state \in Stopped
               PROVE  rows'[k] = rows[k] \/ rows'[k] = MarkNotified(rows[k])
    OBVIOUS
  <2>1. rows \in Seq(GenerationType)
    BY <1>1 DEF IInv, TypeOK
  <2>2. CASE \E t \in Threads : Step(t)
    BY <1>1, <2>2, StepStores
  <2>3. CASE UNCHANGED rows
    BY <2>3
  <2>4. CASE Claim
    <3>1. UNCHANGED rows \/ \E new : rows' = Append(rows, new)
      BY <2>4 DEF Claim
    <3> QED
      BY <2>1, <3>1
  <2>5. CASE \E j \in DOMAIN rows : Retry(j)
    <3>1. \E new : rows' = Append(rows, new)
      BY <2>5 DEF Retry
    <3> QED
      BY <2>1, <3>1
  <2> QED
    BY <1>1, <2>2, <2>3, <2>4, <2>5
       DEF Next, Advance, Detect, EditRecipe, UpstreamMoves, ManualRun,
           RunProceeds, ValidationEnds, Close, Exit, Crash, Restart, world, vars
<1>2. IInv /\ [Next]_vars => [Stands]_vars
  BY <1>1
<1> QED
  BY <1>2, Inductive, PTL DEF Spec, VerdictStands
=============================================================================
