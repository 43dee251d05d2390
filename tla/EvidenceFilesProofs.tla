--------------------------- MODULE EvidenceFilesProofs ---------------------------
(***************************************************************************)
(* Proofs about EvidenceFiles, for any number of orders, tasks, links,     *)
(* files and uploads, and anything an analysis may read.                   *)
(***************************************************************************)
EXTENDS EvidenceFiles, WellFoundedInduction, TLAPS

(***************************************************************************)
(* The inductive invariant                                                 *)
(***************************************************************************)

TaskRow == [order : Orders \cup {None}, status : TaskStatus,
            by : {"nobody", "file", "machine", "person"}]

LinkRow == [task : Tasks \cup {None}, open : BOOLEAN, uses : 0 .. MaxUses, brought : Nat]

FileRow == [status : FileStatus, read : Reading, attached : Orders \cup {None}]

MatchRow == [status : MatchStatus, score : 0 .. 100]

UploadRow == [task : Tasks \cup {None}, link : Links \cup {None},
              claim : ClaimStatus, uses : 0 .. MaxUses]

(* A row has an order exactly when it is in use, and what was not closed   *)
(* by a person was closed by a receipt.                                    *)
TasksOK ==
    /\ task \in [Tasks -> TaskRow]
    /\ \A t \in Tasks : task[t].status = "none" <=> task[t].order = None
    /\ ClosedTasksAreProven

(* What a link brought has completed the task of the link.                 *)
LinksOK ==
    /\ link \in [Links -> LinkRow]
    /\ \A l \in Links :
          /\ link[l].task = None => ~link[l].open
          /\ link[l].task # None => task[link[l].task].status # "none"
          /\ link[l].brought > 0 =>
                link[l].task # None /\ task[link[l].task].status = "completed"

(* An upload goes on with the task of its link and a counter that was      *)
(* below the limit.                                                        *)
UploadsOK ==
    /\ upload \in [Requests -> UploadRow]
    /\ \A r \in Requests :
          /\ upload[r].task # None => task[upload[r].task].status # "none"
          /\ upload[r].link # None =>
                /\ upload[r].task # None
                /\ link[upload[r].link].task = upload[r].task
                /\ upload[r].uses < MaxUses

ClaimsOK ==
    /\ claim \in [Orders -> ClaimStatus]
    /\ kinds \in [Orders -> SUBSET Kinds]
    /\ ReadyIsProven

CopiesOK ==
    /\ file \in [Files -> FileRow]
    /\ match \in [Files -> [Candidate -> MatchRow]]
    /\ OneCopyIsOpen

IInv == TasksOK /\ LinksOK /\ UploadsOK /\ ClaimsOK /\ CopiesOK

Assumptions == EvidenceAssumption /\ ReadingsAssumption

(***************************************************************************)
(* Numbers of rows                                                         *)
(***************************************************************************)

(* A set of row numbers has a first one. *)
LEMMA FirstRow ==
    ASSUME NEW T \in SUBSET Nat, T # {}
    PROVE  \E x \in T : \A y \in T : x <= y
<1> DEFINE R == OpToRel(<, Nat)
<1>1. IsWellFoundedOn(R, Nat)
  BY NatLessThanWellFounded
<1>2. \A x, y \in Nat : <<y, x>> \in R <=> y < x
  BY DEF OpToRel
<1> HIDE DEF R
<1>3. PICK x \in T : \A y \in T : ~ (<<y, x>> \in R)
  BY <1>1, WFMin
<1>4. \A y \in T : ~ (y < x)
  <2> SUFFICES ASSUME NEW y \in T, y < x
               PROVE  FALSE
    OBVIOUS
  <2>1. x \in Nat /\ y \in Nat
    OBVIOUS
  <2> QED BY <1>2, <1>3, <2>1, Zenon
<1> QED BY <1>4

(* The row a new task is written in is one that is not in use. *)
LEMMA NextRow ==
    ASSUME Assumptions, NEW o \in Orders, AddTask(o)
    PROVE  \E t \in Tasks :
              /\ task[t].status = "none"
              /\ task' = [task EXCEPT ![t] = [order |-> o, status |-> "pending", by |-> "nobody"]]
<1>1. Unused \in SUBSET Nat /\ Unused # {}
  BY DEF Assumptions, EvidenceAssumption, Unused, AddTask
<1>2. \E t \in Unused : \A u \in Unused : t <= u
  BY <1>1, FirstRow
<1> DEFINE t == CHOOSE t \in Unused : \A u \in Unused : t <= u
<1>3. t \in Unused
  BY <1>2
<1>4. task' = [task EXCEPT ![t] = [order |-> o, status |-> "pending", by |-> "nobody"]]
  BY DEF AddTask
<1> HIDE DEF t
<1> QED BY <1>3, <1>4 DEF Unused

(***************************************************************************)
(* What a step does to the tasks                                           *)
(***************************************************************************)

(* A row in use keeps its order, and what is completed stays so. *)
TasksMove ==
    \A t \in Tasks :
        /\ task[t].status # "none" =>
              task'[t].status # "none" /\ task'[t].order = task[t].order
        /\ task[t].status = "completed" => task'[t].status = "completed"

LEMMA LinksStay ==
    ASSUME LinksOK, TasksMove, UNCHANGED link
    PROVE  LinksOK'
BY DEF LinksOK, TasksMove, LinkRow

LEMMA UploadsStay ==
    ASSUME UploadsOK, TasksMove, UNCHANGED <<link, upload>>
    PROVE  UploadsOK'
BY DEF UploadsOK, TasksMove, UploadRow

(* A step that writes one task, with the evidence that is there after it.  *)
LEMMA TaskStep ==
    ASSUME TasksOK, NEW t \in Tasks, NEW row \in TaskRow, task' = [task EXCEPT ![t] = row],
           row.status # "none" /\ row.order # None,
           task[t].status # "none" => row.order = task[t].order,
           task[t].status = "completed" => row.status = "completed",
           \A o \in Orders : kinds[o] \subseteq kinds'[o],
           row.status = "completed" /\ row.by # "person" => "receipt" \in kinds'[row.order]
    PROVE  TasksOK' /\ TasksMove
<1>1. \A u \in Tasks : task'[u] = IF u = t THEN row ELSE task[u]
  BY DEF TasksOK
<1>2. TasksMove
  BY <1>1 DEF TasksMove
<1>3. task' \in [Tasks -> TaskRow]
  BY DEF TasksOK
<1>4. \A u \in Tasks : task'[u].status = "none" <=> task'[u].order = None
  BY <1>1 DEF TasksOK
<1>5. ClosedTasksAreProven'
  <2> SUFFICES ASSUME NEW u \in Tasks, task'[u].status = "completed", task'[u].by # "person"
               PROVE  "receipt" \in kinds'[task'[u].order]
    BY DEF ClosedTasksAreProven
  <2>1. CASE u = t
    BY <1>1, <2>1
  <2>2. CASE u # t
    <3>1. "receipt" \in kinds[task[u].order] /\ task'[u] = task[u]
      BY <1>1, <2>2 DEF TasksOK, ClosedTasksAreProven
    <3>2. task[u].order \in Orders
      <4>1. task[u] \in TaskRow /\ task[u].order # None
        BY <1>1, <2>2 DEF TasksOK
      <4> QED BY <4>1 DEF TaskRow
    <3> QED BY <3>1, <3>2
  <2> QED BY <2>1, <2>2
<1> QED BY <1>2, <1>3, <1>4, <1>5 DEF TasksOK

LEMMA TasksStay ==
    ASSUME TasksOK, UNCHANGED task, \A o \in Orders : kinds[o] \subseteq kinds'[o]
    PROVE  TasksOK' /\ TasksMove
<1>1. ClosedTasksAreProven'
  <2> SUFFICES ASSUME NEW u \in Tasks, task[u].status = "completed", task[u].by # "person"
               PROVE  "receipt" \in kinds'[task[u].order]
    BY DEF ClosedTasksAreProven
  <2>1. "receipt" \in kinds[task[u].order] /\ task[u] \in TaskRow /\ task[u].order # None
    BY DEF TasksOK, ClosedTasksAreProven
  <2> QED BY <2>1 DEF TaskRow
<1> QED BY <1>1 DEF TasksOK, TasksMove

(* A step that touches tasks alone. *)
LEMMA OnlyTasksStep ==
    ASSUME IInv, OnlyTasks, TasksOK', TasksMove
    PROVE  IInv'
<1>1. ClaimsOK' /\ CopiesOK'
  BY DEF IInv, OnlyTasks, ClaimsOK, CopiesOK, ReadyIsProven, OneCopyIsOpen
<1> QED BY <1>1, LinksStay, UploadsStay DEF IInv, OnlyTasks

LEMMA TaskActions ==
    ASSUME Assumptions, IInv
    PROVE  /\ \A o \in Orders : RecalculateTasks(o) \/ AskForDispute(o) => IInv'
           /\ \A t \in Tasks : SkipTask(t) \/ CompleteTask(t) => IInv'
<1>0. None \notin Orders /\ TasksOK
  BY DEF Assumptions, EvidenceAssumption, None, IInv
<1>1. ASSUME NEW o \in Orders, AddTask(o), OnlyTasks
      PROVE  IInv'
  <2> DEFINE row == [order |-> o, status |-> "pending", by |-> "nobody"]
  <2>1. PICK t \in Tasks : task[t].status = "none" /\ task' = [task EXCEPT ![t] = row]
    BY <1>1, NextRow
  <2>2. row \in TaskRow /\ row.status = "pending" /\ row.order # None
    BY <1>0 DEF TaskRow, TaskStatus
  <2> HIDE DEF row
  <2>3. TasksOK' /\ TasksMove
    BY <1>0, <1>1, <2>1, <2>2, TaskStep DEF OnlyTasks
  <2> QED BY <1>1, <2>3, OnlyTasksStep
<1>2. ASSUME NEW o \in Orders, RecalculateTasks(o), Proven(kinds[o])
      PROVE  IInv'
  <2>1. task' = [t \in Tasks |-> IF t \in Satisfied(o)
                    THEN [task[t] EXCEPT !.status = "completed", !.by = "machine"] ELSE task[t]]
        /\ OnlyTasks
    BY <1>2 DEF RecalculateTasks
  <2>2. ASSUME NEW t \in Tasks
        PROVE  /\ task[t] \in TaskRow
               /\ t \in Satisfied(o) =>
                    "receipt" \in kinds[o] /\ task[t].order = o /\ task[t].status = "pending"
    BY <1>0 DEF Satisfied, ActiveTasks, ACTIVE_TASK_STATUSES, TasksOK
  <2>3. ASSUME NEW t \in Tasks
        PROVE  /\ task'[t] \in TaskRow
               /\ task'[t].order = task[t].order
               /\ t \in Satisfied(o) => task'[t].status = "completed"
               /\ t \notin Satisfied(o) => task'[t] = task[t]
    BY <2>1, <2>2 DEF TaskRow, TaskStatus
  <2>4. task' \in [Tasks -> TaskRow]
    BY <2>1, <2>3
  <2>5. TasksMove
    BY <2>2, <2>3 DEF TasksMove
  <2>6. \A t \in Tasks : task'[t].status = "none" <=> task'[t].order = None
    BY <1>0, <2>2, <2>3 DEF TasksOK
  <2>7. ClosedTasksAreProven'
    <3>1. UNCHANGED kinds
      BY <2>1 DEF OnlyTasks
    <3> SUFFICES ASSUME NEW t \in Tasks, task'[t].status = "completed", task'[t].by # "person"
                 PROVE  "receipt" \in kinds[task'[t].order]
      BY <3>1 DEF ClosedTasksAreProven
    <3>2. CASE t \in Satisfied(o)
      BY <2>2, <2>3, <3>2
    <3>3. CASE t \notin Satisfied(o)
      BY <1>0, <2>3, <3>3 DEF TasksOK, ClosedTasksAreProven
    <3> QED BY <3>2, <3>3
  <2> QED BY <2>1, <2>4, <2>5, <2>6, <2>7, OnlyTasksStep DEF TasksOK
<1>3. ASSUME NEW t \in Tasks, SkipTask(t)
      PROVE  IInv'
  <2> DEFINE row == [task[t] EXCEPT !.status = "skipped"]
  <2>1. row \in TaskRow /\ row.status = "skipped" /\ row.order = task[t].order
        /\ row.order # None
    BY <1>0, <1>3 DEF SkipTask, TasksOK, TaskRow, TaskStatus
  <2>2. task' = [task EXCEPT ![t] = row] /\ OnlyTasks /\ task[t].status # "completed"
    BY <1>0, <1>3 DEF SkipTask, TasksOK
  <2> HIDE DEF row
  <2>3. TasksOK' /\ TasksMove
    BY <1>0, <2>1, <2>2, TaskStep DEF OnlyTasks
  <2> QED BY <2>2, <2>3, OnlyTasksStep
<1>4. ASSUME NEW t \in Tasks, CompleteTask(t)
      PROVE  IInv'
  <2> DEFINE row == [task[t] EXCEPT !.status = "completed", !.by = "person"]
  <2>1. row \in TaskRow /\ row.status = "completed" /\ row.by = "person"
        /\ row.order = task[t].order /\ row.order # None
    BY <1>0, <1>4 DEF CompleteTask, TasksOK, TaskRow, TaskStatus
  <2>2. task' = [task EXCEPT ![t] = row] /\ OnlyTasks
    BY <1>0, <1>4 DEF CompleteTask, TasksOK
  <2> HIDE DEF row
  <2>3. TasksOK' /\ TasksMove
    BY <1>0, <2>1, <2>2, TaskStep DEF OnlyTasks
  <2> QED BY <2>2, <2>3, OnlyTasksStep
<1> QED BY <1>1, <1>2, <1>3, <1>4 DEF RecalculateTasks, AskForDispute

(***************************************************************************)
(* Links and uploads                                                       *)
(***************************************************************************)

(* A task in use names an order. *)
LEMMA OrderOfTask ==
    ASSUME TasksOK, NEW t \in Tasks, task[t].status # "none"
    PROVE  task[t] \in TaskRow /\ task[t].order \in Orders
BY DEF TasksOK, TaskRow

LEMMA LinkActions ==
    ASSUME Assumptions, IInv, NEW l \in Links,
           CloseLink(l) \/ \E t \in Tasks : CreateLink(l, t)
    PROVE  IInv'
<1>1. /\ UNCHANGED <<claim, kinds, task, file, match, upload>>
      /\ MaxUses \in Nat /\ None \notin Tasks /\ None \notin Links
  BY DEF CloseLink, CreateLink, Assumptions, EvidenceAssumption, None
<1>2. TasksOK' /\ ClaimsOK' /\ CopiesOK'
  BY <1>1 DEF IInv, TasksOK, ClosedTasksAreProven, ClaimsOK, ReadyIsProven, CopiesOK, OneCopyIsOpen
<1>3. LinksOK /\ UploadsOK
  BY DEF IInv
<1>4. CASE CloseLink(l)
  <2> DEFINE row == [link[l] EXCEPT !.open = FALSE]
  <2>1. link' = [link EXCEPT ![l] = row]
    BY <1>3, <1>4 DEF CloseLink, LinksOK
  <2>2. row \in LinkRow /\ ~row.open /\ row.task = link[l].task /\ row.brought = link[l].brought
    BY <1>3 DEF LinksOK, LinkRow
  <2> HIDE DEF row
  <2>3. LinksOK'
    BY <1>1, <1>3, <2>1, <2>2 DEF LinksOK
  <2>4. UploadsOK'
    BY <1>1, <1>3, <2>1, <2>2 DEF UploadsOK, LinksOK, UploadRow
  <2> QED BY <1>2, <2>3, <2>4 DEF IInv
<1>5. ASSUME NEW t \in Tasks, CreateLink(l, t)
      PROVE  IInv'
  <2> DEFINE row == [NoLink EXCEPT !.task = t, !.open = TRUE]
  <2>1. link' = [link EXCEPT ![l] = row] /\ link[l].task = None /\ task[t].status # "none"
    BY <1>5 DEF CreateLink, ACTIVE_TASK_STATUSES
  <2>2. row \in LinkRow /\ row.task = t /\ row.brought = 0
    <3> DEFINE v == [NoLink EXCEPT !.task = t]
    <3>1. v \in LinkRow /\ v.task = t /\ v.brought = 0
      <4>1. NoLink \in LinkRow /\ NoLink.brought = 0
        BY <1>1 DEF NoLink, LinkRow
      <4> QED BY <4>1 DEF LinkRow
    <3>2. row = [v EXCEPT !.open = TRUE]
      OBVIOUS
    <3> HIDE DEF row, v
    <3> QED BY <3>1, <3>2 DEF LinkRow
  <2> HIDE DEF row
  <2>3. LinksOK'
    BY <1>1, <1>3, <2>1, <2>2 DEF LinksOK
  <2>4. \A r \in Requests : upload[r].link # None => upload[r].link # l
    BY <1>3, <2>1 DEF UploadsOK
  <2>5. UploadsOK'
    BY <1>1, <1>3, <2>1, <2>2, <2>4 DEF UploadsOK, LinksOK, UploadRow
  <2> QED BY <1>2, <2>3, <2>5 DEF IInv
<1> QED BY <1>4, <1>5

(* A step that writes one upload. *)
LEMMA UploadStep ==
    ASSUME IInv, NEW r \in Requests, NEW row \in UploadRow,
           upload' = [upload EXCEPT ![r] = row],
           row.task # None => task[row.task].status # "none",
           row.link # None => row.task # None /\ link[row.link].task = row.task /\ row.uses < MaxUses,
           UNCHANGED <<claim, kinds, task, link, file, match>>
    PROVE  IInv'
<1>1. TasksOK' /\ LinksOK' /\ ClaimsOK' /\ CopiesOK'
  BY DEF IInv, TasksOK, ClosedTasksAreProven, LinksOK, ClaimsOK, ReadyIsProven, CopiesOK, OneCopyIsOpen
<1>2. UploadsOK'
  BY DEF IInv, UploadsOK
<1> QED BY <1>1, <1>2 DEF IInv

LEMMA BeginStep ==
    ASSUME Assumptions, IInv, NEW r \in Requests, NEW t \in Tasks, task[t].status # "none",
           NEW l \in Links \cup {None}, NEW uses \in 0 .. MaxUses,
           l # None => link[l].task = t /\ uses < MaxUses,
           Begin(r, t, l, uses)
    PROVE  IInv'
<1> DEFINE row == [task |-> t, link |-> l, uses |-> uses, claim |-> claim[task[t].order]]
<1>1. claim[task[t].order] \in ClaimStatus
  BY OrderOfTask DEF IInv, ClaimsOK
<1>2. row \in UploadRow
  BY <1>1 DEF UploadRow
<1>3. row.task = t /\ row.link = l /\ row.uses = uses /\ t # None
  BY DEF Assumptions, EvidenceAssumption, None
<1>4. upload' = [upload EXCEPT ![r] = row] /\ UNCHANGED <<claim, kinds, task, link, file, match>>
  BY DEF Begin
<1> HIDE DEF row
<1> QED BY <1>2, <1>3, <1>4, UploadStep

LEMMA BeginActions ==
    ASSUME Assumptions, IInv, NEW r \in Requests,
           \/ AbandonUpload(r)
           \/ \E l \in Links : BeginLinkUpload(r, l)
           \/ \E t \in Tasks : BeginUpload(r, t)
    PROVE  IInv'
<1>1. MaxUses \in Nat /\ 0 \in 0 .. MaxUses
  BY DEF Assumptions, EvidenceAssumption
<1>2. CASE AbandonUpload(r)
  <2>1. NoUpload \in UploadRow /\ NoUpload.task = None /\ NoUpload.link = None
    BY <1>1 DEF NoUpload, UploadRow, ClaimStatus
  <2> QED BY <1>2, <2>1, UploadStep DEF AbandonUpload
<1>3. ASSUME NEW l \in Links, BeginLinkUpload(r, l)
      PROVE  IInv'
  <2>1. link[l] \in LinkRow /\ link[l].open /\ link[l].task # None
    BY <1>3 DEF BeginLinkUpload, IInv, LinksOK
  <2>2. link[l].task \in Tasks /\ link[l].uses \in 0 .. MaxUses
    BY <2>1 DEF LinkRow
  <2> QED BY <1>3, <2>2, BeginStep DEF BeginLinkUpload, ACTIVE_TASK_STATUSES
<1>4. ASSUME NEW t \in Tasks, BeginUpload(r, t)
      PROVE  IInv'
  <2>1. task[t].status # "none" /\ Begin(r, t, None, 0)
    BY <1>4 DEF BeginUpload, ACTIVE_TASK_STATUSES
  <2> QED BY <1>1, <2>1, BeginStep
<1> QED BY <1>2, <1>3, <1>4

(***************************************************************************)
(* Evidence and claims                                                     *)
(***************************************************************************)

LEMMA ReceiptProves ==
    ASSUME NEW s \in ClaimStatus, NEW ks
    PROVE  /\ Validated(s, ks) \in ClaimStatus
           /\ Validated(s, ks) = "ready_to_send" =>
                \/ "receipt" \in ks
                \/ \E other \in {"preparation_proof", "waste_photo"} :
                       {"cancellation_proof", other} \subseteq ks
BY DEF Validated, ClaimStatus, FINAL_CLAIM_STATUSES, Proven

(* An order gets evidence, and a claim status that fits it.                *)
LEMMA EvidenceStep ==
    ASSUME ClaimsOK, NEW o \in Orders, NEW now \in SUBSET Kinds, kinds[o] \subseteq now,
           kinds' = [kinds EXCEPT ![o] = now], claim' \in [Orders -> ClaimStatus],
           \A p \in Orders \ {o} : claim'[p] = claim[p],
           \/ claim'[o] = claim[o]
           \/ claim'[o] = "ready_to_send" =>
                \/ "receipt" \in now
                \/ \E other \in {"preparation_proof", "waste_photo"} :
                       {"cancellation_proof", other} \subseteq now
    PROVE  ClaimsOK' /\ \A p \in Orders : kinds[p] \subseteq kinds'[p]
<1>1. kinds' \in [Orders -> SUBSET Kinds]
  BY DEF ClaimsOK
<1>2. ASSUME NEW p \in Orders
      PROVE  kinds'[p] = (IF p = o THEN now ELSE kinds[p]) /\ kinds[p] \subseteq kinds'[p]
  BY DEF ClaimsOK
<1>3. ReadyIsProven'
  BY <1>2 DEF ClaimsOK, ReadyIsProven
<1> QED BY <1>1, <1>2, <1>3 DEF ClaimsOK

(* The upload comes to its end: task, evidence, claim and link are written *)
(* from what was read when it began.                                       *)
LEMMA FinishStep ==
    ASSUME Assumptions, IInv, NEW r \in Requests, FinishUpload(r)
    PROVE  IInv'
<1> PICK u, t, o : u = upload[r] /\ t = u.task /\ o = task[t].order
  OBVIOUS
<1> DEFINE now == kinds[o] \cup {"receipt"}
<1>1. MaxUses \in Nat /\ None \notin Tasks /\ None \notin Links /\ "receipt" \in Kinds
      /\ None \notin Orders
  BY DEF Assumptions, EvidenceAssumption, None
<1>2. TasksOK /\ LinksOK /\ UploadsOK /\ ClaimsOK /\ CopiesOK
  BY DEF IInv
<1>3. u \in UploadRow /\ t # None /\ t \in Tasks /\ task[t].status # "none"
      /\ u.claim \in ClaimStatus
  BY <1>2 DEF FinishUpload, UploadsOK, UploadRow
<1>4. task[t] \in TaskRow /\ o \in Orders
  BY <1>2, <1>3, OrderOfTask
<1>5. now \in SUBSET Kinds /\ kinds[o] \subseteq now /\ kinds' = [kinds EXCEPT ![o] = now]
      /\ "receipt" \in now
  BY <1>1, <1>2, <1>4 DEF FinishUpload, ClaimsOK
<1>6. /\ task' = Uploaded(t) /\ claim' = Written(o, u.claim, Validated(u.claim, now))
      /\ upload' = [upload EXCEPT ![r] = NoUpload] /\ UNCHANGED <<file, match>>
      /\ link' = IF u.link = None THEN link
                 ELSE [link EXCEPT ![u.link].uses = u.uses + 1, ![u.link].brought = @ + 1]
  BY DEF FinishUpload
<1> HIDE DEF now
<1>7. ClaimsOK' /\ \A p \in Orders : kinds[p] \subseteq kinds'[p]
  <2>1. claim' = claim \/ claim' = [claim EXCEPT ![o] = Validated(u.claim, now)]
    BY <1>6 DEF Written
  <2>2. Validated(u.claim, now) \in ClaimStatus
    BY <1>3, ReceiptProves
  <2>3. claim' \in [Orders -> ClaimStatus] /\ \A p \in Orders \ {o} : claim'[p] = claim[p]
    BY <1>2, <2>1, <2>2 DEF ClaimsOK
  <2> QED BY <1>2, <1>4, <1>5, <2>3, EvidenceStep
<1>8. TasksOK' /\ TasksMove
  <2> DEFINE row == [task[t] EXCEPT !.status = "completed", !.by = "file"]
  <2>1. row \in TaskRow /\ row.status = "completed" /\ row.order = o /\ o # None
    BY <1>1, <1>4 DEF TaskRow, TaskStatus
  <2>2. task' = [task EXCEPT ![t] = row]
    BY <1>2, <1>3, <1>6 DEF Uploaded, TasksOK
  <2>3. "receipt" \in kinds'[o]
    BY <1>2, <1>4, <1>5 DEF ClaimsOK
  <2> HIDE DEF row
  <2> QED BY <1>2, <1>3, <1>7, <2>1, <2>2, <2>3, TaskStep
<1>9. task'[t].status = "completed"
  BY <1>2, <1>3, <1>6 DEF Uploaded, TasksOK
<1>10. LinksOK' /\ \A l \in Links : link'[l].task = link[l].task
  <2>1. CASE u.link = None
    BY <1>2, <1>6, <1>8, <2>1, LinksStay
  <2>2. CASE u.link # None
    <3> PICK k : k = u.link
      OBVIOUS
    <3> DEFINE row == [link[k] EXCEPT !.uses = u.uses + 1, !.brought = @ + 1]
    <3>1. k \in Links /\ link[k] \in LinkRow /\ link[k].task = t /\ u.uses + 1 \in 0 .. MaxUses
      <4>1. u.uses \in 0 .. MaxUses /\ u.uses < MaxUses
        BY <1>2, <1>3, <2>2 DEF UploadsOK, UploadRow
      <4>2. k \in Links /\ link[k].task = t
        BY <1>2, <1>3, <2>2 DEF UploadsOK, UploadRow
      <4> QED BY <1>1, <1>2, <4>1, <4>2 DEF LinksOK
    <3>2. row \in LinkRow /\ row.task = t
      <4> DEFINE v == [link[k] EXCEPT !.uses = u.uses + 1]
      <4>1. v \in LinkRow /\ v.task = t
        BY <3>1 DEF LinkRow
      <4>2. row = [v EXCEPT !.brought = @ + 1]
        BY <3>1 DEF LinkRow
      <4> HIDE DEF row, v
      <4> QED BY <4>1, <4>2 DEF LinkRow
    <3>3. link' = [link EXCEPT ![k] = row]
      BY <1>2, <1>6, <2>2, <3>1 DEF LinksOK
    <3> HIDE DEF row
    <3>4. \A l \in Links : link'[l] = IF l = k THEN row ELSE link[l]
      BY <1>2, <3>3 DEF LinksOK
    <3>5. link' \in [Links -> LinkRow]
      BY <1>2, <3>2, <3>3 DEF LinksOK
    <3>6. ASSUME NEW l \in Links
          PROVE  /\ link'[l].task = None => ~link'[l].open
                 /\ link'[l].task # None => task'[link'[l].task].status # "none"
                 /\ link'[l].brought > 0 =>
                       link'[l].task # None /\ task'[link'[l].task].status = "completed"
      <4>1. CASE l = k
        BY <1>1, <1>3, <1>9, <3>2, <3>4, <4>1
      <4>2. CASE l # k
        <5>1. link'[l] = link[l] /\ link[l] \in LinkRow
          BY <1>2, <3>4, <4>2 DEF LinksOK
        <5>2. link[l].task # None => link[l].task \in Tasks
          BY <5>1 DEF LinkRow
        <5> QED BY <1>2, <1>8, <5>1, <5>2 DEF LinksOK, TasksMove
      <4> QED BY <4>1, <4>2
    <3> QED BY <3>1, <3>2, <3>4, <3>5, <3>6 DEF LinksOK
  <2> QED BY <2>1, <2>2
<1>11. UploadsOK'
  <2>1. NoUpload \in UploadRow /\ NoUpload.task = None /\ NoUpload.link = None
    BY <1>1 DEF NoUpload, UploadRow, ClaimStatus
  <2>2. upload' \in [Requests -> UploadRow]
    BY <1>2, <1>6, <2>1 DEF UploadsOK
  <2>3. ASSUME NEW q \in Requests
        PROVE  /\ upload'[q].task # None => task'[upload'[q].task].status # "none"
               /\ upload'[q].link # None =>
                     /\ upload'[q].task # None
                     /\ link'[upload'[q].link].task = upload'[q].task
                     /\ upload'[q].uses < MaxUses
    <3>1. CASE q = r
      BY <1>2, <1>6, <2>1, <3>1 DEF UploadsOK
    <3>2. CASE q # r
      <4>1. upload'[q] = upload[q] /\ upload[q] \in UploadRow
        BY <1>2, <1>6, <3>2 DEF UploadsOK
      <4>2. /\ upload[q].task # None => upload[q].task \in Tasks
            /\ upload[q].link # None => upload[q].link \in Links
        BY <4>1 DEF UploadRow
      <4> QED BY <1>2, <1>8, <1>10, <4>1, <4>2 DEF UploadsOK, TasksMove
    <3> QED BY <3>1, <3>2
  <2> QED BY <2>2, <2>3 DEF UploadsOK
<1>12. CopiesOK'
  BY <1>2, <1>6 DEF CopiesOK, OneCopyIsOpen
<1> QED BY <1>7, <1>8, <1>10, <1>11, <1>12 DEF IInv

(***************************************************************************)
(* Imported files                                                          *)
(***************************************************************************)

(* A file is written: it was open before, or it is new and no copy is      *)
(* open, or it is decided now.                                             *)
LEMMA FileStep ==
    ASSUME CopiesOK, NEW f \in Files, NEW row \in FileRow, file' = [file EXCEPT ![f] = row],
           match' \in [Files -> [Candidate -> MatchRow]],
           \/ row.attached # None
           \/ row.status \in {"absent", "ignored"}
           \/ row.attached = file[f].attached /\ file[f].status \notin {"absent", "ignored"}
           \/ ~Duplicate(f)
    PROVE  CopiesOK'
<1>1. \A g \in Files : file'[g] = IF g = f THEN row ELSE file[g]
  BY DEF CopiesOK
<1>2. file' \in [Files -> FileRow]
  BY DEF CopiesOK
<1>3. ASSUME NEW g \in Files, NEW h \in Files, g # h, Content[g] = Content[h],
             file'[g].status \notin {"absent", "ignored"}, file'[h].status \notin {"absent", "ignored"}
      PROVE  file'[g].attached # None \/ file'[h].attached # None
  <2>1. ASSUME NEW x \in Files, NEW y \in Files, x # y, Content[x] = Content[y],
               file[x].status \notin {"absent", "ignored"}, file[y].status \notin {"absent", "ignored"}
        PROVE  file[x].attached # None \/ file[y].attached # None
    BY <2>1 DEF CopiesOK, OneCopyIsOpen
  <2>2. CASE g = f
    <3>1. h # f /\ file'[h] = file[h] /\ file'[g] = row
      BY <1>1, <1>3, <2>2
    <3> QED BY <1>3, <2>1, <2>2, <3>1 DEF Duplicate
  <2>3. CASE h = f
    <3>1. g # f /\ file'[g] = file[g] /\ file'[h] = row
      BY <1>1, <1>3, <2>3
    <3> QED BY <1>3, <2>1, <2>3, <3>1 DEF Duplicate
  <2>4. CASE g # f /\ h # f
    BY <1>1, <1>3, <2>1, <2>4
  <2> QED BY <2>2, <2>3, <2>4
<1> QED BY <1>2, <1>3 DEF CopiesOK, OneCopyIsOpen

LEMMA FileOnlyStep ==
    ASSUME IInv, CopiesOK', UNCHANGED <<claim, kinds, task, link, upload>>
    PROVE  IInv'
BY DEF IInv, TasksOK, ClosedTasksAreProven, LinksOK, UploadsOK, ClaimsOK, ReadyIsProven

(* attach_imported_file. By a machine or the file, a task is completed     *)
(* only by a receipt.                                                      *)
LEMMA AttachStep ==
    ASSUME Assumptions, IInv, NEW f \in Files, NEW read \in Reading, NEW c \in Candidate,
           NEW kind \in Kinds, NEW by \in {"file", "person"}, OrderFor(c) # None,
           by = "file" /\ c[1] = "evidence_task" => kind = "receipt",
           Attach(f, read, c, kind, by)
    PROVE  IInv'
<1> PICK o : o = OrderFor(c)
  OBVIOUS
<1> DEFINE now == kinds[o] \cup {kind}
           row == [status |-> "analyzed", read |-> read, attached |-> o]
<1>1. TasksOK /\ LinksOK /\ UploadsOK /\ ClaimsOK /\ CopiesOK /\ None \notin Orders
  BY DEF IInv, Assumptions, EvidenceAssumption, None
<1>2. o \in Orders /\ \A t \in Related(c, kind) :
            /\ t \in Tasks /\ task[t] \in TaskRow /\ task[t].status # "none" /\ task[t].order = o
            /\ by = "file" => kind = "receipt"
  <2>1. \/ c[1] = "evidence_task" /\ c[2] \in Tasks
        \/ c[1] = "claim_order" /\ c[2] \in Orders
    BY DEF Candidate
  <2>2. CASE c[1] = "evidence_task" /\ c[2] \in Tasks
    <3>1. o = task[c[2]].order /\ Related(c, kind) = {c[2]}
      BY <2>2 DEF OrderFor, Related
    <3>2. task[c[2]].status # "none"
      BY <1>1, <2>2, <3>1 DEF TasksOK
    <3> QED BY <1>1, <2>2, <3>1, <3>2, OrderOfTask
  <2>3. CASE c[1] = "claim_order" /\ c[2] \in Orders
    <3>1. o = c[2] /\ Related(c, kind) = IF kind = "receipt" THEN ActiveTasks(o) ELSE {}
      BY <2>3 DEF OrderFor, Related
    <3> QED BY <1>1, <2>3, <3>1 DEF ActiveTasks, ACTIVE_TASK_STATUSES, TasksOK
  <2> QED BY <2>1, <2>2, <2>3
<1>3. /\ kinds' = [kinds EXCEPT ![o] = now]
      /\ claim' = [claim EXCEPT ![o] = Validated(claim[o], now)]
      /\ file' = [file EXCEPT ![f] = row]
      /\ match' = [match EXCEPT ![f] = [d \in Candidate |-> NoMatch]]
      /\ UNCHANGED <<link, upload>>
  BY <1>1, <1>2 DEF Attach, ClaimsOK
<1>4. now \in SUBSET Kinds /\ kinds[o] \subseteq now /\ kind \in now
  BY <1>1, <1>2 DEF ClaimsOK
<1>5. row \in FileRow /\ row.attached # None
  BY <1>1, <1>2 DEF FileRow, FileStatus
<1> HIDE DEF now, row
<1>6. ClaimsOK' /\ \A p \in Orders : kinds[p] \subseteq kinds'[p]
  <2>1. Validated(claim[o], now) \in ClaimStatus /\ claim[o] \in ClaimStatus
    BY <1>1, <1>2, ReceiptProves DEF ClaimsOK
  <2>2. claim' \in [Orders -> ClaimStatus] /\ \A p \in Orders \ {o} : claim'[p] = claim[p]
        /\ claim'[o] = Validated(claim[o], now)
    BY <1>1, <1>2, <1>3, <2>1 DEF ClaimsOK
  <2> QED BY <1>1, <1>2, <1>3, <1>4, <2>1, <2>2, ReceiptProves, EvidenceStep
<1>7. TasksOK' /\ TasksMove
  <2>1. CASE UNCHANGED task
    BY <1>1, <1>6, <2>1, TasksStay
  <2>2. ASSUME NEW t \in Related(c, kind),
               task' = [task EXCEPT ![t].status = "completed", ![t].by = by]
        PROVE  TasksOK' /\ TasksMove
    <3> DEFINE x == [task[t] EXCEPT !.status = "completed", !.by = by]
    <3>1. x \in TaskRow /\ x.status = "completed" /\ x.order = o /\ x.by = by
      BY <1>2 DEF TaskRow, TaskStatus
    <3>2. task' = [task EXCEPT ![t] = x]
      BY <1>1, <1>2, <2>2 DEF TasksOK
    <3> HIDE DEF x
    <3>3. kind \in kinds'[o]
      BY <1>1, <1>2, <1>3, <1>4 DEF ClaimsOK
    <3>4. by # "person" => "receipt" \in kinds'[o]
      BY <1>2, <3>3
    <3> QED BY <1>1, <1>2, <1>6, <3>1, <3>2, <3>4, TaskStep
  <2> QED BY <2>1, <2>2 DEF Attach
<1>8. CopiesOK'
  <2>1. NoMatch \in MatchRow
    BY DEF NoMatch, MatchRow, MatchStatus
  <2>2. match' \in [Files -> [Candidate -> MatchRow]]
    BY <1>1, <1>3, <2>1 DEF CopiesOK
  <2> QED BY <1>1, <1>3, <1>5, <2>2, FileStep
<1> QED BY <1>1, <1>3, <1>6, <1>7, <1>8, LinksStay, UploadsStay DEF IInv

(* The scores of an analysis are scores of candidates. *)
LEMMA ScoresTyped ==
    ASSUME IInv, NEW f \in Files, NEW read \in Reading
    PROVE  /\ DOMAIN Scored(read) \subseteq Candidate
           /\ Rematched(f, Scored(read)) \in [Candidate -> MatchRow]
           /\ \A c \in DOMAIN Scored(read) :
                 /\ OrderFor(c) \in Orders
                 /\ c[1] = "evidence_task" => read.kind = "receipt"
<1>1. \A t \in Tasks : TaskScore(read, t) \in 0 .. 100
  BY DEF TaskScore
<1>2. OrderScore(read) \in 0 .. 100
  BY DEF OrderScore
<1>3. DOMAIN Scored(read) =
        {TaskOf(t) : t \in {u \in Tasks : /\ task[u].status \in ACTIVE_TASK_STATUSES
                                          /\ read.kind = "receipt"}}
          \cup {OrderCandidate(o) : o \in {p \in Orders : p = read.order /\ claim[p] # "none"}}
  BY DEF Scored
<1>4. ASSUME NEW c \in DOMAIN Scored(read)
      PROVE  /\ c \in Candidate /\ OrderFor(c) \in Orders
             /\ c[1] = "evidence_task" => read.kind = "receipt"
             /\ Scored(read)[c] \in 0 .. 100
  <2>1. CASE \E t \in Tasks : /\ c = TaskOf(t) /\ task[t].status = "pending"
                              /\ read.kind = "receipt"
    <3>1. PICK t \in Tasks : c = <<"evidence_task", t>> /\ task[t].status = "pending"
                             /\ read.kind = "receipt"
      BY <2>1 DEF TaskOf
    <3>2. c \in Candidate /\ OrderFor(c) = task[t].order /\ c[2] = t
      BY <3>1 DEF Candidate, OrderFor
    <3>3. task[t].order \in Orders
      BY <3>1, OrderOfTask DEF IInv
    <3>4. Scored(read)[c] = TaskScore(read, t)
      BY <1>3, <3>1, <3>2 DEF Scored
    <3> QED BY <1>1, <3>1, <3>2, <3>3, <3>4
  <2>2. CASE \E o \in Orders : c = OrderCandidate(o)
    <3>1. PICK o \in Orders : c = <<"claim_order", o>>
      BY <2>2 DEF OrderCandidate
    <3>2. c \in Candidate /\ OrderFor(c) = o /\ c[1] # "evidence_task"
      BY <3>1 DEF Candidate, OrderFor
    <3>3. Scored(read)[c] = OrderScore(read)
      BY <3>2 DEF Scored
    <3> QED BY <1>2, <3>2, <3>3
  <2> QED BY <1>3, <2>1, <2>2 DEF ACTIVE_TASK_STATUSES
<1>5. Rematched(f, Scored(read)) \in [Candidate -> MatchRow]
  <2> DEFINE s == Scored(read)
             m == match[f]
  <2>1. m \in [Candidate -> MatchRow]
    BY DEF IInv, CopiesOK
  <2>2. \A c \in Candidate : m[c].score \in 0 .. 100 /\ m[c].status \in MatchStatus /\ m[c] \in MatchRow
    BY <2>1 DEF MatchRow
  <2>3. \A c \in DOMAIN s : s[c] \in 0 .. 100
    BY <1>4
  <2>4. Rematched(f, s) =
          [c \in Candidate |->
              IF c \notin DOMAIN s THEN m[c]
              ELSE [status |-> IF m[c].status = "none" THEN "open" ELSE m[c].status,
                    score |-> IF m[c].score > s[c] THEN m[c].score ELSE s[c]]]
    BY DEF Rematched
  <2> HIDE DEF s, m
  <2>5. \A c \in Candidate : c \in DOMAIN s =>
            [status |-> IF m[c].status = "none" THEN "open" ELSE m[c].status,
             score |-> IF m[c].score > s[c] THEN m[c].score ELSE s[c]] \in MatchRow
    BY <2>2, <2>3 DEF MatchRow, MatchStatus
  <2>6. Rematched(f, s) \in [Candidate -> MatchRow]
    BY <2>2, <2>4, <2>5
  <2> QED BY <2>6 DEF s
<1> QED BY <1>4, <1>5

(* The machine's decision attaches the file or leaves it to a person.      *)
LEMMA MatchStep ==
    ASSUME Assumptions, IInv, NEW f \in Files, NEW read \in Reading,
           file[f].status \notin {"absent", "ignored"},
           Match(f, read)
    PROVE  IInv'
<1> DEFINE cs == DOMAIN Scored(read)
           m == Rematched(f, Scored(read))
<1>1. cs \subseteq Candidate /\ m \in [Candidate -> MatchRow]
  BY ScoresTyped
<1>2. ASSUME NEW c \in cs, Clear(m, cs, c), Attach(f, read, c, read.kind, "file")
      PROVE  IInv'
  <2>1. c \in Candidate /\ OrderFor(c) \in Orders /\ c[1] = "evidence_task" /\ read.kind = "receipt"
    <3>1. c \in {d \in cs : d[1] = "evidence_task" /\ Strong(m, d)}
      BY <1>2 DEF Clear
    <3> QED BY <3>1, ScoresTyped
  <2>2. OrderFor(c) # None /\ read.kind \in Kinds
    BY <2>1 DEF Assumptions, EvidenceAssumption, None
  <2> HIDE DEF cs, m
  <2> QED BY <1>2, <2>1, <2>2, AttachStep
<1>3. ASSUME file' = [file EXCEPT ![f].status = "analyzed", ![f].read = read],
             match' = [match EXCEPT ![f] = IF read.kind = "unknown" THEN m ELSE InReview(m, cs)],
             UNCHANGED <<claim, kinds, task, link, upload>>
      PROVE  IInv'
  <2> DEFINE row == [file[f] EXCEPT !.status = "analyzed", !.read = read]
  <2>1. CopiesOK
    BY DEF IInv
  <2>2. row \in FileRow /\ row.attached = file[f].attached
    BY <2>1 DEF CopiesOK, FileRow, FileStatus
  <2>3. file' = [file EXCEPT ![f] = row]
    BY <1>3, <2>1 DEF CopiesOK
  <2>4. InReview(m, cs) \in [Candidate -> MatchRow]
    <3> HIDE DEF m, cs
    <3>1. \A c \in Candidate : m[c] \in MatchRow /\ [m[c] EXCEPT !.status = "open"] \in MatchRow
      BY <1>1 DEF MatchRow, MatchStatus
    <3> QED BY <3>1 DEF InReview
  <2> HIDE DEF row, m, cs
  <2>5. match' \in [Files -> [Candidate -> MatchRow]]
    BY <1>1, <1>3, <2>1, <2>4 DEF CopiesOK
  <2>6. CopiesOK'
    BY <2>1, <2>2, <2>3, <2>5, FileStep
  <2> QED BY <1>3, <2>6, FileOnlyStep
<1> QED BY <1>2, <1>3 DEF Match

LEMMA FileActions ==
    ASSUME Assumptions, IInv, NEW f \in Files,
           \/ ImportFile(f) \/ AnalysisFails(f) \/ IgnoreFile(f)
           \/ \E c \in Candidate : RejectMatch(f, c)
    PROVE  IInv'
<1>1. CopiesOK /\ file[f] \in FileRow
  BY DEF IInv, CopiesOK
<1>2. ASSUME NEW x \in FileStatus, file' = [file EXCEPT ![f].status = x],
             \/ x \in {"absent", "ignored"} \/ file[f].status \notin {"absent", "ignored"} \/ ~Duplicate(f),
             UNCHANGED <<claim, kinds, task, link, match, upload>>
      PROVE  IInv'
  <2> DEFINE row == [file[f] EXCEPT !.status = x]
  <2>1. row \in FileRow /\ row.status = x /\ row.attached = file[f].attached
    BY <1>1 DEF FileRow
  <2>2. file' = [file EXCEPT ![f] = row]
    BY <1>1, <1>2 DEF CopiesOK
  <2> HIDE DEF row
  <2>3. match' \in [Files -> [Candidate -> MatchRow]]
    BY <1>1, <1>2 DEF CopiesOK
  <2>4. CopiesOK'
    BY <1>1, <1>2, <2>1, <2>2, <2>3, FileStep
  <2> QED BY <1>2, <2>4, FileOnlyStep
<1>3. CASE ImportFile(f)
  <2> DEFINE x == IF Duplicate(f) THEN "ignored" ELSE "analysis_pending"
  <2>1. x \in FileStatus /\ (x \in {"absent", "ignored"} \/ ~Duplicate(f))
    BY DEF FileStatus
  <2>2. file' = [file EXCEPT ![f].status = x] /\ UNCHANGED <<claim, kinds, task, link, match, upload>>
    BY <1>3 DEF ImportFile
  <2> HIDE DEF x
  <2> QED BY <1>2, <2>1, <2>2
<1>4. CASE AnalysisFails(f)
  BY <1>2, <1>4 DEF AnalysisFails, FileStatus
<1>5. CASE IgnoreFile(f)
  BY <1>2, <1>5 DEF IgnoreFile, FileStatus
<1>6. ASSUME NEW c \in Candidate, RejectMatch(f, c)
      PROVE  IInv'
  <2> DEFINE row == [match[f][c] EXCEPT !.status = "rejected"]
             ms == [match[f] EXCEPT ![c] = row]
  <2>1. match[f] \in [Candidate -> MatchRow]
    BY <1>1 DEF CopiesOK
  <2>2. row \in MatchRow
    BY <2>1 DEF MatchRow, MatchStatus
  <2>3. match' = [match EXCEPT ![f] = ms]
    BY <1>1, <1>6, <2>1 DEF RejectMatch, CopiesOK
  <2> HIDE DEF row
  <2>4. ms \in [Candidate -> MatchRow]
    BY <2>1, <2>2
  <2> HIDE DEF ms
  <2>5. CopiesOK'
    BY <1>1, <1>6, <2>3, <2>4 DEF RejectMatch, CopiesOK, OneCopyIsOpen
  <2> QED BY <1>6, <2>5, FileOnlyStep DEF RejectMatch
<1> QED BY <1>3, <1>4, <1>5, <1>6

LEMMA AnalysisActions ==
    ASSUME Assumptions, IInv, NEW f \in Files, NEW read \in Readings,
           AnalyzeFile(f, read) \/ RematchFile(f, read)
    PROVE  IInv'
<1>1. read \in Reading
  BY DEF Assumptions, ReadingsAssumption
<1>2. file[f].status \notin {"absent", "ignored"} /\ Match(f, read)
  BY DEF AnalyzeFile, RematchFile
<1> QED BY <1>1, <1>2, MatchStep

LEMMA HandActions ==
    ASSUME Assumptions, IInv, NEW f \in Files,
           \/ BulkAccept(f)
           \/ \E c \in Candidate : AcceptMatch(f, c) \/ \E kind \in Kinds : AttachByHand(f, c, kind)
    PROVE  IInv'
<1>1. file[f].read \in Reading
  BY DEF IInv, CopiesOK, FileRow
<1>2. ASSUME NEW c \in Candidate, NEW kind \in Kinds, AttachByHand(f, c, kind)
      PROVE  IInv'
  BY <1>1, <1>2, AttachStep DEF AttachByHand
<1>3. ASSUME NEW c \in Candidate, AcceptMatch(f, c)
      PROVE  IInv'
  <2>1. file[f].read.kind \in Kinds
    BY <1>1, <1>3 DEF AcceptMatch, Reading
  <2> QED BY <1>2, <1>3, <2>1 DEF AcceptMatch
<1> QED BY <1>2, <1>3 DEF BulkAccept

LEMMA ProofStep ==
    ASSUME Assumptions, IInv, NEW f \in Files, TakeProof(f)
    PROVE  IInv'
<1> PICK read : read = file[f].read
  OBVIOUS
<1>1. CopiesOK /\ file[f] \in FileRow /\ read \in Reading /\ read.order \in Orders
  <2>1. CopiesOK /\ file[f] \in FileRow
    BY DEF IInv, CopiesOK
  <2> QED BY <2>1 DEF FileRow, Reading, TakeProof, Identified
<1>2. CASE IgnoreFile(f)
  BY <1>2, FileActions
<1>3. ASSUME NEW kind \in ProofKinds(read),
             Attach(f, read, OrderCandidate(read.order), kind, "file")
      PROVE  IInv'
  <2> DEFINE c == OrderCandidate(read.order)
  <2>1. c \in Candidate /\ c[1] = "claim_order" /\ OrderFor(c) = read.order
    BY <1>1 DEF OrderCandidate, Candidate, OrderFor
  <2>2. kind \in Kinds
    BY <1>1 DEF ProofKinds, Reading, Assumptions, EvidenceAssumption
  <2>3. OrderFor(c) # None
    BY <1>1, <2>1 DEF Assumptions, EvidenceAssumption, None
  <2> HIDE DEF c
  <2>4. Attach(f, read, c, kind, "file")
    BY <1>3 DEF c
  <2> QED BY <1>1, <2>1, <2>2, <2>3, <2>4, AttachStep
<1>4. IgnoreFile(f) \/ \E kind \in ProofKinds(read) :
                            Attach(f, read, OrderCandidate(read.order), kind, "file")
  BY DEF TakeProof, IgnoreFile, Identified
<1> QED BY <1>2, <1>3, <1>4

LEMMA ClaimActions ==
    ASSUME IInv, NEW o \in Orders, OpenClaim(o) \/ SendClaim(o) \/ RefuseClaim(o)
    PROVE  IInv'
<1>1. PICK to \in ClaimStatus \ {"ready_to_send"} :
        claim' = [claim EXCEPT ![o] = to] /\ UNCHANGED <<kinds, task, link, file, match, upload>>
  BY DEF OpenClaim, SendClaim, RefuseClaim, MoveClaim, ClaimStatus, FINAL_CLAIM_STATUSES
<1>2. ClaimsOK'
  BY <1>1 DEF IInv, ClaimsOK, ReadyIsProven
<1>3. TasksOK' /\ LinksOK' /\ UploadsOK' /\ CopiesOK'
  BY <1>1 DEF IInv, TasksOK, ClosedTasksAreProven, LinksOK, UploadsOK, CopiesOK, OneCopyIsOpen
<1> QED BY <1>2, <1>3 DEF IInv

(***************************************************************************)
(* The theorems                                                            *)
(***************************************************************************)

LEMMA InitIInv ==
    ASSUME Assumptions, Init
    PROVE  IInv
<1>1. MaxUses \in Nat /\ 0 \in 0 .. MaxUses
  BY DEF Assumptions, EvidenceAssumption
<1>2. /\ NoTask \in TaskRow /\ NoTask.order = None /\ NoTask.status = "none"
      /\ NoLink \in LinkRow /\ NoLink.task = None /\ ~NoLink.open /\ NoLink.brought = 0
      /\ NoUpload \in UploadRow /\ NoUpload.task = None /\ NoUpload.link = None
  BY <1>1 DEF NoTask, TaskRow, TaskStatus, NoLink, LinkRow, NoUpload, UploadRow, ClaimStatus
<1>3. NoFile \in FileRow /\ NoFile.status = "absent" /\ NoMatch \in MatchRow
  BY DEF NoFile, FileRow, FileStatus, Unread, Reading, Signals, NoMatch, MatchRow, MatchStatus
<1>4. TasksOK /\ LinksOK /\ UploadsOK
  BY <1>2 DEF Init, TasksOK, ClosedTasksAreProven, LinksOK, UploadsOK
<1>5. ClaimsOK
  BY DEF Init, ClaimsOK, ReadyIsProven, ClaimStatus
<1>6. CopiesOK
  BY <1>3 DEF Init, CopiesOK, OneCopyIsOpen
<1> QED BY <1>4, <1>5, <1>6 DEF IInv

LEMMA NextIInv ==
    ASSUME Assumptions, IInv, [Next]_vars
    PROVE  IInv'
<1>1. CASE UNCHANGED vars
  BY <1>1 DEF vars, IInv, TasksOK, ClosedTasksAreProven, LinksOK, UploadsOK, ClaimsOK,
     ReadyIsProven, CopiesOK, OneCopyIsOpen
<1>2. ASSUME NEW o \in Orders,
             \/ RecalculateTasks(o) \/ AskForDispute(o)
             \/ OpenClaim(o) \/ SendClaim(o) \/ RefuseClaim(o)
      PROVE  IInv'
  BY <1>2, TaskActions, ClaimActions
<1>3. ASSUME NEW t \in Tasks, SkipTask(t) \/ CompleteTask(t)
      PROVE  IInv'
  BY <1>3, TaskActions
<1>4. ASSUME NEW l \in Links, CloseLink(l) \/ \E t \in Tasks : CreateLink(l, t)
      PROVE  IInv'
  BY <1>4, LinkActions
<1>5. ASSUME NEW r \in Requests,
             \/ FinishUpload(r) \/ AbandonUpload(r)
             \/ \E l \in Links : BeginLinkUpload(r, l)
             \/ \E t \in Tasks : BeginUpload(r, t)
      PROVE  IInv'
  BY <1>5, FinishStep, BeginActions
<1>6. ASSUME NEW f \in Files,
             \/ ImportFile(f) \/ AnalysisFails(f) \/ BulkAccept(f) \/ IgnoreFile(f) \/ TakeProof(f)
             \/ \E read \in Readings : AnalyzeFile(f, read) \/ RematchFile(f, read)
             \/ \E c \in Candidate :
                   \/ AcceptMatch(f, c) \/ RejectMatch(f, c)
                   \/ \E kind \in Kinds : AttachByHand(f, c, kind)
      PROVE  IInv'
  BY <1>6, FileActions, AnalysisActions, HandActions, ProofStep
<1> QED BY <1>1, <1>2, <1>3, <1>4, <1>5, <1>6 DEF Next

(* IInv is inductive: tasks, links, uploads, claims and copies fit         *)
(* together in every behaviour.                                            *)
THEOREM Inductive == Spec => []IInv
<1>1. Assumptions
  BY EvidenceAssumption, ReadingsAssumption DEF Assumptions
<1>2. Init => IInv
  BY <1>1, InitIInv
<1>3. IInv /\ [Next]_vars => IInv'
  BY <1>1, NextIInv
<1> QED BY <1>2, <1>3, PTL DEF Spec

(* Every variable keeps its type; the counter of a link never passes its   *)
(* limit, whatever uploads overlap.                                        *)
THEOREM FilesTypeInvariant == Spec => []FilesTypeOK
<1>1. IInv => FilesTypeOK
  BY DEF IInv, TasksOK, LinksOK, UploadsOK, ClaimsOK, CopiesOK, TaskRow, LinkRow, UploadRow,
     FileRow, MatchRow, FilesTypeOK
<1> QED BY <1>1, Inductive, PTL

(* A claim is ready only with its proof, however many uploads write it     *)
(* from what they read before.                                             *)
THEOREM ReadyProven == Spec => []ReadyIsProven
<1>1. IInv => ReadyIsProven
  BY DEF IInv, ClaimsOK
<1> QED BY <1>1, Inductive, PTL

(* Without a person, a request for a receipt is closed by a receipt of its *)
(* order, whichever upload, match or intake closes it.                     *)
THEOREM ClosedProven == Spec => []ClosedTasksAreProven
<1>1. IInv => ClosedTasksAreProven
  BY DEF IInv, TasksOK
<1> QED BY <1>1, Inductive, PTL

(* Of the copies of a document all but one are decided or set aside.       *)
THEOREM OneCopy == Spec => []OneCopyIsOpen
<1>1. IInv => OneCopyIsOpen
  BY DEF IInv, CopiesOK
<1> QED BY <1>1, Inductive, PTL

(* A link that brought a file admits no upload: its task is completed, and *)
(* only an active task lets anybody in.                                    *)
THEOREM UsedLinkIsShut == Spec => UsedLinksAreShut
<1> DEFINE Shut == \A r \in Requests :
                      upload'[r] # upload[r] /\ upload'[r].link # None =>
                          link[upload'[r].link].brought = 0
<1>1. ASSUME Assumptions, IInv, [Next]_vars
      PROVE  Shut
  <2> SUFFICES ASSUME NEW q \in Requests, upload'[q] # upload[q], upload'[q].link # None
               PROVE  link[upload'[q].link].brought = 0
    OBVIOUS
  <2>1. /\ upload \in [Requests -> UploadRow] /\ link \in [Links -> LinkRow]
        /\ None \notin Tasks
    BY <1>1 DEF IInv, UploadsOK, LinksOK, Assumptions, EvidenceAssumption, None
  <2>2. ASSUME NEW r \in Requests, upload' = [upload EXCEPT ![r] = NoUpload]
        PROVE  FALSE
    BY <2>1, <2>2 DEF NoUpload
  <2>3. ASSUME NEW r \in Requests, NEW t \in Tasks, BeginUpload(r, t)
        PROVE  FALSE
    <3>1. upload' = [upload EXCEPT ![r] = [task |-> t, link |-> None, uses |-> 0,
                                           claim |-> claim[task[t].order]]]
      BY <2>3 DEF BeginUpload, Begin
    <3> QED BY <2>1, <3>1
  <2>4. ASSUME NEW r \in Requests, NEW l \in Links, BeginLinkUpload(r, l)
        PROVE  link[upload'[q].link].brought = 0
    <3>1. upload' = [upload EXCEPT ![r] = [task |-> link[l].task, link |-> l, uses |-> link[l].uses,
                                           claim |-> claim[task[link[l].task].order]]]
          /\ task[link[l].task].status = "pending"
      BY <2>4 DEF BeginLinkUpload, Begin, ACTIVE_TASK_STATUSES
    <3>2. upload'[q].link = l
      BY <2>1, <3>1
    <3>3. ~(link[l].brought > 0) /\ link[l].brought \in Nat
      BY <1>1, <2>1, <3>1 DEF IInv, LinksOK, LinkRow
    <3> QED BY <3>2, <3>3
  <2>5. \/ UNCHANGED upload
        \/ \E r \in Requests : upload' = [upload EXCEPT ![r] = NoUpload]
        \/ \E r \in Requests, t \in Tasks : BeginUpload(r, t)
        \/ \E r \in Requests, l \in Links : BeginLinkUpload(r, l)
    <3>1. CASE UNCHANGED vars
      BY <3>1 DEF vars
    <3>2. ASSUME NEW f \in Files,
                 \/ ImportFile(f) \/ AnalysisFails(f) \/ BulkAccept(f) \/ IgnoreFile(f)
                 \/ TakeProof(f)
                 \/ \E read \in Readings : AnalyzeFile(f, read) \/ RematchFile(f, read)
                 \/ \E c \in Candidate :
                       \/ AcceptMatch(f, c) \/ RejectMatch(f, c)
                       \/ \E kind \in Kinds : AttachByHand(f, c, kind)
          PROVE  UNCHANGED upload
      <4>1. ASSUME NEW read, NEW c, NEW kind, NEW by, Attach(f, read, c, kind, by)
            PROVE  UNCHANGED upload
        BY <4>1 DEF Attach
      <4>2. ASSUME NEW read, Match(f, read)
            PROVE  UNCHANGED upload
        BY <4>1, <4>2 DEF Match
      <4>3. ASSUME NEW c, AcceptMatch(f, c) \/ \E kind : AttachByHand(f, c, kind)
            PROVE  UNCHANGED upload
        BY <4>1, <4>3 DEF AcceptMatch, AttachByHand
      <4>4. CASE BulkAccept(f)
        BY <4>3, <4>4 DEF BulkAccept
      <4>5. CASE TakeProof(f)
        BY <4>1, <4>5 DEF TakeProof
      <4> QED BY <3>2, <4>2, <4>3, <4>4, <4>5 DEF ImportFile, AnalysisFails, IgnoreFile,
              AnalyzeFile, RematchFile, RejectMatch
    <3>3. ASSUME NEW o \in Orders,
                 \/ RecalculateTasks(o) \/ AskForDispute(o)
                 \/ OpenClaim(o) \/ SendClaim(o) \/ RefuseClaim(o)
          PROVE  UNCHANGED upload
      BY <3>3 DEF RecalculateTasks, AskForDispute, OnlyTasks, OpenClaim, SendClaim, RefuseClaim,
         MoveClaim
    <3>4. ASSUME NEW t \in Tasks, SkipTask(t) \/ CompleteTask(t)
          PROVE  UNCHANGED upload
      BY <3>4 DEF SkipTask, CompleteTask, OnlyTasks
    <3>5. ASSUME NEW l \in Links, CloseLink(l) \/ \E t \in Tasks : CreateLink(l, t)
          PROVE  UNCHANGED upload
      BY <3>5 DEF CloseLink, CreateLink
    <3>6. ASSUME NEW r \in Requests, FinishUpload(r) \/ AbandonUpload(r)
          PROVE  upload' = [upload EXCEPT ![r] = NoUpload]
      BY <3>6 DEF FinishUpload, AbandonUpload
    <3> QED BY <1>1, <3>1, <3>2, <3>3, <3>4, <3>5, <3>6 DEF Next
  <2> QED BY <2>2, <2>3, <2>4, <2>5
<1>2. IInv /\ [Next]_vars => Shut
  BY <1>1, EvidenceAssumption, ReadingsAssumption DEF Assumptions
<1> QED BY <1>2, Inductive, PTL DEF Spec, UsedLinksAreShut
==============================================================================
