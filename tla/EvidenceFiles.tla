---------------------------- MODULE EvidenceFiles ----------------------------
(***************************************************************************)
(* How photos reach the claims they prove.                                 *)
(*                                                                         *)
(* A task asks for the receipt of an order; it is answered in the          *)
(* application, through a link that lets a phone upload without a login,   *)
(* or by one of the files of a bulk import, which are analysed, matched    *)
(* with tasks and orders, and attached by a person or by the machine.      *)
(*                                                                         *)
(* A request is one transaction and one action, but for the uploads: the   *)
(* link, the task and the order are read before the file is received and   *)
(* are not read again (BeginUpload, FinishUpload).                         *)
(*                                                                         *)
(* A definition whose comment begins with "Fault" is no part of the        *)
(* specification.                                                          *)
(***************************************************************************)
EXTENDS Integers, FiniteSets

CONSTANTS
    Orders,         \* orders of one restaurant, positive numbers
    Tasks,          \* rows of evidence_request_tasks, numbered as created
    Links,          \* rows of evidence_upload_links, positive numbers
    Files,          \* rows of evidence_imported_files
    Content,        \* file -> what it shows, as its checksum tells it
    Requests,       \* uploads under way at once
    Kinds,          \* the evidence types in use, "receipt" among them
    Readings,       \* what an analysis can read
    MaxUses         \* evidence_upload_link_max_uses

ASSUME EvidenceAssumption ==
    /\ Orders \subseteq Nat \ {0} /\ Links \subseteq Nat \ {0} /\ Tasks \subseteq Nat \ {0}
    /\ "receipt" \in Kinds
    /\ MaxUses \in Nat \ {0}

None == 0

(* What the analysis read: the evidence type, the order it names and how. *)
Signals == {"order_number", "display_id", "identity", "weak"}

Reading == [kind : Kinds \cup {"unknown"}, order : Orders \cup {None}, signal : Signals]

ASSUME ReadingsAssumption == Readings \subseteq Reading

(* Fault: one document of the legacy set is enough. *)
ProvenByEither(kinds) ==
    "receipt" \in kinds \/ kinds \cap {"cancellation_proof", "waste_photo"} # {}

(* The machine's proof of a claim: get_claim_validation_gaps. *)
Proven(kinds) ==
    \/ "receipt" \in kinds
    \/ "cancellation_proof" \in kinds /\ kinds \cap {"preparation_proof", "waste_photo"} # {}

FINAL_CLAIM_STATUSES == {"refused"}

(* "sent" stands for every status between the claim and its end. *)
TASK_SOURCE_STATUSES == {"missing_evidence", "sent"}

ClaimStatus == {"none", "missing_evidence", "ready_to_send", "sent"} \cup FINAL_CLAIM_STATUSES

(* validate_claim_order, for a claim read with status s. *)
Validated(s, kinds) ==
    IF s \in FINAL_CLAIM_STATUSES THEN s
    ELSE IF Proven(kinds) THEN "ready_to_send" ELSE "missing_evidence"

TaskStatus == {"none", "pending", "completed", "skipped"}

Unread == [kind |-> "unknown", order |-> None, signal |-> "weak"]

FileStatus == {"absent", "analysis_pending", "analyzed", "failed", "ignored"}

(* "open" is proposed or in manual review: a person can take either.  The  *)
(* candidates of a file that is attached are not read again.               *)
MatchStatus == {"none", "open", "rejected"}

(* The candidates of a file: evidence tasks, and orders. *)
Candidate == ({"evidence_task"} \X Tasks) \cup ({"claim_order"} \X Orders)

TaskOf(t) == <<"evidence_task", t>>
OrderCandidate(o) == <<"claim_order", o>>

VARIABLES
    claim,      \* order -> status of its claim
    kinds,      \* order -> types of its evidence files
    task,       \* task -> its row, and what completed it
    link,       \* link -> its row, and the files it brought
    file,       \* file -> status, latest reading and the order it is attached to
    match,      \* file -> candidate -> status and score
    upload      \* request -> what an upload under way has read

vars == <<claim, kinds, task, link, file, match, upload>>

NoTask == [order |-> None, status |-> "none", by |-> "nobody"]
NoLink == [task |-> None, open |-> FALSE, uses |-> 0, brought |-> 0]
NoFile == [status |-> "absent", read |-> Unread, attached |-> None]
NoMatch == [status |-> "none", score |-> 0]
NoUpload == [task |-> None, link |-> None, claim |-> "none", uses |-> 0]

FilesTypeOK ==
    /\ claim \in [Orders -> ClaimStatus]
    /\ kinds \in [Orders -> SUBSET Kinds]
    /\ task \in [Tasks -> [order : Orders \cup {None}, status : TaskStatus,
                           by : {"nobody", "file", "machine", "person"}]]
    /\ link \in [Links -> [task : Tasks \cup {None}, open : BOOLEAN, uses : 0 .. MaxUses,
                           brought : Nat]]
    /\ file \in [Files -> [status : FileStatus, read : Reading, attached : Orders \cup {None}]]
    /\ match \in [Files -> [Candidate -> [status : MatchStatus, score : 0 .. 100]]]
    /\ upload \in [Requests -> [task : Tasks \cup {None}, link : Links \cup {None},
                                claim : ClaimStatus, uses : 0 .. MaxUses]]

Init ==
    /\ claim = [o \in Orders |-> "none"]
    /\ kinds = [o \in Orders |-> {}]
    /\ task = [t \in Tasks |-> NoTask]
    /\ link = [l \in Links |-> NoLink]
    /\ file = [f \in Files |-> NoFile]
    /\ match = [f \in Files |-> [c \in Candidate |-> NoMatch]]
    /\ upload = [r \in Requests |-> NoUpload]

(***************************************************************************)
(* Tasks                                                                   *)
(***************************************************************************)

ACTIVE_TASK_STATUSES == {"pending"}     \* "uploaded" is never written

ActiveTasks(o) == {t \in Tasks : task[t].order = o /\ task[t].status \in ACTIVE_TASK_STATUSES}

Unused == {t \in Tasks : task[t].status = "none"}

OnlyTasks == UNCHANGED <<claim, kinds, link, file, match, upload>>

(* A pending task for the order, in the next row. *)
AddTask(o) ==
    /\ Unused # {}
    /\ LET t == CHOOSE t \in Unused : \A u \in Unused : t <= u IN
       task' = [task EXCEPT ![t] = [order |-> o, status |-> "pending", by |-> "nobody"]]

(* Fault: every task of an order that needs nothing more is closed. *)
SatisfiedAnyhow(o) == ActiveTasks(o)

(* complete_satisfied_tasks: those whose very type has arrived. *)
Satisfied(o) == IF "receipt" \in kinds[o] THEN ActiveTasks(o) ELSE {}

(* recalculate_evidence_tasks. *)
RecalculateTasks(o) ==
    /\ claim[o] \in TASK_SOURCE_STATUSES
    /\ IF Proven(kinds[o])
       THEN task' = [t \in Tasks |-> IF t \in Satisfied(o)
                        THEN [task[t] EXCEPT !.status = "completed", !.by = "machine"] ELSE task[t]]
       ELSE ActiveTasks(o) = {} /\ AddTask(o)
    /\ OnlyTasks

(* create_evidence_task_for_requirement: a dispute asks for a task of its  *)
(* own, whether or not the order has one.                                  *)
AskForDispute(o) ==
    /\ claim[o] # "none"
    /\ Cardinality(ActiveTasks(o)) <= 1
    /\ AddTask(o)
    /\ OnlyTasks

SkipTask(t) ==
    /\ task[t].status \in {"pending", "skipped"}
    /\ task' = [task EXCEPT ![t].status = "skipped"]
    /\ OnlyTasks

CompleteTask(t) ==
    /\ task[t].status \in {"pending", "completed"}
    /\ task' = [task EXCEPT ![t].status = "completed", ![t].by = "person"]
    /\ OnlyTasks

(***************************************************************************)
(* Uploads                                                                 *)
(***************************************************************************)

CreateLink(l, t) ==
    /\ link[l].task = None
    /\ task[t].status \in ACTIVE_TASK_STATUSES
    /\ link' = [link EXCEPT ![l] = [NoLink EXCEPT !.task = t, !.open = TRUE]]
    /\ UNCHANGED <<claim, kinds, task, file, match, upload>>

(* Revoked by a person or expired. *)
CloseLink(l) ==
    /\ link[l].open
    /\ link' = [link EXCEPT ![l].open = FALSE]
    /\ UNCHANGED <<claim, kinds, task, file, match, upload>>

Begin(r, t, l, uses) ==
    /\ upload[r].task = None
    /\ upload' = [upload EXCEPT ![r] = [task |-> t, link |-> l, uses |-> uses,
                                        claim |-> claim[task[t].order]]]
    /\ UNCHANGED <<claim, kinds, task, link, file, match>>

(* get_valid_upload_link_by_token. *)
BeginLinkUpload(r, l) ==
    /\ link[l].open
    /\ link[l].uses < MaxUses
    /\ task[link[l].task].status \in ACTIVE_TASK_STATUSES
    /\ Begin(r, link[l].task, l, link[l].uses)

BeginUpload(r, t) ==
    /\ task[t].status \in ACTIVE_TASK_STATUSES
    /\ Begin(r, t, None, 0)

(* Only a changed value is written: what the claim was when it was read    *)
(* is not.                                                                 *)
Written(o, seen, new) == IF new = seen THEN claim ELSE [claim EXCEPT ![o] = new]

(* Fault: the task waits for a person to look at the file. *)
UploadedForReview(t) == [task EXCEPT ![t].by = "file"]

(* Fault: the upload is only noted on the task. *)
NotedOnly(t) == [task EXCEPT ![t].status = "uploaded", ![t].by = "file"]

Uploaded(t) == [task EXCEPT ![t].status = "completed", ![t].by = "file"]

(* upload_evidence_for_task, upload_evidence_with_link: the counter goes   *)
(* on from the value that was read.                                        *)
FinishUpload(r) ==
    LET u == upload[r]
        o == task[u.task].order
        now == kinds[o] \cup {"receipt"} IN
    /\ u.task # None
    /\ kinds' = [kinds EXCEPT ![o] = now]
    /\ task' = Uploaded(u.task)
    /\ claim' = Written(o, u.claim, Validated(u.claim, now))
    /\ link' = IF u.link = None THEN link
               ELSE [link EXCEPT ![u.link].uses = u.uses + 1, ![u.link].brought = @ + 1]
    /\ upload' = [upload EXCEPT ![r] = NoUpload]
    /\ UNCHANGED <<file, match>>

(* The file is refused or the connection lost. *)
AbandonUpload(r) ==
    /\ upload[r].task # None
    /\ upload' = [upload EXCEPT ![r] = NoUpload]
    /\ UNCHANGED <<claim, kinds, task, link, file, match>>

(***************************************************************************)
(* Bulk imports                                                            *)
(***************************************************************************)

(* Fault: only what is analysed already counts as a duplicate. *)
DuplicateOfAnalyzed(f) ==
    \E g \in Files \ {f} : Content[g] = Content[f] /\ file[g].status = "analyzed"

(* find_existing_imported_file_duplicate; an ignored file is no duplicate. *)
Duplicate(f) ==
    \E g \in Files \ {f} : Content[g] = Content[f] /\ file[g].status \notin {"absent", "ignored"}

ImportFile(f) ==
    /\ file[f].status = "absent"
    /\ file' = [file EXCEPT ![f].status = IF Duplicate(f) THEN "ignored" ELSE "analysis_pending"]
    /\ UNCHANGED <<claim, kinds, task, link, match, upload>>

(* The scores of EvidenceMatchingService, in hundredths. *)
TaskScore(read, t) ==
    IF read.order = None \/ read.order # task[t].order THEN 70
    ELSE CASE read.signal = "order_number" -> 98
           [] read.signal = "display_id" -> 96
           [] read.signal = "identity" -> 94
           [] OTHER -> 70

OrderScore(read) ==
    CASE read.signal = "order_number" -> 95
      [] read.signal = "display_id" -> 92
      [] read.signal = "identity" -> 93     \* customer, date and amount
      [] OTHER -> 65                        \* the amount alone

(* create_candidates: tasks of the type that was read, and the order. *)
Scored(read) ==
    [c \in {TaskOf(t) : t \in {u \in Tasks : /\ task[u].status \in ACTIVE_TASK_STATUSES
                                             /\ read.kind = "receipt"}}
           \cup {OrderCandidate(o) : o \in {p \in Orders : p = read.order /\ claim[p] # "none"}}
        |-> IF c[1] = "evidence_task" THEN TaskScore(read, c[2]) ELSE OrderScore(read)]

HighConfidence == 90

(* What is known of the candidates once they are scored: a score never     *)
(* falls, and a rejected candidate stays one.                              *)
Rematched(f, s) ==
    [c \in Candidate |->
        IF c \notin DOMAIN s THEN match[f][c]
        ELSE [status |-> IF match[f][c].status = "none" THEN "open" ELSE match[f][c].status,
              score |-> IF match[f][c].score > s[c] THEN match[f][c].score ELSE s[c]]]

Strong(m, c) == m[c].score >= HighConfidence

(* maybe_auto_attach: one strong task and nothing within two hundredths,   *)
(* whatever a person said of it.                                           *)
Clear(m, cs, c) ==
    /\ {d \in cs : d[1] = "evidence_task" /\ Strong(m, d)} = {c}
    /\ \A d \in cs \ {c} : m[d].score < m[c].score - 2

(* Otherwise the strong ones are for a person to review, rejected or not.  *)
InReview(m, cs) ==
    [c \in Candidate |->
        IF c \in cs /\ Strong(m, c) THEN [m[c] EXCEPT !.status = "open"] ELSE m[c]]

OrderFor(c) == IF c[1] = "evidence_task" THEN task[c[2]].order ELSE c[2]

(* complete_related_task: the task that was matched, else one the file's   *)
(* type answers.                                                           *)
Related(c, kind) ==
    IF c[1] = "evidence_task" THEN {c[2]}
    ELSE IF kind = "receipt" THEN ActiveTasks(c[2]) ELSE {}

(* attach_imported_file. *)
Attach(f, read, c, kind, by) ==
    LET o == OrderFor(c)
        now == kinds[o] \cup {kind} IN
    /\ file[f].attached = None
    /\ file' = [file EXCEPT ![f] = [status |-> "analyzed", read |-> read, attached |-> o]]
    /\ kinds' = [kinds EXCEPT ![o] = now]
    /\ claim' = [claim EXCEPT ![o] = Validated(@, now)]
    /\ IF Related(c, kind) = {} THEN UNCHANGED task
       ELSE \E t \in Related(c, kind) :
               task' = [task EXCEPT ![t].status = "completed", ![t].by = by]
    /\ match' = [match EXCEPT ![f] = [d \in Candidate |-> NoMatch]]
    /\ UNCHANGED <<link, upload>>

(* create_candidates and the machine's decision on them. *)
Match(f, read) ==
    LET cs == DOMAIN Scored(read)
        m == Rematched(f, Scored(read)) IN
    IF \E c \in cs : Clear(m, cs, c)
    THEN \E c \in cs :
            Clear(m, cs, c) /\ Attach(f, read, c, read.kind, "file")
    ELSE /\ file' = [file EXCEPT ![f].status = "analyzed", ![f].read = read]
         /\ match' = [match EXCEPT ![f] = IF read.kind = "unknown" THEN m ELSE InReview(m, cs)]
         /\ UNCHANGED <<claim, kinds, task, link, upload>>

(* analyze_batch, for one file. *)
AnalyzeFile(f, read) ==
    /\ file[f].status \in {"analysis_pending", "failed"}
    /\ Match(f, read)

AnalysisFails(f) ==
    /\ file[f].status = "analysis_pending"
    /\ file' = [file EXCEPT ![f].status = "failed"]
    /\ UNCHANGED <<claim, kinds, task, link, match, upload>>

(* analyze_pending_batches: matched again on every run of the machine, as  *)
(* it was read or, when more of its other fields is legible now, otherwise. *)
RematchFile(f, read) ==
    /\ file[f].status = "analyzed" /\ file[f].attached = None
    /\ Match(f, read)

(***************************************************************************)
(* The review of the matches                                               *)
(***************************************************************************)

(* POST .../attach: any file, order or task and type a person names. *)
AttachByHand(f, c, kind) ==
    /\ file[f].status # "absent"
    /\ OrderFor(c) # None /\ claim[OrderFor(c)] # "none"
    /\ Attach(f, file[f].read, c, kind, "person")

(* POST .../accept: with the type the latest analysis read. *)
AcceptMatch(f, c) ==
    /\ match[f][c].status # "none" /\ file[f].read.kind # "unknown"
    /\ AttachByHand(f, c, file[f].read.kind)

(* bulk_accept_high_confidence, for one file. *)
BulkAccept(f) ==
    \E c \in Candidate :
        /\ {d \in Candidate : /\ match[f][d].status = "open"
                              /\ Strong(match[f], d)} = {c}
        /\ AcceptMatch(f, c)

RejectMatch(f, c) ==
    /\ match[f][c].status = "open"
    /\ match' = [match EXCEPT ![f][c].status = "rejected"]
    /\ UNCHANGED <<claim, kinds, task, link, file, upload>>

IgnoreFile(f) ==
    /\ file[f].status # "absent"
    /\ file' = [file EXCEPT ![f].status = "ignored"]
    /\ UNCHANGED <<claim, kinds, task, link, match, upload>>

(* A photo that shows the whole order passes for its receipt, and so does  *)
(* one whose type nobody could read.                                       *)
ProofKinds(read) == {"receipt"} \cup ({read.kind} \ {"unknown"})

(* build_identity: without an order number the photo is passed over. *)
Identified(f) ==
    file[f].status = "analyzed" /\ file[f].attached = None /\ file[f].read.order # None

(* is_duplicate_evidence_for_order. *)
ProvesAlready(f, o) == \E g \in Files : Content[g] = Content[f] /\ file[g].attached = o

(* ProofIntakeService.process: the order that was read is enough, and its  *)
(* claim is made if missing; a second copy for the same order is ignored.  *)
TakeProof(f) ==
    LET read == file[f].read IN
    /\ Identified(f)
    /\ IF ProvesAlready(f, read.order)
       THEN /\ file' = [file EXCEPT ![f].status = "ignored"]
            /\ UNCHANGED <<claim, kinds, task, link, match, upload>>
       ELSE \E kind \in ProofKinds(read) :
               Attach(f, read, OrderCandidate(read.order), kind, "file")

(***************************************************************************)
(* The claims                                                              *)
(***************************************************************************)

MoveClaim(o, from, to) ==
    /\ claim[o] \in from
    /\ claim' = [claim EXCEPT ![o] = to]
    /\ UNCHANGED <<kinds, task, link, file, match, upload>>

OpenClaim(o) == MoveClaim(o, {"none"}, "missing_evidence")
SendClaim(o) == MoveClaim(o, {"ready_to_send"}, "sent")
RefuseClaim(o) == MoveClaim(o, {"sent"}, "refused")

(***************************************************************************)
(* The specification                                                       *)
(***************************************************************************)

Next ==
    \/ \E o \in Orders :
          \/ RecalculateTasks(o) \/ AskForDispute(o)
          \/ OpenClaim(o) \/ SendClaim(o) \/ RefuseClaim(o)
    \/ \E t \in Tasks : SkipTask(t) \/ CompleteTask(t)
    \/ \E l \in Links : CloseLink(l) \/ \E t \in Tasks : CreateLink(l, t)
    \/ \E r \in Requests :
          \/ FinishUpload(r) \/ AbandonUpload(r)
          \/ \E l \in Links : BeginLinkUpload(r, l)
          \/ \E t \in Tasks : BeginUpload(r, t)
    \/ \E f \in Files :
          \/ ImportFile(f) \/ AnalysisFails(f) \/ BulkAccept(f) \/ IgnoreFile(f) \/ TakeProof(f)
          \/ \E read \in Readings : AnalyzeFile(f, read) \/ RematchFile(f, read)
          \/ \E c \in Candidate :
                \/ AcceptMatch(f, c) \/ RejectMatch(f, c)
                \/ \E kind \in Kinds : AttachByHand(f, c, kind)

Spec == Init /\ [][Next]_vars

(***************************************************************************)
(* Properties                                                              *)
(***************************************************************************)

(* A claim that is ready to be sent has its receipt, or both documents of  *)
(* the older set, whatever the order uploads and matches arrived in.       *)
ReadyIsProven ==
    \A o \in Orders : claim[o] = "ready_to_send" =>
        \/ "receipt" \in kinds[o]
        \/ \E other \in {"preparation_proof", "waste_photo"} :
               {"cancellation_proof", other} \subseteq kinds[o]

(* Unless a person says so, a request for a receipt is closed only by a    *)
(* receipt of its order.                                                   *)
ClosedTasksAreProven ==
    \A t \in Tasks :
        task[t].status = "completed" /\ task[t].by # "person" =>
            "receipt" \in kinds[task[t].order]

(* A link that brought a file lets nobody in again, though its counter can *)
(* lose uses; only uploads that overlap get a second file through it.      *)
UsedLinksAreShut ==
    [][\A r \in Requests : upload'[r] # upload[r] /\ upload'[r].link # None =>
          link[upload'[r].link].brought = 0]_vars

(* Of two copies of a document only one waits for a decision, unless a     *)
(* person had put the first aside and then attached it after all.          *)
OneCopyIsOpen ==
    \A f \in Files, g \in Files :
        /\ f # g /\ Content[f] = Content[g]
        /\ {file[f].status, file[g].status} \cap {"absent", "ignored"} = {}
        => file[f].attached # None \/ file[g].attached # None
===============================================================================
