--------------------------- MODULE LiveVerification ---------------------------
(***************************************************************************)
(* Two-phase verification of one organic route (live_verification.py):     *)
(* "begin" binds a route, a clean baseline and a plan in a job file,       *)
(* "finish" verifies the workspace and enriches the route's ledger row.    *)
(* Each finish is a process of its own; one file lock per job, none per    *)
(* route. Between any two of its writes the process may die or fail, and   *)
(* the operator runs it again. Counterfactual runs that name the route     *)
(* (counterfactual.py) enrich the same columns from other processes, and   *)
(* the readiness report (learning_readiness.py) later reads ledger and     *)
(* evidence file together.                                                 *)
(*                                                                         *)
(* The workspace is abstracted to what its verification returns, any        *)
(* verdict since it is edited between two verifications, and to whether     *)
(* finish accepts it: it must be the root of its repository and hold the    *)
(* baseline as an ancestor, and plan and decision must be those that begin  *)
(* bound. Finish asks this before it looks at the journal, so an unusable   *)
(* workspace stops a job whose verdict is already in the ledger.            *)
(*                                                                         *)
(* An evidence record is one write of a line with its newline. A write cut  *)
(* short leaves a line that is no JSON, or a whole record with no newline,  *)
(* to which the next record is glued. Every reader of the file stops at     *)
(* such a line, and nobody mends it.                                        *)
(***************************************************************************)
EXTENDS Naturals, Sequences, FiniteSets

CONSTANTS Jobs,       \* ids minted by begin
          Foreign,    \* event ids of other verifiers (counterfactual runs)
          Routes,     \* route ids of the ledger
          Organic,    \* those whose decision has source "organic"
          Verdicts,   \* what a verification concludes
          MaxFaults,  \* bound: deaths of a process, failed and cut writes
          None

Statuses == {"begun", "verified", "complete"}
Steps == {"idle", "open", "verifying", "journaled", "attached", "appended"}

JobFile == [status : Statuses, route : Routes, pending : Verdicts \cup {None}]
Event == [route : Routes, verdict : Verdicts]

(* How a record stands in the evidence file: on a line of its own, at the   *)
(* end of a file that lacks its newline, or in a line that is no JSON.      *)
Texts == {"whole", "bare", "broken"}
Line == [job : Jobs, route : Routes, verdict : Verdicts, text : Texts]

ASSUME LiveAssumption ==
    /\ Organic \subseteq Routes
    /\ Jobs \cap Foreign = {}
    /\ MaxFaults \in Nat
    /\ None \notin Verdicts \cup Routes \cup JobFile \cup Event

VARIABLES
    verified,    \* the ledger's verifier columns: route -> verdict or None
    events,      \* outcome_events: event id -> [route, verdict] or None
    file,        \* job id -> job file: [status, route, pending] or None
    evidence,    \* records of verified-evidence.jsonl, in order
    usable,      \* job id -> its workspace, plan and decision are as finish asks
    finisher,    \* job id -> where the running finish stands
    overlapped,  \* history: routes checked by one finish while another, that
                 \* had checked it too, was still running
    faults

vars == <<verified, events, file, evidence, usable, finisher, overlapped, faults>>

TypeOK ==
    /\ verified \in [Routes -> Verdicts \cup {None}]
    /\ events \in [Jobs \cup Foreign -> Event \cup {None}]
    /\ file \in [Jobs -> JobFile \cup {None}]
    /\ evidence \in Seq(Line)
    /\ usable \in [Jobs -> BOOLEAN]
    /\ finisher \in [Jobs -> Steps]
    /\ overlapped \subseteq Routes
    /\ faults \in 0 .. MaxFaults

Init ==
    /\ verified = [r \in Routes |-> None]
    /\ events = [e \in Jobs \cup Foreign |-> None]
    /\ file = [j \in Jobs |-> None]
    /\ evidence = <<>>
    /\ usable = [j \in Jobs |-> TRUE]
    /\ finisher = [j \in Jobs |-> "idle"]
    /\ overlapped = {}
    /\ faults = 0

-----------------------------------------------------------------------------
RecordsOf(j) == {i \in DOMAIN evidence : evidence[i].job = j}

(* No line of the evidence file makes its readers raise. *)
Readable == \A i \in DOMAIN evidence : evidence[i].text # "broken"

(* _read_evidence, which stops at the first line with the job's evidence    *)
(* id: a broken line is the last one, so it hides no other line.            *)
LinesOf(j) == {i \in RecordsOf(j) : evidence[i].text # "broken"}

(* SqliteProvider.attach_verification: one transaction. An event id that is *)
(* already there is accepted for its own route and changes nothing.         *)
AttachVerification(e, r, v) ==
    \/ /\ events[e] # None
       /\ events[e].route = r
       /\ UNCHANGED <<verified, events>>
    \/ /\ events[e] = None
       /\ verified' = [verified EXCEPT ![r] = v]
       /\ events' = [events EXCEPT ![e] = [route |-> r, verdict |-> v]]

-----------------------------------------------------------------------------
(* begin_verification_job: the route is organic and carries no verifier     *)
(* evidence; nothing is asked about other jobs of the route. The job id is  *)
(* minted here. The baseline runs between the read of the route and the     *)
(* write of the file; a job written late is one the next step may find      *)
(* overtaken, as a job written early is.                                    *)
Begin(j, r) ==
    /\ file[j] = None
    /\ usable[j]
    /\ r \in Organic
    /\ verified[r] = None
    /\ file' = [file EXCEPT ![j] =
                   [status |-> "begun", route |-> r, pending |-> None]]
    /\ UNCHANGED <<verified, events, evidence, usable, finisher, overlapped, faults>>

(* The workspace is moved, rewound or put back, or its plan or decision is  *)
(* no longer the one bound.                                                 *)
Disturb(j) ==
    /\ usable' = [usable EXCEPT ![j] = ~@]
    /\ UNCHANGED <<verified, events, file, evidence, finisher, overlapped, faults>>

(* finish: take the job's lock, read its file and look for its evidence.    *)
(* A job whose evidence is on file only has its status brought up to date;  *)
(* any other ends here if the file has a broken line or the workspace is    *)
(* not as bound.                                                            *)
Open(j) ==
    /\ finisher[j] = "idle"
    /\ file[j] # None
    /\ IF LinesOf(j) # {}
         THEN /\ file' = [file EXCEPT ![j].status = "complete"]
              /\ UNCHANGED finisher
         ELSE /\ Readable
              /\ usable[j]
              /\ finisher' = [finisher EXCEPT ![j] = "open"]
              /\ UNCHANGED file
    /\ UNCHANGED <<verified, events, evidence, usable, overlapped, faults>>

(* The process has checked the route and not yet written to the ledger. *)
Checked(k) == finisher[k] \in {"verifying", "journaled"}

(* Mutant: evidence of somebody else is not asked about. *)
CheckRouteTrusting(j) ==
    /\ finisher[j] = "open"
    /\ finisher' = [finisher EXCEPT ![j] =
                       IF file[j].status = "begun" THEN "verifying"
                       ELSE "journaled"]
    /\ UNCHANGED <<verified, events, file, evidence, usable, overlapped, faults>>

(* Mutant: a route that carries evidence is refused, its own included. *)
CheckRouteStrict(j) ==
    /\ finisher[j] = "open"
    /\ finisher' = [finisher EXCEPT ![j] =
                       IF verified[file[j].route] # None THEN "idle"
                       ELSE IF file[j].status = "begun" THEN "verifying"
                       ELSE "journaled"]
    /\ UNCHANGED <<verified, events, file, evidence, usable, overlapped, faults>>

(* Mutant: recovery verifies the workspace again. *)
CheckRouteAgain(j) ==
    LET r == file[j].route
    IN  /\ finisher[j] = "open"
        /\ finisher' = [finisher EXCEPT ![j] =
                           IF verified[r] # None /\ events[j] = None
                             THEN "idle" ELSE "verifying"]
        /\ UNCHANGED <<verified, events, file, evidence, usable, overlapped, faults>>

(* finish: read the route and the job's own event. A route enriched by      *)
(* somebody else is refused; a journaled verdict is taken up again; a begun *)
(* job goes on to verify only if the route is still bare.                   *)
CheckRoute(j) ==
    LET r == file[j].route
        own == events[j] # None /\ events[j].route = r
        refused == \/ verified[r] # None /\ ~own
                   \/ verified[r] = None /\ events[j] # None
                   \/ file[j].status = "begun" /\ verified[r] # None
    IN  /\ finisher[j] = "open"
        /\ finisher' = [finisher EXCEPT ![j] =
                           IF refused THEN "idle"
                           ELSE IF file[j].status = "begun" THEN "verifying"
                           ELSE "journaled"]
        /\ overlapped' =
              IF ~refused /\ \E k \in Jobs \ {j} : /\ Checked(k)
                                                   /\ file[k].route = r
                THEN overlapped \cup {r} ELSE overlapped
        /\ UNCHANGED <<verified, events, file, evidence, usable, faults>>

(* The workspace does not answer its verification; nothing is journaled. *)
Refuse(j) ==
    /\ finisher[j] = "verifying"
    /\ ~usable[j]
    /\ finisher' = [finisher EXCEPT ![j] = "idle"]
    /\ UNCHANGED <<verified, events, file, evidence, usable, overlapped, faults>>

(* verify_candidate and the recovery journal: verdict and evidence are      *)
(* written to the job file before anything else is touched.                 *)
Journal(j, v) ==
    /\ finisher[j] = "verifying"
    /\ file' = [file EXCEPT ![j].status = "verified", ![j].pending = v]
    /\ finisher' = [finisher EXCEPT ![j] = "journaled"]
    /\ UNCHANGED <<verified, events, evidence, usable, overlapped, faults>>

(* The ledger is enriched with the journaled verdict. *)
Attach(j) ==
    /\ finisher[j] = "journaled"
    /\ AttachVerification(j, file[j].route, file[j].pending)
    /\ finisher' = [finisher EXCEPT ![j] = "attached"]
    /\ UNCHANGED <<file, evidence, usable, overlapped, faults>>

(* Mutant: the job is completed before its evidence is written. *)
AppendLater(j) ==
    /\ finisher[j] = "attached"
    /\ finisher' = [finisher EXCEPT ![j] = "appended"]
    /\ UNCHANGED <<verified, events, file, evidence, usable, overlapped, faults>>

(* One record is written at the end of the file, on the line of the record  *)
(* before it if that one has no newline.                                    *)
Written(j, text) ==
    LET n == Len(evidence)
        glued == n > 0 /\ evidence[n].text = "bare"
        record == [job |-> j, route |-> file[j].route, verdict |-> file[j].pending,
                   text |-> IF glued THEN "broken" ELSE text]
    IN  [i \in 1 .. n + 1 |->
            IF i > n THEN record
            ELSE IF i = n /\ glued THEN [evidence[n] EXCEPT !.text = "broken"]
            ELSE evidence[i]]

(* _append_evidence_once, under the lock of the evidence file: it raises if *)
(* a line cannot be read; a record of this job is accepted if it says the   *)
(* same, and stops the command if not. Whether the file ends with a newline *)
(* is not asked.                                                            *)
AppendEvidence(j) ==
    LET same(i) == /\ evidence[i].route = file[j].route
                   /\ evidence[i].verdict = file[j].pending
    IN  /\ finisher[j] = "attached"
        /\ IF Readable /\ LinesOf(j) = {}
             THEN evidence' = Written(j, "whole")
             ELSE UNCHANGED evidence
        /\ finisher' = [finisher EXCEPT ![j] =
               IF Readable /\ \A i \in LinesOf(j) : same(i)
                 THEN "appended" ELSE "idle"]
        /\ UNCHANGED <<verified, events, file, usable, overlapped, faults>>

(* The write is cut short: a part of the record, or all but its newline. *)
Tear(j) ==
    /\ finisher[j] = "attached"
    /\ Readable /\ LinesOf(j) = {}
    /\ faults < MaxFaults
    /\ faults' = faults + 1
    /\ \E text \in {"bare", "broken"} : evidence' = Written(j, text)
    /\ finisher' = [finisher EXCEPT ![j] = "idle"]
    /\ UNCHANGED <<verified, events, file, usable, overlapped>>

(* The job is marked complete and its lock released. *)
Complete(j) ==
    /\ finisher[j] = "appended"
    /\ file' = [file EXCEPT ![j].status = "complete"]
    /\ finisher' = [finisher EXCEPT ![j] = "idle"]
    /\ UNCHANGED <<verified, events, evidence, usable, overlapped, faults>>

(* The process dies, a write fails or the ledger is locked: what has been   *)
(* written stays, the lock goes with the process.                           *)
Stop(j) ==
    /\ finisher[j] # "idle"
    /\ faults < MaxFaults
    /\ faults' = faults + 1
    /\ finisher' = [finisher EXCEPT ![j] = "idle"]
    /\ UNCHANGED <<verified, events, file, evidence, usable, overlapped>>

(* run_counterfactual with a candidate that names a route: it attaches      *)
(* under an event id of its own and asks nothing about earlier evidence.    *)
ForeignAttach(e, r, v) ==
    /\ events[e] = None
    /\ AttachVerification(e, r, v)
    /\ UNCHANGED <<file, evidence, usable, finisher, overlapped, faults>>

(* What the readiness report accepts of the evidence file                   *)
(* (learning_readiness._validate_context): every line can be read, and this *)
(* is the first of its id, whose event the ledger holds for that route, and *)
(* whose verdict is the one the verifier columns show today.                *)
ValidContext(i) ==
    LET line == evidence[i]
    IN  /\ Readable
        /\ \A k \in LinesOf(line.job) : i <= k
        /\ events[line.job] # None
        /\ events[line.job].route = line.route
        /\ verified[line.route] = line.verdict

Finish(j) == \/ Open(j)
             \/ CheckRoute(j)
             \/ Refuse(j)
             \/ \E v \in Verdicts : Journal(j, v)
             \/ Attach(j)
             \/ AppendEvidence(j)
             \/ Complete(j)

Next == \/ \E j \in Jobs : \/ \E r \in Routes : Begin(j, r)
                           \/ Disturb(j)
                           \/ Finish(j)
                           \/ Stop(j)
                           \/ Tear(j)
        \/ \E e \in Foreign, r \in Routes, v \in Verdicts :
               ForeignAttach(e, r, v)

Spec == Init /\ [][Next]_vars

(* A running command proceeds, and the operator runs finish again as long   *)
(* as the job is not complete (the CLI returns an error until it is). What  *)
(* the command refuses is not among its steps: nothing is asked of the      *)
(* workspace or of the file here.                                           *)
Fairness == \A j \in Jobs : WF_vars(Finish(j))

FairSpec == Spec /\ Fairness

-----------------------------------------------------------------------------
RecordsOfRoute(r) == {i \in DOMAIN evidence : evidence[i].route = r}

(* A route contributes at most one record to the learning evidence, however *)
(* often its jobs are begun, interrupted and finished again, unless two     *)
(* finishes of one route held their check at the same time: the check and   *)
(* the ledger write are apart, with the verification in between.            *)
OneLabelPerRoute ==
    \A r \in Routes \ overlapped : Cardinality(RecordsOfRoute(r)) <= 1

(* A job reported complete has a line that the readiness report counts:     *)
(* event, evidence and ledger columns tell one story, unless a second       *)
(* verifier wrote over the columns (an overlapping finish, a counterfactual *)
(* run that named the route) or a cut write made the whole file unreadable. *)
CompletedLabelCounts ==
    \A j \in Jobs :
        (/\ Readable
         /\ file[j] # None
         /\ file[j].status = "complete"
         /\ file[j].route \notin overlapped
         /\ \A e \in Foreign : events[e] = None \/ events[e].route # file[j].route)
            => \E i \in LinesOf(j) : ValidContext(i)

(* What the code refuses whenever it looks ("route acquired different       *)
(* verifier evidence"): a route with the evidence of two jobs.              *)
RouteLabelledOnce == \A r \in Routes : Cardinality(RecordsOfRoute(r)) <= 1

(* Each job decides one verdict, once, and writes that verdict, once. *)
Once == INSTANCE LabelOnce WITH
            decided <- [j \in Jobs |->
                           IF events[j] = None THEN None ELSE events[j].verdict],
            published <- [j \in Jobs |->
                             {evidence[i].verdict : i \in RecordsOf(j)}]

ImplementsLabelOnce == Once!Spec

(* A job whose verdict reached the ledger is brought to its end by running  *)
(* finish again, wherever it died in between, if its workspace is at last   *)
(* left as it was bound and no cut write ever breaks a line of the file.    *)
Recovers ==
    \A j \in Jobs :
        (<>[]usable[j] /\ []Readable)
            => ((events[j] # None)
                    ~> (/\ file[j] # None
                        /\ file[j].status = "complete"
                        /\ LinesOf(j) # {}))

(* "the exact baseline can be verified and retried idempotently"            *)
(* (README.md:103): what running finish again does not bring about once a   *)
(* line of the file is broken. The label is in the ledger and in no         *)
(* evidence that can be read.                                               *)
RecoversThoughTorn ==
    \A j \in Jobs :
        <>[]usable[j] => ((events[j] # None) ~> (LinesOf(j) # {}))
==============================================================================
