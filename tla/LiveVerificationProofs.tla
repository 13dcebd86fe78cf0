------------------------ MODULE LiveVerificationProofs ------------------------
(***************************************************************************)
(* Theorems of LiveVerification for any jobs, routes, verdicts, verifiers   *)
(* beside them and any number of deaths.                                    *)
(*                                                                         *)
(* The argument: a job's file, its event and its record of evidence are in  *)
(* step (JobKept), wherever its last finish died and whether or not the     *)
(* record can still be read.  A route that no two                           *)
(* finishes held at once has the event of one job, because a finish that    *)
(* has checked the route and not yet written keeps it bare (RouteKept).     *)
(***************************************************************************)
EXTENDS LiveVerification, FiniteSetTheorems, TLAPS

-----------------------------------------------------------------------------
(* The inductive invariant.                                                *)

(* The record at i says what the journal of j does. *)
Says(i, j) == evidence[i].route = file[j].route /\ evidence[i].verdict = file[j].pending

Started(j) ==
    /\ file[j].status # "begun" => file[j].pending \in Verdicts
    /\ finisher[j] = "verifying" => file[j].status = "begun"
    /\ finisher[j] \in {"journaled", "attached", "appended"} => file[j].status # "begun"
    /\ finisher[j] \in {"attached", "appended"} => events[j] # None
    /\ finisher[j] = "appended" => RecordsOf(j) # {}
    /\ finisher[j] \in {"open", "verifying", "journaled", "attached"} => RecordsOf(j) = {}
    /\ file[j].status = "complete" => RecordsOf(j) # {}
    /\ events[j] # None =>
          /\ file[j].status # "begun"
          /\ events[j] = [route |-> file[j].route, verdict |-> file[j].pending]
    /\ RecordsOf(j) # {} => events[j] # None
    /\ \A i \in RecordsOf(j) : Says(i, j)
    /\ \A i, k \in RecordsOf(j) : i = k

JobKept(j) ==
    IF file[j] = None
      THEN finisher[j] = "idle" /\ events[j] = None /\ RecordsOf(j) = {}
      ELSE Started(j)

On(e, r) == events[e] # None /\ events[e].route = r
Holds(j, r) == Checked(j) /\ file[j].route = r

RouteKept(r) ==
    /\ \A e \in Jobs \cup Foreign : On(e, r) => verified[r] # None
    /\ r \notin overlapped =>
          /\ \A j, k \in Jobs : Holds(j, r) /\ Holds(k, r) => j = k
          /\ \A j, k \in Jobs : Holds(j, r) /\ events[j] = None => ~On(k, r)
          /\ \A j, k \in Jobs : On(j, r) /\ On(k, r) => j = k
          /\ (\A e \in Foreign : ~On(e, r)) =>
                \A j \in Jobs : On(j, r) => verified[r] = events[j].verdict

Inv == /\ TypeOK
       /\ \A j \in Jobs : JobKept(j)
       /\ \A r \in Routes : RouteKept(r)

-----------------------------------------------------------------------------
(* The evidence file.                                                      *)

LEMMA ReadableRecords ==
    ASSUME Readable, NEW j \in Jobs
    PROVE  LinesOf(j) = RecordsOf(j)
BY DEF Readable, LinesOf, RecordsOf

(* A record keeps what it says; its line may be spoiled. *)
Same(i) == /\ evidence'[i].job = evidence[i].job
           /\ evidence'[i].route = evidence[i].route
           /\ evidence'[i].verdict = evidence[i].verdict

LEMMA WrittenIs ==
    ASSUME TypeOK, NEW j \in Jobs, NEW text \in Texts,
           file[j].route \in Routes, file[j].pending \in Verdicts
    PROVE  /\ Written(j, text) \in Seq(Line)
           /\ DOMAIN Written(j, text) = DOMAIN evidence \cup {Len(evidence) + 1}
           /\ Len(evidence) + 1 \notin DOMAIN evidence
           /\ \A i \in DOMAIN evidence :
                 /\ Written(j, text)[i].job = evidence[i].job
                 /\ Written(j, text)[i].route = evidence[i].route
                 /\ Written(j, text)[i].verdict = evidence[i].verdict
           /\ Written(j, text)[Len(evidence) + 1].job = j
           /\ Written(j, text)[Len(evidence) + 1].route = file[j].route
           /\ Written(j, text)[Len(evidence) + 1].verdict = file[j].pending
<1> DEFINE n == Len(evidence)
           glued == n > 0 /\ evidence[n].text = "bare"
           record == [job |-> j, route |-> file[j].route, verdict |-> file[j].pending,
                      text |-> IF glued THEN "broken" ELSE text]
           w == Written(j, text)
<1>1. n \in Nat /\ DOMAIN evidence = 1 .. n /\ \A i \in 1 .. n : evidence[i] \in Line
  BY DEF TypeOK
<1>2. record \in Line
  BY DEF Line, Texts
<1>3. w = [i \in 1 .. n + 1 |->
               IF i > n THEN record
               ELSE IF i = n /\ glued THEN [evidence[n] EXCEPT !.text = "broken"]
               ELSE evidence[i]]
  BY DEF Written
<1>4. w[n + 1] = record
  <2>1. n + 1 \in 1 .. n + 1 /\ n + 1 > n
    BY <1>1
  <2> HIDE DEF w, record, n, glued
  <2> QED BY <1>3, <2>1
<1>5. ASSUME NEW i \in 1 .. n
      PROVE  /\ w[i] \in Line
             /\ w[i].job = evidence[i].job
             /\ w[i].route = evidence[i].route
             /\ w[i].verdict = evidence[i].verdict
  <2>1. w[i] = evidence[i] \/ w[i] = [evidence[i] EXCEPT !.text = "broken"]
    BY <1>1, <1>3
  <2> HIDE DEF w
  <2> QED BY <1>1, <2>1 DEF Line, Texts
<1>6. DOMAIN w = 1 .. n + 1
  BY <1>3
<1>7. w \in Seq(Line)
  <2>1. \A i \in 1 .. n + 1 : w[i] \in Line
    <3> HIDE DEF w, record
    <3> QED BY <1>1, <1>2, <1>4, <1>5
  <2>2. n + 1 \in Nat
    BY <1>1
  <2>3. w = [i \in 1 .. n + 1 |-> w[i]]
    BY <1>3
  <2> HIDE DEF w, n
  <2> QED BY <2>1, <2>2, <2>3
<1>8. 1 .. n + 1 = (1 .. n) \cup {n + 1} /\ n + 1 \notin 1 .. n
  BY <1>1
<1>9. /\ record.job = j
      /\ record.route = file[j].route
      /\ record.verdict = file[j].pending
  OBVIOUS
<1> HIDE DEF record, w
<1> QED BY <1>1, <1>4, <1>5, <1>6, <1>7, <1>8, <1>9 DEF w

-----------------------------------------------------------------------------
(* Frames: what a step leaves alone stays kept.                            *)

LEMMA JobFrame ==
    ASSUME NEW j \in Jobs, JobKept(j),
           file'[j] = file[j], finisher'[j] = finisher[j], events'[j] = events[j],
           RecordsOf(j)' = RecordsOf(j),
           \A i \in RecordsOf(j) : /\ evidence'[i].route = evidence[i].route
                                  /\ evidence'[i].verdict = evidence[i].verdict
    PROVE  JobKept(j)'
BY DEF JobKept, Started, Says

LEMMA RouteFrame ==
    ASSUME NEW r \in Routes, RouteKept(r),
           verified' = verified, events' = events, file' = file,
           overlapped' = overlapped,
           \A j \in Jobs : Checked(j)' => Checked(j)
    PROVE  RouteKept(r)'
BY DEF RouteKept, On, Holds

(* A file that keeps its route and a finish that does not enter the check. *)
LEMMA RouteSame ==
    ASSUME NEW r \in Routes, RouteKept(r),
           verified' = verified, events' = events, overlapped' = overlapped,
           \A j \in Jobs : Holds(j, r)' => Holds(j, r)
    PROVE  RouteKept(r)'
BY DEF RouteKept, On

-----------------------------------------------------------------------------
(* One lemma per step.                                                     *)

LEMMA InitKeeps == Init => Inv
<1> SUFFICES ASSUME Init PROVE Inv
  OBVIOUS
<1>1. TypeOK
  BY LiveAssumption DEF Init, TypeOK, Steps
<1>2. \A j \in Jobs : JobKept(j)
  BY DEF Init, JobKept, RecordsOf
<1>3. \A r \in Routes : RouteKept(r)
  BY DEF Init, RouteKept, On, Holds, Checked
<1> QED BY <1>1, <1>2, <1>3 DEF Inv

LEMMA BeginKeeps ==
    ASSUME Inv, NEW j \in Jobs, NEW r \in Routes, Begin(j, r)
    PROVE  Inv'
<1> USE LiveAssumption
<1>1. TypeOK'
  BY DEF Inv, TypeOK, Begin, JobFile, Statuses
<1>2. \A k \in Jobs : RecordsOf(k)' = RecordsOf(k)
  BY DEF Begin, RecordsOf
<1>3. ASSUME NEW k \in Jobs PROVE JobKept(k)'
  <2>1. CASE k = j
    <3>1. finisher[j] = "idle" /\ events[j] = None /\ RecordsOf(j) = {}
      BY DEF Inv, JobKept, Begin
    <3>2. file'[j] = [status |-> "begun", route |-> r, pending |-> None]
      BY DEF Begin, Inv, TypeOK
    <3>3. file'[j] # None
      BY <3>2 DEF JobFile, Statuses
    <3> QED BY <1>2, <2>1, <3>1, <3>2, <3>3 DEF JobKept, Started, Begin
  <2>2. CASE k # j
    BY <1>2, <2>2, JobFrame DEF Inv, Begin, TypeOK
  <2> QED BY <2>1, <2>2
<1>4. ASSUME NEW q \in Routes PROVE RouteKept(q)'
  <2>1. \A k \in Jobs : Holds(k, q)' => Holds(k, q)
    BY DEF Inv, JobKept, Begin, Holds, Checked, TypeOK
  <2> QED BY <2>1, RouteSame DEF Inv, Begin
<1> QED BY <1>1, <1>3, <1>4 DEF Inv

LEMMA OpenKeeps ==
    ASSUME Inv, NEW j \in Jobs, Open(j)
    PROVE  Inv'
<1> USE LiveAssumption
<1>0. \A k \in Jobs : RecordsOf(k)' = RecordsOf(k)
  BY DEF Open, RecordsOf
<1>1. Started(j)
  BY DEF Inv, JobKept, Open
<1>2. CASE LinesOf(j) # {}
  <2>0. RecordsOf(j) # {}
    BY <1>2 DEF LinesOf
  <2>1. /\ file' = [file EXCEPT ![j].status = "complete"]
        /\ UNCHANGED <<verified, events, evidence, usable, finisher, overlapped, faults>>
    BY <1>2 DEF Open
  <2>2. file[j] \in JobFile
    BY DEF Open, Inv, TypeOK
  <2>3. file'[j] = [file[j] EXCEPT !.status = "complete"]
    BY <2>1 DEF Inv, TypeOK
  <2>4. /\ file'[j].status = "complete"
        /\ file'[j].route = file[j].route
        /\ file'[j].pending = file[j].pending
        /\ file'[j] \in JobFile
    BY <2>2, <2>3 DEF JobFile, Statuses
  <2>5. TypeOK'
    BY <2>1, <2>4 DEF Inv, TypeOK
  <2>6. ASSUME NEW k \in Jobs PROVE JobKept(k)'
    <3>1. CASE k = j
      <4>1. Started(j)'
        BY <1>0, <1>1, <2>0, <2>1, <2>4 DEF Started, Says, Open
      <4> QED BY <2>4, <3>1, <4>1 DEF JobKept
    <3>2. CASE k # j
      BY <1>0, <2>1, <3>2, JobFrame DEF Inv, TypeOK
    <3> QED BY <3>1, <3>2
  <2>7. ASSUME NEW r \in Routes PROVE RouteKept(r)'
    <3>1. \A k \in Jobs : Holds(k, r)' => Holds(k, r)
      BY <2>1, <2>4 DEF Holds, Checked, Inv, TypeOK
    <3> QED BY <2>1, <3>1, RouteSame DEF Inv
  <2> QED BY <2>5, <2>6, <2>7 DEF Inv
<1>3. CASE LinesOf(j) = {}
  <2>1. /\ finisher' = [finisher EXCEPT ![j] = "open"]
        /\ UNCHANGED <<verified, events, evidence, file, usable, overlapped, faults>>
        /\ RecordsOf(j) = {}
    BY <1>3, ReadableRecords DEF Open
  <2>2. TypeOK'
    BY <2>1 DEF Inv, TypeOK, Steps
  <2>3. ASSUME NEW k \in Jobs PROVE JobKept(k)'
    <3>1. CASE k = j
      BY <1>0, <1>1, <2>1, <3>1 DEF JobKept, Started, Says, Inv, TypeOK, Open
    <3>2. CASE k # j
      BY <1>0, <2>1, <3>2, JobFrame DEF Inv, TypeOK
    <3> QED BY <3>1, <3>2
  <2>4. ASSUME NEW r \in Routes PROVE RouteKept(r)'
    BY <2>1, RouteFrame DEF Inv, TypeOK, Checked
  <2> QED BY <2>2, <2>3, <2>4 DEF Inv
<1> QED BY <1>2, <1>3

(* The check is where a route is found held by two, or bare. *)
LEMMA CheckRouteKeeps ==
    ASSUME Inv, NEW j \in Jobs, CheckRoute(j)
    PROVE  Inv'
<1> USE LiveAssumption
<1> DEFINE f == file[j].route
           own == events[j] # None /\ events[j].route = f
           refused == \/ verified[f] # None /\ ~own
                      \/ verified[f] = None /\ events[j] # None
                      \/ file[j].status = "begun" /\ verified[f] # None
           rivals == \E k \in Jobs \ {j} : Checked(k) /\ file[k].route = f
<1>0. \A k \in Jobs : RecordsOf(k)' = RecordsOf(k)
  BY DEF CheckRoute, RecordsOf
<1>1. /\ finisher[j] = "open"
      /\ finisher' = [finisher EXCEPT ![j] =
                         IF refused THEN "idle"
                         ELSE IF file[j].status = "begun" THEN "verifying"
                         ELSE "journaled"]
      /\ overlapped' = IF ~refused /\ rivals THEN overlapped \cup {f} ELSE overlapped
      /\ UNCHANGED <<verified, events, file, evidence, usable, faults>>
  BY DEF CheckRoute
<1>2. file[j] \in JobFile /\ Started(j)
  BY <1>1 DEF Inv, JobKept, TypeOK
<1>3. f \in Routes
  BY <1>2 DEF JobFile
<1> HIDE DEF refused, rivals
<1>4. TypeOK'
  BY <1>1, <1>3 DEF Inv, TypeOK, Steps
<1>5. ASSUME NEW k \in Jobs PROVE JobKept(k)'
  <2>1. CASE k = j
    <3>1. file[j] # None /\ file'[j] = file[j] /\ events'[j] = events[j]
      BY <1>1, <1>2
    <3>2. /\ finisher'[j] \in {"idle", "verifying", "journaled"}
          /\ finisher'[j] = "verifying" => file[j].status = "begun"
          /\ finisher'[j] = "journaled" => file[j].status # "begun"
      BY <1>1 DEF Inv, TypeOK
    <3>3. RecordsOf(j) = {}
      BY <1>1, <1>2 DEF Started
    <3>4. Started(j)'
      BY <1>0, <1>1, <1>2, <3>1, <3>2, <3>3 DEF Started, Says
    <3> QED BY <2>1, <3>1, <3>4 DEF JobKept
  <2>2. CASE k # j
    BY <1>0, <1>1, <2>2, JobFrame DEF Inv, TypeOK
  <2> QED BY <2>1, <2>2
<1>6. ASSUME NEW r \in Routes PROVE RouteKept(r)'
  <2>0. RouteKept(r)
    BY DEF Inv
  <2>1. \A k \in Jobs : k # j => (Holds(k, r)' <=> Holds(k, r))
    BY <1>1 DEF Holds, Checked, Inv, TypeOK
  <2>2. CASE refused \/ f # r
    <3>1. \A k \in Jobs : Holds(k, r)' => Holds(k, r)
      BY <1>1, <2>1, <2>2 DEF Holds, Checked, Inv, TypeOK
    <3>2. r \notin overlapped' => r \notin overlapped
      BY <1>1
    <3> QED BY <1>1, <2>0, <3>1, <3>2 DEF RouteKept, On
  <2>3. CASE ~refused /\ f = r
    <3>1. /\ \A e \in Jobs \cup Foreign : On(e, r)' <=> On(e, r)
          /\ UNCHANGED <<verified, events>>
      BY <1>1 DEF On
    <3>2. CASE rivals
      <4>1. r \in overlapped'
        BY <1>1, <2>3, <3>2
      <4> QED BY <2>0, <3>1, <4>1 DEF RouteKept
    <3>3. CASE ~rivals
      <4>1. \A k \in Jobs : Holds(k, r)' => k = j
        BY <2>1, <2>3, <3>3 DEF rivals, Holds
      <4>2. events[j] = None => \A k \in Jobs : ~On(k, r)
        BY <2>0, <2>3 DEF refused, RouteKept
      <4>3. r \notin overlapped' => r \notin overlapped
        BY <1>1
      <4> QED BY <2>0, <3>1, <4>1, <4>2, <4>3 DEF RouteKept
    <3> QED BY <3>2, <3>3
  <2> QED BY <2>2, <2>3
<1> QED BY <1>4, <1>5, <1>6 DEF Inv

LEMMA JournalKeeps ==
    ASSUME Inv, NEW j \in Jobs, NEW v \in Verdicts, Journal(j, v)
    PROVE  Inv'
<1> USE LiveAssumption
<1>0. \A k \in Jobs : RecordsOf(k)' = RecordsOf(k)
  BY DEF Journal, RecordsOf
<1>1. file[j] \in JobFile /\ Started(j) /\ finisher[j] = "verifying"
  BY DEF Inv, JobKept, TypeOK, Journal
<1>2. /\ file'[j] \in JobFile
      /\ file'[j].status = "verified"
      /\ file'[j].route = file[j].route
      /\ file'[j].pending = v
      /\ finisher'[j] = "journaled"
      /\ \A k \in Jobs : k # j => file'[k] = file[k] /\ finisher'[k] = finisher[k]
  BY <1>1 DEF Journal, Inv, TypeOK, JobFile, Statuses
<1>3. TypeOK'
  BY <1>1 DEF Journal, Inv, TypeOK, JobFile, Statuses, Steps
<1>4. ASSUME NEW k \in Jobs PROVE JobKept(k)'
  <2>1. CASE k = j
    <3>1. RecordsOf(j) = {} /\ events[j] = None
      BY <1>1 DEF Started
    <3>2. Started(j)'
      BY <1>0, <1>2, <3>1 DEF Started, Journal
    <3> QED BY <1>2, <2>1, <3>2 DEF JobKept
  <2>2. CASE k # j
    BY <1>0, <1>2, <2>2, JobFrame DEF Inv, Journal
  <2> QED BY <2>1, <2>2
<1>5. ASSUME NEW r \in Routes PROVE RouteKept(r)'
  <2>1. \A k \in Jobs : Holds(k, r)' => Holds(k, r)
    BY <1>1, <1>2 DEF Holds, Checked
  <2> QED BY <2>1, RouteSame DEF Inv, Journal
<1> QED BY <1>3, <1>4, <1>5 DEF Inv

(* The first write to the ledger: the finish has held the route alone, or   *)
(* the route counts as overlapped.                                          *)
LEMMA AttachKeeps ==
    ASSUME Inv, NEW j \in Jobs, Attach(j)
    PROVE  Inv'
<1> USE LiveAssumption
<1> DEFINE f == file[j].route
           v == file[j].pending
<1>0. \A k \in Jobs : RecordsOf(k)' = RecordsOf(k)
  BY DEF Attach, RecordsOf
<1>1. file[j] \in JobFile /\ file[j] # None /\ Started(j) /\ finisher[j] = "journaled"
  BY DEF Inv, JobKept, TypeOK, Attach
<1>2. f \in Routes /\ v \in Verdicts
  BY <1>1 DEF JobFile, Started
<1>3. /\ finisher' = [finisher EXCEPT ![j] = "attached"]
      /\ UNCHANGED <<file, evidence, usable, overlapped, faults>>
  BY DEF Attach
<1>4. \A k \in Jobs, r \in Routes : Holds(k, r)' => Holds(k, r) /\ k # j
  BY <1>3 DEF Holds, Checked, Inv, TypeOK
<1>5. CASE events[j] # None /\ UNCHANGED <<verified, events>>
  <2>1. TypeOK'
    BY <1>3, <1>5 DEF Inv, TypeOK, Steps
  <2>2. ASSUME NEW k \in Jobs PROVE JobKept(k)'
    <3>1. CASE k = j
      <4>1. finisher'[j] = "attached"
        BY <1>3 DEF Inv, TypeOK
      <4>2. Started(j)'
        BY <1>0, <1>1, <1>3, <1>5, <4>1 DEF Started, Says
      <4> QED BY <1>1, <1>3, <3>1, <4>2 DEF JobKept
    <3>2. CASE k # j
      BY <1>0, <1>3, <1>5, <3>2, JobFrame DEF Inv, TypeOK
    <3> QED BY <3>1, <3>2
  <2>3. ASSUME NEW r \in Routes PROVE RouteKept(r)'
    BY <1>3, <1>4, <1>5, RouteSame DEF Inv
  <2> QED BY <2>1, <2>2, <2>3 DEF Inv
<1>6. CASE /\ events[j] = None
           /\ verified' = [verified EXCEPT ![f] = v]
           /\ events' = [events EXCEPT ![j] = [route |-> f, verdict |-> v]]
  <2>1. [route |-> f, verdict |-> v] \in Event
    BY <1>2 DEF Event
  <2>2. /\ events'[j] = [route |-> f, verdict |-> v]
        /\ events'[j] # None
        /\ \A e \in Jobs \cup Foreign : e # j => events'[e] = events[e]
        /\ verified'[f] = v
        /\ \A r \in Routes : r # f => verified'[r] = verified[r]
    BY <1>2, <1>6, <2>1 DEF Inv, TypeOK
  <2>3. TypeOK'
    BY <1>2, <1>3, <1>6, <2>1 DEF Inv, TypeOK, Steps
  <2>4. ASSUME NEW k \in Jobs PROVE JobKept(k)'
    <3>1. CASE k = j
      <4>1. finisher'[j] = "attached"
        BY <1>3 DEF Inv, TypeOK
      <4>2. file[j].status # "begun" /\ RecordsOf(j) = {}
        BY <1>1 DEF Started
      <4>3. Started(j)'
        BY <1>0, <1>1, <1>3, <2>2, <4>1, <4>2 DEF Started
      <4> QED BY <1>1, <1>3, <3>1, <4>3 DEF JobKept
    <3>2. CASE k # j
      BY <1>0, <1>3, <2>2, <3>2, JobFrame DEF Inv, TypeOK
    <3> QED BY <3>1, <3>2
  <2>5. ASSUME NEW r \in Routes PROVE RouteKept(r)'
    <3>0. RouteKept(r)
      BY DEF Inv
    <3>1. \A e \in Jobs \cup Foreign : e # j => (On(e, r)' <=> On(e, r))
      BY <2>2 DEF On
    <3>2. CASE r # f
      <4>1. ~On(j, r)' /\ ~On(j, r) /\ verified'[r] = verified[r]
        BY <1>6, <2>2, <3>2 DEF On
      <4>2. \A e \in Jobs \cup Foreign : On(e, r)' <=> On(e, r)
        BY <3>1, <4>1
      <4>3. \A k \in Jobs : Holds(k, r)' => Holds(k, r) /\ events'[k] = events[k]
        BY <1>4, <2>2
      <4>4. \A k \in Jobs : On(k, r) => events'[k] = events[k]
        BY <2>2, <4>1
      <4> HIDE DEF f, v
      <4> QED BY <1>3, <3>0, <4>1, <4>2, <4>3, <4>4 DEF RouteKept
    <3>3. CASE r = f
      <4>1. Holds(j, r)
        BY <1>1, <3>3 DEF Holds, Checked
      <4>2. verified'[r] = v /\ v # None /\ events'[j].verdict = v
        BY <1>2, <2>2, <3>3
      <4>3. r \notin overlapped => \A k \in Jobs : ~Holds(k, r)' /\ (On(k, r)' => k = j)
        BY <1>4, <1>6, <3>0, <3>1, <4>1 DEF RouteKept
      <4>4. \A e \in Jobs \cup Foreign : On(e, r)' => verified'[r] # None
        BY <4>2
      <4> HIDE DEF f, v
      <4> QED BY <1>3, <4>2, <4>3, <4>4 DEF RouteKept
    <3> QED BY <3>2, <3>3
  <2> QED BY <2>3, <2>4, <2>5 DEF Inv
<1> QED BY <1>5, <1>6 DEF Attach, AttachVerification

(* A finish that ends or dies: what has been written stays. *)
LEMMA HaltKeeps ==
    ASSUME Inv, NEW j \in Jobs,
           finisher' = [finisher EXCEPT ![j] = "idle"],
           UNCHANGED <<verified, events, file, evidence, usable, overlapped>>,
           faults' \in 0 .. MaxFaults
    PROVE  Inv'
<1>0. \A k \in Jobs : RecordsOf(k)' = RecordsOf(k)
  BY DEF RecordsOf
<1>2. TypeOK'
  BY DEF Inv, TypeOK, Steps
<1>3. ASSUME NEW k \in Jobs PROVE JobKept(k)'
  BY <1>0 DEF Inv, JobKept, Started, Says, TypeOK
<1>4. ASSUME NEW r \in Routes PROVE RouteKept(r)'
  BY RouteFrame DEF Inv, TypeOK, Checked
<1> QED BY <1>2, <1>3, <1>4 DEF Inv

LEMMA StopKeeps ==
    ASSUME Inv, NEW j \in Jobs, Stop(j) \/ Refuse(j)
    PROVE  Inv'
<1>1. faults' \in 0 .. MaxFaults
  BY LiveAssumption DEF Stop, Refuse, Inv, TypeOK
<1> QED BY <1>1, HaltKeeps DEF Stop, Refuse

LEMMA DisturbKeeps ==
    ASSUME Inv, NEW j \in Jobs, Disturb(j)
    PROVE  Inv'
<1>1. TypeOK'
  BY DEF Inv, TypeOK, Disturb
<1>2. \A k \in Jobs : RecordsOf(k)' = RecordsOf(k)
  BY DEF Disturb, RecordsOf
<1>3. \A k \in Jobs : JobKept(k)'
  BY <1>2, JobFrame DEF Inv, Disturb
<1>4. \A r \in Routes : RouteKept(r)'
  BY RouteFrame DEF Inv, Disturb, Checked
<1> QED BY <1>1, <1>3, <1>4 DEF Inv

(* What a write does to the file, whole or cut, glued or not. *)
LEMMA WriteKeeps ==
    ASSUME Inv, NEW j \in Jobs, NEW text \in Texts, NEW to \in {"appended", "idle"},
           finisher[j] = "attached", RecordsOf(j) = {},
           evidence' = Written(j, text),
           finisher' = [finisher EXCEPT ![j] = to],
           UNCHANGED <<verified, events, file, usable, overlapped>>,
           faults' \in 0 .. MaxFaults
    PROVE  Inv'
<1> USE LiveAssumption
<1>1. file[j] \in JobFile /\ file[j] # None /\ Started(j)
  BY DEF Inv, JobKept, TypeOK
<1>2. file[j].pending \in Verdicts /\ file[j].route \in Routes /\ events[j] # None
  BY <1>1 DEF Started, JobFile
<1>3. TypeOK
  BY DEF Inv
<1>4. PICK n \in Nat :
         /\ evidence' \in Seq(Line)
         /\ DOMAIN evidence' = DOMAIN evidence \cup {n}
         /\ \A i \in DOMAIN evidence : Same(i)
         /\ evidence'[n].job = j
         /\ evidence'[n].route = file[j].route
         /\ evidence'[n].verdict = file[j].pending
         /\ n \notin DOMAIN evidence
  <2>1. Len(evidence) + 1 \in Nat
    BY <1>3 DEF TypeOK
  <2>2. /\ evidence' \in Seq(Line)
        /\ DOMAIN evidence' = DOMAIN evidence \cup {Len(evidence) + 1}
        /\ Len(evidence) + 1 \notin DOMAIN evidence
        /\ evidence'[Len(evidence) + 1].job = j
        /\ evidence'[Len(evidence) + 1].route = file[j].route
        /\ evidence'[Len(evidence) + 1].verdict = file[j].pending
    BY <1>2, <1>3, WrittenIs
  <2>3. \A i \in DOMAIN evidence : Same(i)
    BY <1>2, <1>3, WrittenIs DEF Same
  <2> QED BY <2>1, <2>2, <2>3
<1>6. \A k \in Jobs : k # j => RecordsOf(k)' = RecordsOf(k)
  BY <1>4 DEF RecordsOf, Same
<1>7. RecordsOf(j)' = {n}
  BY <1>4 DEF RecordsOf, Same
<1>8. TypeOK'
  BY <1>4 DEF Inv, TypeOK, Steps
<1>9. ASSUME NEW k \in Jobs PROVE JobKept(k)'
  <2>1. CASE k = j
    <3>1. finisher'[j] = to
      BY DEF Inv, TypeOK
    <3>2. evidence'[n].route = file'[j].route /\ evidence'[n].verdict = file'[j].pending
      BY <1>4
    <3>3. Started(j)'
      BY <1>1, <1>2, <1>7, <3>1, <3>2 DEF Started, Says
    <3> QED BY <1>1, <2>1, <3>3 DEF JobKept
  <2>2. CASE k # j
    <3>1. \A i \in RecordsOf(k) : Same(i)
      BY <1>4 DEF RecordsOf
    <3> QED BY <1>6, <2>2, <3>1, JobFrame DEF Inv, TypeOK, Same
  <2> QED BY <2>1, <2>2
<1>10. ASSUME NEW r \in Routes PROVE RouteKept(r)'
  BY RouteFrame DEF Inv, TypeOK, Checked
<1> QED BY <1>8, <1>9, <1>10 DEF Inv

LEMMA AppendKeeps ==
    ASSUME Inv, NEW j \in Jobs, AppendEvidence(j)
    PROVE  Inv'
<1>1. /\ file[j] \in JobFile /\ file[j] # None /\ Started(j)
      /\ finisher[j] = "attached"
      /\ UNCHANGED <<verified, events, file, usable, overlapped, faults>>
  BY DEF Inv, JobKept, TypeOK, AppendEvidence
<1>2. RecordsOf(j) = {} /\ LinesOf(j) = {}
  BY <1>1 DEF Started, LinesOf
<1>3. CASE Readable
  <2>1. /\ evidence' = Written(j, "whole")
        /\ finisher' = [finisher EXCEPT ![j] = "appended"]
    BY <1>2, <1>3 DEF AppendEvidence
  <2>2. faults' \in 0 .. MaxFaults
    BY <1>1 DEF Inv, TypeOK
  <2> QED BY <1>1, <1>2, <2>1, <2>2, WriteKeeps DEF Texts
<1>4. CASE ~Readable
  <2>1. UNCHANGED evidence /\ finisher' = [finisher EXCEPT ![j] = "idle"]
    BY <1>4 DEF AppendEvidence
  <2> QED BY <1>1, <2>1, HaltKeeps DEF Inv, TypeOK
<1> QED BY <1>3, <1>4

LEMMA TearKeeps ==
    ASSUME Inv, NEW j \in Jobs, Tear(j)
    PROVE  Inv'
<1>1. PICK text \in {"bare", "broken"} : evidence' = Written(j, text)
  BY DEF Tear
<1>2. /\ finisher[j] = "attached"
      /\ finisher' = [finisher EXCEPT ![j] = "idle"]
      /\ UNCHANGED <<verified, events, file, usable, overlapped>>
      /\ RecordsOf(j) = {}
  BY ReadableRecords DEF Tear
<1>3. faults' \in 0 .. MaxFaults
  BY LiveAssumption DEF Tear, Inv, TypeOK
<1> QED BY <1>1, <1>2, <1>3, WriteKeeps DEF Texts

LEMMA CompleteKeeps ==
    ASSUME Inv, NEW j \in Jobs, Complete(j)
    PROVE  Inv'
<1> USE LiveAssumption
<1>0. \A k \in Jobs : RecordsOf(k)' = RecordsOf(k)
  BY DEF Complete, RecordsOf
<1>1. file[j] \in JobFile /\ Started(j) /\ finisher[j] = "appended"
  BY DEF Inv, JobKept, TypeOK, Complete
<1>2. /\ file'[j] \in JobFile
      /\ file'[j].status = "complete"
      /\ file'[j].route = file[j].route
      /\ file'[j].pending = file[j].pending
      /\ finisher'[j] = "idle"
      /\ \A k \in Jobs : k # j => file'[k] = file[k] /\ finisher'[k] = finisher[k]
  BY <1>1 DEF Complete, Inv, TypeOK, JobFile, Statuses
<1>3. TypeOK'
  BY <1>1 DEF Complete, Inv, TypeOK, JobFile, Statuses, Steps
<1>4. ASSUME NEW k \in Jobs PROVE JobKept(k)'
  <2>1. CASE k = j
    <3>1. RecordsOf(j) # {} /\ file[j].status # "begun"
      BY <1>1 DEF Started
    <3>2. Started(j)'
      BY <1>0, <1>1, <1>2, <3>1 DEF Started, Says, Complete
    <3> QED BY <1>2, <2>1, <3>2 DEF JobKept
  <2>2. CASE k # j
    BY <1>0, <1>2, <2>2, JobFrame DEF Inv, Complete
  <2> QED BY <2>1, <2>2
<1>5. ASSUME NEW r \in Routes PROVE RouteKept(r)'
  <2>1. \A k \in Jobs : Holds(k, r)' => Holds(k, r)
    BY <1>1, <1>2 DEF Holds, Checked
  <2> QED BY <2>1, RouteSame DEF Inv, Complete
<1> QED BY <1>3, <1>4, <1>5 DEF Inv

LEMMA ForeignKeeps ==
    ASSUME Inv, NEW e \in Foreign, NEW r \in Routes, NEW v \in Verdicts,
           ForeignAttach(e, r, v)
    PROVE  Inv'
<1> USE LiveAssumption
<1>0. \A k \in Jobs : RecordsOf(k)' = RecordsOf(k)
  BY DEF ForeignAttach, RecordsOf
<1>1. /\ verified' = [verified EXCEPT ![r] = v]
      /\ events' = [events EXCEPT ![e] = [route |-> r, verdict |-> v]]
      /\ UNCHANGED <<file, evidence, usable, finisher, overlapped, faults>>
  BY DEF ForeignAttach, AttachVerification
<1>2. [route |-> r, verdict |-> v] \in Event
  BY DEF Event
<1>3. TypeOK'
  BY <1>1, <1>2 DEF Inv, TypeOK
<1>4. /\ \A k \in Jobs : events'[k] = events[k]
      /\ \A d \in Foreign : d # e => events'[d] = events[d]
      /\ events'[e] = [route |-> r, verdict |-> v]
      /\ events'[e] # None
  BY <1>1, <1>2 DEF Inv, TypeOK
<1>5. ASSUME NEW k \in Jobs PROVE JobKept(k)'
  BY <1>0, <1>1, <1>4, JobFrame DEF Inv
<1>6. ASSUME NEW q \in Routes PROVE RouteKept(q)'
  <2>0. RouteKept(q)
    BY DEF Inv
  <2>1. \A k \in Jobs : (On(k, q)' <=> On(k, q)) /\ (Holds(k, q)' <=> Holds(k, q))
    BY <1>1, <1>4 DEF On, Holds, Checked
  <2>2. CASE q = r
    <3>1. verified'[q] = v /\ v # None /\ On(e, q)'
      BY <1>1, <1>4, <2>2 DEF On, Inv, TypeOK
    <3> QED BY <1>1, <1>4, <2>0, <2>1, <3>1 DEF RouteKept
  <2>3. CASE q # r
    <3>1. verified'[q] = verified[q]
      BY <1>1, <2>3 DEF Inv, TypeOK
    <3>2. \A d \in Foreign : On(d, q)' <=> On(d, q)
      <4>1. ~On(e, q)' /\ ~On(e, q)
        BY <1>4, <2>3 DEF On, ForeignAttach
      <4> QED BY <1>4, <4>1 DEF On
    <3> QED BY <1>1, <1>4, <2>0, <2>1, <3>1, <3>2 DEF RouteKept
  <2> QED BY <2>2, <2>3
<1> QED BY <1>3, <1>5, <1>6 DEF Inv

LEMMA NextKeeps == Inv /\ [Next]_vars => Inv'
<1> SUFFICES ASSUME Inv, [Next]_vars PROVE Inv'
  OBVIOUS
<1>1. ASSUME NEW j \in Jobs, NEW r \in Routes, Begin(j, r) PROVE Inv'
  BY <1>1, BeginKeeps
<1>2. ASSUME NEW j \in Jobs, Finish(j) PROVE Inv'
  BY <1>2, OpenKeeps, CheckRouteKeeps, JournalKeeps, AttachKeeps,
     AppendKeeps, CompleteKeeps, StopKeeps DEF Finish
<1>3. ASSUME NEW j \in Jobs, Stop(j) \/ Tear(j) \/ Disturb(j) PROVE Inv'
  BY <1>3, StopKeeps, TearKeeps, DisturbKeeps
<1>4. ASSUME NEW e \in Foreign, NEW r \in Routes, NEW v \in Verdicts,
             ForeignAttach(e, r, v) PROVE Inv'
  BY <1>4, ForeignKeeps
<1>5. CASE UNCHANGED vars
  <2>1. \A k \in Jobs : RecordsOf(k)' = RecordsOf(k)
    BY <1>5 DEF vars, RecordsOf
  <2> QED BY <1>5, <2>1 DEF vars, Inv, TypeOK, JobKept, Started, Says,
                            RouteKept, On, Holds, Checked
<1> QED BY <1>1, <1>2, <1>3, <1>4, <1>5 DEF Next

-----------------------------------------------------------------------------
(* The invariant holds however often finish dies and is run again.         *)
THEOREM LiveInvariance == Spec => []Inv
BY InitKeeps, NextKeeps, PTL DEF Spec

(* Job files, events and evidence keep their types. *)
THEOREM LiveTypeCorrect == Spec => []TypeOK
BY LiveInvariance, PTL DEF Inv

(* A route contributes at most one label, unless two finishes overlapped. *)
THEOREM LabelledOnce == Spec => []OneLabelPerRoute
<1>1. Inv => OneLabelPerRoute
  <2> SUFFICES ASSUME Inv, NEW r \in Routes \ overlapped
               PROVE  Cardinality(RecordsOfRoute(r)) <= 1
    BY DEF OneLabelPerRoute
  <2>1. ASSUME NEW i \in RecordsOfRoute(r)
        PROVE  /\ evidence[i].job \in Jobs
               /\ i \in RecordsOf(evidence[i].job)
               /\ On(evidence[i].job, r)
    <3>1. evidence[i] \in Line /\ i \in DOMAIN evidence /\ evidence[i].route = r
      BY DEF RecordsOfRoute, Inv, TypeOK
    <3>2. evidence[i].job \in Jobs /\ i \in RecordsOf(evidence[i].job)
      BY <3>1 DEF Line, RecordsOf
    <3>3. Started(evidence[i].job)
      BY <3>2 DEF Inv, JobKept
    <3>4. /\ events[evidence[i].job] # None
          /\ events[evidence[i].job].route = file[evidence[i].job].route
          /\ evidence[i].route = file[evidence[i].job].route
      BY <3>2, <3>3 DEF Started, Says
    <3> QED BY <3>1, <3>2, <3>4 DEF On
  <2>2. \A i, k \in RecordsOfRoute(r) : i = k
    <3> SUFFICES ASSUME NEW i \in RecordsOfRoute(r), NEW k \in RecordsOfRoute(r)
                 PROVE  i = k
      OBVIOUS
    <3>1. evidence[i].job = evidence[k].job
      BY <2>1 DEF Inv, RouteKept
    <3> QED BY <2>1, <3>1 DEF Inv, JobKept, Started
  <2>3. CASE RecordsOfRoute(r) = {}
    BY <2>3, FS_EmptySet
  <2>4. CASE RecordsOfRoute(r) # {}
    <3>1. PICK i \in RecordsOfRoute(r) : RecordsOfRoute(r) = {i}
      BY <2>2, <2>4
    <3> QED BY <3>1, FS_Singleton
  <2> QED BY <2>3, <2>4
<1> QED BY <1>1, LiveInvariance, PTL

(* A complete job's label is one the readiness report counts, unless a      *)
(* second verifier wrote over the route's columns or the evidence file has  *)
(* a line nobody can read.                                                  *)
THEOREM CompleteCounts == Spec => []CompletedLabelCounts
<1>1. Inv => CompletedLabelCounts
  <2> SUFFICES ASSUME Inv, NEW j \in Jobs,
                      Readable,
                      file[j] # None,
                      file[j].status = "complete",
                      file[j].route \notin overlapped,
                      \A e \in Foreign : events[e] = None \/ events[e].route # file[j].route
               PROVE  \E i \in LinesOf(j) : ValidContext(i)
    BY DEF CompletedLabelCounts
  <2>1. Started(j) /\ file[j] \in JobFile
    BY DEF Inv, JobKept, TypeOK
  <2>2. PICK i \in LinesOf(j) : TRUE
    BY <2>1, ReadableRecords DEF Started
  <2>3. /\ evidence[i].job = j /\ Says(i, j)
        /\ \A k \in LinesOf(j) : k = i
        /\ events[j] = [route |-> file[j].route, verdict |-> file[j].pending]
        /\ events[j] # None
    BY <2>1, <2>2 DEF Started, LinesOf, RecordsOf
  <2>4. file[j].route \in Routes
    BY <2>1 DEF JobFile
  <2>5. On(j, file[j].route) /\ \A e \in Foreign : ~On(e, file[j].route)
    BY <2>3 DEF On
  <2>6. verified[file[j].route] = file[j].pending
    BY <2>3, <2>4, <2>5 DEF Inv, RouteKept
  <2>7. i \in Int
    BY DEF LinesOf, RecordsOf, Inv, TypeOK
  <2>8. i <= i
    BY <2>7
  <2> QED BY <2>2, <2>3, <2>6, <2>8 DEF ValidContext, Says
<1> QED BY <1>1, LiveInvariance, PTL

-----------------------------------------------------------------------------
(* The refinement: a verdict is decided by the first write to the ledger    *)
(* and published by the record of evidence, whole or cut.                   *)
decided == [j \in Jobs |-> IF events[j] = None THEN None ELSE events[j].verdict]
published == [j \in Jobs |-> {evidence[i].verdict : i \in RecordsOf(j)}]

(* Each job decides one verdict and writes that one. *)
THEOREM OnceRefinement == Spec => ImplementsLabelOnce
<1>1. Init => Once!Init
  BY DEF Init, Once!Init, RecordsOf
<1>2. ASSUME Inv, Inv', [Next]_vars
      PROVE  [Once!Next]_<<decided, published>>
  <2> USE LiveAssumption
  <2>1. ASSUME UNCHANGED <<events, evidence>>
        PROVE  UNCHANGED <<decided, published>>
    BY <2>1 DEF decided, published, RecordsOf
  <2>2. ASSUME NEW j \in Jobs, Attach(j)
        PROVE  [Once!Next]_<<decided, published>>
    <3>1. /\ file[j] \in JobFile /\ Started(j) /\ finisher[j] = "journaled"
          /\ UNCHANGED evidence
      BY <1>2, <2>2 DEF Inv, JobKept, TypeOK, Attach
    <3>2. CASE UNCHANGED events
      BY <2>1, <3>1, <3>2
    <3>3. CASE events[j] = None /\ events' = [events EXCEPT ![j] =
                     [route |-> file[j].route, verdict |-> file[j].pending]]
      <4>1. file[j].pending \in Verdicts
        BY <3>1 DEF Started
      <4>2. [route |-> file[j].route, verdict |-> file[j].pending] # None
        BY <3>1, <4>1 DEF Event, JobFile
      <4>3. decided[j] = None /\ decided' = [decided EXCEPT ![j] = file[j].pending]
        BY <1>2, <3>3, <4>2 DEF decided, Inv, TypeOK
      <4>4. UNCHANGED published
        BY <3>1 DEF published, RecordsOf
      <4> QED BY <4>1, <4>3, <4>4 DEF Once!Next, Once!Decide, decided, published
    <3> QED BY <2>2, <3>2, <3>3 DEF Attach, AttachVerification
  <2>3. ASSUME NEW j \in Jobs, NEW text \in Texts,
               finisher[j] = "attached", UNCHANGED <<events, file>>,
               evidence' = Written(j, text)
        PROVE  [Once!Next]_<<decided, published>>
    <3>1. /\ file[j] \in JobFile /\ Started(j) /\ RecordsOf(j) = {}
          /\ events[j] # None /\ events[j].verdict = file[j].pending
          /\ file[j].pending \in Verdicts /\ file[j].route \in Routes
      BY <1>2, <2>3 DEF Inv, JobKept, TypeOK, Started, JobFile
    <3>2. TypeOK
      BY <1>2 DEF Inv
    <3>3. PICK n \in Nat :
             /\ DOMAIN evidence' = DOMAIN evidence \cup {n}
             /\ \A i \in DOMAIN evidence : Same(i)
             /\ evidence'[n].job = j
             /\ evidence'[n].verdict = file[j].pending
      <4>1. Len(evidence) + 1 \in Nat
        BY <3>2 DEF TypeOK
      <4>2. /\ DOMAIN evidence' = DOMAIN evidence \cup {Len(evidence) + 1}
            /\ evidence'[Len(evidence) + 1].job = j
            /\ evidence'[Len(evidence) + 1].verdict = file[j].pending
        BY <2>3, <3>1, <3>2, WrittenIs
      <4>3. \A i \in DOMAIN evidence : Same(i)
        BY <2>3, <3>1, <3>2, WrittenIs DEF Same
      <4> QED BY <4>1, <4>2, <4>3
    <3>4. \A k \in Jobs : k # j => published'[k] = published[k]
      BY <3>3 DEF published, RecordsOf, Same
    <3>5. RecordsOf(j)' = {n}
      BY <3>1, <3>3 DEF RecordsOf, Same
    <3>6. published[j] = {} /\ published'[j] = {file[j].pending}
      BY <3>1, <3>3, <3>5 DEF published
    <3>7. decided[j] = file[j].pending /\ decided[j] # None
      BY <3>1 DEF decided
    <3>8. published' = [published EXCEPT ![j] = {decided[j]}]
      BY <3>4, <3>6, <3>7 DEF published
    <3>9. UNCHANGED decided
      BY <2>3 DEF decided
    <3> QED BY <3>6, <3>7, <3>8, <3>9 DEF Once!Next, Once!Publish, decided, published
  <2>6. ASSUME NEW j \in Jobs, AppendEvidence(j) \/ Tear(j)
        PROVE  [Once!Next]_<<decided, published>>
    BY <2>1, <2>3, <2>6 DEF AppendEvidence, Tear, Texts
  <2>4. ASSUME NEW e \in Foreign, NEW r \in Routes, NEW v \in Verdicts,
               ForeignAttach(e, r, v)
        PROVE  UNCHANGED <<decided, published>>
    <3>1. /\ UNCHANGED evidence
          /\ \A j \in Jobs : events'[j] = events[j]
      BY <1>2, <2>4 DEF ForeignAttach, AttachVerification, Inv, TypeOK
    <3> QED BY <3>1 DEF decided, published, RecordsOf
  <2>5. ASSUME NEW j \in Jobs, Finish(j)
        PROVE  [Once!Next]_<<decided, published>>
    BY <2>1, <2>2, <2>5, <2>6 DEF Finish, Open, CheckRoute, Refuse, Journal, Complete
  <2> QED BY <1>2, <2>1, <2>4, <2>5, <2>6 DEF Next, vars, Begin, Stop, Disturb
<1>3. Inv /\ [Next]_vars /\ Inv' => [Once!Next]_<<decided, published>>
  BY <1>2
<1> QED BY <1>1, <1>3, LiveInvariance, PTL DEF Spec, ImplementsLabelOnce, Once!Spec, decided, published
==============================================================================
