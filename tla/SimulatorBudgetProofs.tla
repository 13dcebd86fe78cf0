------------------------ MODULE SimulatorBudgetProofs ------------------------
(***************************************************************************)
(* Theorems of SimulatorBudget, for any number of runners and runs, any    *)
(* cap, costs, turn limits and plans.                                      *)
(***************************************************************************)
EXTENDS SimulatorBudget, SumTheorems

-----------------------------------------------------------------------------
(* The inductive invariant.  A run is committed to what it has cost and to *)
(* what it will pay before it reads the ledger again; the commitments of   *)
(* all runners, with the ledger, are what a passed guard admits.           *)

Phrased(n) == n * MaxDriverCost

Share == Cap - 1 + 2 * MaxCost + MaxEpisodeTurns * MaxDriverCost

Ahead(pc) ==
    CASE pc = "single"  -> MaxCost
      [] pc = "clarify" -> 2 * (MaxCost + MaxDriverCost)
      [] pc = "step"    -> MaxCost + MaxDriverCost
      [] OTHER          -> 0

Committed(x) == x.total + x.driver + Ahead(x.pc)

RunKept(x) ==
    /\ x.pc # "between" => x.left > 0
    /\ x.pc \in {"between", "single"} => x.spawned = 0
    /\ x.pc \in {"clarify", "step"} => x.plan # << >>
    /\ x.spawned <= MaxEpisodeTurns + 1
    /\ x.clarified <= MaxClarifyTurns
    /\ x.pc = "clarify" => /\ x.spawned \in 1..MaxEpisodeTurns - 1
                           /\ x.clarified < MaxClarifyTurns
    /\ x.pc = "step" => x.spawned <= MaxEpisodeTurns
    /\ x.spawned = 0 => /\ x.total = 0 /\ x.driver = 0 /\ ~x.asked
                        /\ x.pc \in {"guard", "step"} => Head(x.plan) = "scenario"
    /\ x.spawned > 0 => x.driver <= Phrased(x.spawned - 1)
    /\ Committed(x) <= Share

Commitments == [r \in Runners |-> Committed(run[r])]

BudgetInv ==
    /\ TypeOK
    /\ \A r \in Runners : RunKept(run[r])
    /\ ledger.spent + SumFunction(Commitments) <= Cardinality(Runners) * Share

-----------------------------------------------------------------------------
(* Numbers.                                                                *)

(* What the assumption on the constants says, fact by fact.                *)
LEMMA Bounds ==
    /\ Cap \in Nat \ {0} /\ MaxEpisodeTurns \in Nat \ {0} /\ MaxRuns \in Nat \ {0}
    /\ MaxCost \in Nat /\ MaxDriverCost \in Nat /\ MaxClarifyTurns \in Nat
    /\ IsFiniteSet(Runners)
  BY SimulatorBounds

(* The driver pays the same for every turn it phrases.                     *)
LEMMA PhrasedGrows ==
    /\ \A n \in Nat : Phrased(n) \in Nat /\ Phrased(n + 1) = Phrased(n) + MaxDriverCost
    /\ Phrased(0) = 0
    /\ \A m, n \in Nat : m <= n => Phrased(m) <= Phrased(n)
<1>1. MaxDriverCost \in Nat
  BY Bounds
<1>2. ASSUME NEW n \in Nat
      PROVE  Phrased(n) \in Nat /\ Phrased(n + 1) = Phrased(n) + MaxDriverCost
  BY <1>1 DEF Phrased
<1>3. Phrased(0) = 0
  BY <1>1 DEF Phrased
<1>4. ASSUME NEW m \in Nat, NEW n \in Nat, m <= n PROVE Phrased(m) <= Phrased(n)
  BY <1>1, <1>4 DEF Phrased
<1>5. QED
  BY <1>2, <1>3, <1>4

(* What one runner can put on top of the cap, added up.                    *)
LEMMA ShareType ==
    /\ Share \in Nat
    /\ Share = Cap - 1 + 2 * MaxCost + Phrased(MaxEpisodeTurns)
  BY Bounds, PhrasedGrows DEF Share, Phrased

(* What a runner may still add to the ledger is at least what it has spent.*)
LEMMA CommittedType ==
    ASSUME NEW x \in RunState
    PROVE  Committed(x) \in Nat /\ x.total + x.driver \in Nat
                /\ x.total + x.driver <= Committed(x)
<1>1. Ahead(x.pc) \in Nat
  BY Bounds DEF Ahead
<1>2. x.total \in Nat /\ x.driver \in Nat
  BY DEF RunState
<1>3. QED
  BY <1>1, <1>2 DEF Committed

(* A runner changes its own run only.  It may raise its commitment to what *)
(* the ledger leaves of its share, or pay out of it.                       *)
LEMMA RunnerSteps ==
    ASSUME BudgetInv, NEW r \in Runners, NEW y \in RunState, RunKept(y),
           run' = [run EXCEPT ![r] = y],
           ledger' \in [spent : Nat, torn : BOOLEAN],
           \/ ledger'.spent + Committed(y) <= ledger.spent + Committed(run[r])
           \/ ledger'.spent + Committed(y) <= Share
    PROVE  BudgetInv'
<1> DEFINE c == Commitments
           d == [q \in Runners |-> Committed(run'[q])]
           N == Cardinality(Runners)
<1>0. /\ IsFiniteSet(Runners) /\ N \in Nat
      /\ Share \in Int
      /\ ledger.spent \in Nat /\ ledger'.spent \in Nat
      /\ run \in [Runners -> RunState]
      /\ ledger.spent + SumFunction(c) <= N * Share
  BY Bounds, FS_CardinalityType, ShareType DEF BudgetInv, TypeOK
<1>1. /\ run' \in [Runners -> RunState]
      /\ run'[r] = y
      /\ \A q \in Runners \ {r} : run'[q] = run[q]
  BY <1>0
<1>2. \A q \in Runners : RunKept(run'[q])
  BY <1>1 DEF BudgetInv
<1>3. /\ DOMAIN c = Runners /\ DOMAIN d = Runners
      /\ \A q \in Runners : c[q] = Committed(run[q]) /\ d[q] = Committed(run'[q])
  BY DEF Commitments
<1>4. \A q \in Runners : c[q] \in Int /\ d[q] \in Int
  BY <1>0, <1>1, <1>3, CommittedType
<1>5. /\ \A q \in Runners \ {r} : d[q] = c[q]
      /\ c[r] = Committed(run[r]) /\ d[r] = Committed(y)
  BY <1>1, <1>3
<1>6. \A q \in Runners : d[q] <= Share
  BY <1>2, <1>3 DEF RunKept
<1>7. Commitments' = d
  BY DEF Commitments
<1>8. SumFunction(c) = SumFunctionOnSet(c, Runners)
      /\ SumFunction(d) = SumFunctionOnSet(d, Runners)
  BY <1>3 DEF SumFunction
<1> HIDE DEF c, d, N
<1>9. ledger'.spent + SumFunctionOnSet(d, Runners) <= N * Share
  <2>1. SumFunctionOnSet(c, Runners) \in Int /\ SumFunctionOnSet(d, Runners) \in Int
    BY <1>0, <1>4, SumTakesOut
  <2>2. CASE ledger'.spent + Committed(y) <= ledger.spent + Committed(run[r])
    <3>1. SumFunctionOnSet(d, Runners) = SumFunctionOnSet(c, Runners) - c[r] + d[r]
      <4>1. \A q \in Runners \ {r} : d[q] = c[q]
        BY <1>5
      <4>2. IsFiniteSet(Runners)
        BY <1>0
      <4>3. QED
        BY <1>4, <4>1, <4>2, SumUpdate
    <3>2. N * Share \in Int
      BY <1>0
    <3>3. c[r] \in Int /\ d[r] \in Int
      BY <1>4
    <3>4. ledger'.spent + d[r] <= ledger.spent + c[r]
      BY <1>5, <2>2
    <3>5. ledger.spent + SumFunctionOnSet(c, Runners) <= N * Share
      BY <1>0, <1>8
    <3>6. QED
      BY <1>0, <2>1, <3>1, <3>2, <3>3, <3>4, <3>5
  <2>3. CASE ledger'.spent + Committed(y) <= Share
    <3>1. SumFunctionOnSet(d, Runners) = d[r] + SumFunctionOnSet(d, Runners \ {r})
      BY <1>0, <1>4, SumTakesOut
    <3>2. IsFiniteSet(Runners \ {r}) /\ Cardinality(Runners \ {r}) = N - 1
      BY <1>0, FS_RemoveElement DEF N
    <3>3. /\ SumFunctionOnSet(d, Runners \ {r}) \in Int
          /\ SumFunctionOnSet(d, Runners \ {r}) <= (N - 1) * Share
      <4>1. \A q \in Runners \ {r} : d[q] \in Int /\ d[q] <= Share
        BY <1>4, <1>6
      <4>2. QED
        BY <1>0, <3>2, <4>1, SumTakesOut, SumBounded
    <3>4. N * Share = Share + (N - 1) * Share /\ (N - 1) * Share \in Int
      <4>1. N \in Int
        BY <1>0
      <4>2. QED
        BY <1>0, <4>1, OneMore
    <3>5. d[r] \in Int /\ ledger'.spent + d[r] <= Share
      BY <1>4, <1>5, <2>3
    <3>6. QED
      BY <1>0, <3>1, <3>3, <3>4, <3>5
  <2>4. QED
    BY <2>2, <2>3
<1>10. TypeOK'
  BY <1>1 DEF TypeOK
<1>11. QED
  BY <1>2, <1>7, <1>8, <1>9, <1>10 DEF BudgetInv, N

-----------------------------------------------------------------------------
(* The steps of a run.                                                     *)

(* At the start nobody has spent or committed anything.                    *)
LEMMA InitBudget == Init => BudgetInv
<1> SUFFICES ASSUME Init PROVE BudgetInv
  OBVIOUS
<1> DEFINE y == Between(MaxRuns)
<1>1. y \in RunState /\ RunKept(y) /\ Committed(y) = 0
  BY Bounds, ShareType DEF Between, RunState, RunKept, Committed, Ahead
<1>2. TypeOK /\ \A r \in Runners : run[r] = y
  BY <1>1 DEF Init, TypeOK
<1>3. /\ DOMAIN Commitments = Runners
      /\ \A r \in Runners : Commitments[r] = 0
  BY <1>1, <1>2 DEF Commitments
<1>4. /\ SumFunction(Commitments) \in Int
      /\ SumFunction(Commitments) <= Cardinality(Runners) * 0
  <2> HIDE DEF Commitments
  <2>1. \A r \in Runners : Commitments[r] \in Int /\ Commitments[r] <= 0
    BY <1>3
  <2>2. 0 \in Int
    OBVIOUS
  <2>3. QED
    BY <1>3, <2>1, <2>2, Bounds, SumTakesOut, SumBounded DEF SumFunction
<1>5. Cardinality(Runners) \in Nat
  BY Bounds, FS_CardinalityType
<1>6. 0 <= Cardinality(Runners) * Share /\ Cardinality(Runners) * Share \in Int
  BY <1>5, ShareType
<1>7. ledger.spent + SumFunction(Commitments) <= Cardinality(Runners) * Share
  BY <1>4, <1>5, <1>6 DEF Init
<1>8. QED
  BY <1>1, <1>2, <1>7 DEF BudgetInv

(* One lemma per step of a runner: the ledger and what runners are         *)
(* committed to stay within the bound.                                     *)
LEMMA StartSingleKeeps ==
    ASSUME BudgetInv, NEW r \in Runners, StartSingle(r)
    PROVE  BudgetInv'
<1> DEFINE x == run[r]
           y == [x EXCEPT !.pc = "single"]
<1>1. x \in RunState /\ RunKept(x) /\ x.pc = "between" /\ x.left > 0
      /\ ledger \in [spent : Nat, torn : BOOLEAN]
  BY DEF BudgetInv, TypeOK, StartSingle
<1>2. y \in RunState
  BY <1>1 DEF RunState
<1>3. /\ y.pc = "single" /\ y.left = x.left /\ y.plan = x.plan
      /\ y.spawned = x.spawned /\ y.clarified = x.clarified /\ y.asked = x.asked
      /\ y.total = x.total /\ y.driver = x.driver
  BY <1>1 DEF RunState
<1>4. x.spawned = 0 /\ x.total = 0 /\ x.driver = 0
  BY <1>1 DEF RunKept
<1>5. Committed(y) = MaxCost
  BY <1>3, <1>4, Bounds DEF Committed, Ahead
<1>6. ledger.spent \in Nat /\ ledger.spent < Cap
  BY <1>1 DEF StartSingle, UnderCap
<1>7. ledger.spent + Committed(y) <= Share /\ Committed(y) <= Share
  BY <1>5, <1>6, Bounds, ShareType, PhrasedGrows
<1> HIDE DEF y
<1>8. RunKept(y)
  BY <1>1, <1>3, <1>4, <1>7 DEF RunKept
<1>9. run' = [run EXCEPT ![r] = y] /\ ledger' = ledger
  BY DEF StartSingle, y
<1>10. QED
  BY <1>1, <1>2, <1>7, <1>8, <1>9, RunnerSteps

(* Every plan of an episode opens with its scenario.                       *)
LEMMA PlansBegin ==
    ASSUME NEW s \in Plans
    PROVE  s \in Seq(Steps) /\ s # << >> /\ Head(s) = "scenario"
<1>1. PICK n \in Lengths : s \in [1..n -> Steps]
  BY DEF Plans
<1>2. n \in Nat \ {0}
  BY SimulatorBounds
<1>3. s[1] = "scenario"
  BY DEF Plans, IsPlan
<1>4. QED
  BY <1>1, <1>2, <1>3

(* The fields a run keeps when some are set.                               *)
LEMMA StartEpisodeKeeps ==
    ASSUME BudgetInv, NEW r \in Runners, StartEpisode(r)
    PROVE  BudgetInv'
<1> DEFINE x == run[r]
<1>1. x \in RunState /\ RunKept(x) /\ x.pc = "between" /\ x.left > 0
      /\ ledger \in [spent : Nat, torn : BOOLEAN]
  BY DEF BudgetInv, TypeOK, StartEpisode
<1>2. PICK steps \in Plans :
        run' = [run EXCEPT ![r].pc = "guard", ![r].plan = steps]
  BY DEF StartEpisode
<1> DEFINE y == [x EXCEPT !.pc = "guard", !.plan = steps]
<1>3. steps \in Seq(Steps) /\ steps # << >> /\ Head(steps) = "scenario"
  BY PlansBegin
<1>4. y \in RunState
  BY <1>1, <1>3 DEF RunState
<1>5. /\ y.pc = "guard" /\ y.left = x.left /\ y.plan = steps
      /\ y.spawned = x.spawned /\ y.clarified = x.clarified /\ y.asked = x.asked
      /\ y.total = x.total /\ y.driver = x.driver
  BY <1>1 DEF RunState
<1>6. x.spawned = 0 /\ x.total = 0 /\ x.driver = 0
  BY <1>1 DEF RunKept
<1>7. Committed(y) = 0 /\ Committed(x) \in Nat
  BY <1>1, <1>5, <1>6, CommittedType DEF Committed, Ahead
<1>8. run' = [run EXCEPT ![r] = y] /\ ledger' = ledger
  BY <1>2 DEF StartEpisode
<1> HIDE DEF y
<1>9. RunKept(y)
  BY <1>1, <1>3, <1>5, <1>6, <1>7, ShareType DEF RunKept
<1>10. ledger'.spent + Committed(y) <= ledger.spent + Committed(x)
  BY <1>1, <1>7, <1>8
<1>11. QED
  BY <1>1, <1>4, <1>8, <1>9, <1>10, RunnerSteps

(* A turn adds at most MaxCost and one spawn.                              *)
LEMMA RecordedType ==
    ASSUME NEW x \in RunState, NEW res \in Results
    PROVE  LET y == Recorded(x, res)
           IN  /\ y \in RunState
               /\ y.total \in Nat /\ y.total <= x.total + MaxCost
               /\ y.spawned = x.spawned + 1
               /\ y.pc = x.pc /\ y.left = x.left /\ y.plan = x.plan
               /\ y.clarified = x.clarified /\ y.driver = x.driver
<1>1. res.cost \in 0..MaxCost
  <2>1. CASE res \in [status : {"ok", "exit"}, cost : 0..MaxCost,
                      answer : {"", "statement", "question"}]
    BY <2>1
  <2>2. CASE res = [status |-> "lost", cost |-> 0, answer |-> ""]
    <3>1. res.cost = 0
      BY <2>2
    <3>2. QED
      BY <3>1, Bounds
  <2>3. QED
    BY <2>1, <2>2 DEF Results
<1>2. x.total \in Nat /\ x.spawned \in Nat /\ x.asked \in BOOLEAN
  BY DEF RunState
<1>3. x.total + res.cost \in Nat /\ x.total + res.cost <= x.total + MaxCost
  BY <1>1, <1>2, Bounds
<1> DEFINE asked == IF res.answer = "" THEN x.asked ELSE res.answer = "question"
<1>4. asked \in BOOLEAN
  BY <1>2
<1>5. Recorded(x, res) = [x EXCEPT !.total = x.total + res.cost,
                                   !.spawned = x.spawned + 1, !.asked = asked]
  BY DEF Recorded
<1> HIDE DEF asked
<1> DEFINE total == x.total + res.cost
           y == [x EXCEPT !.total = total, !.spawned = x.spawned + 1, !.asked = asked]
<1>6. total \in Nat /\ total <= x.total + MaxCost
  BY <1>3
<1>7. Recorded(x, res) = y
  BY <1>5
<1> HIDE DEF total
<1>8. y \in RunState
  <2> DEFINE spawned == x.spawned + 1
  <2>1. total \in Nat /\ spawned \in Nat /\ asked \in BOOLEAN
    BY <1>2, <1>4, <1>6
  <2>2. y = [x EXCEPT !.total = total, !.spawned = spawned, !.asked = asked]
    OBVIOUS
  <2> HIDE DEF spawned, y
  <2>3. QED
    BY <2>1, <2>2 DEF RunState
<1>9. /\ y.total = total /\ y.spawned = x.spawned + 1
      /\ y.pc = x.pc /\ y.left = x.left /\ y.plan = x.plan
      /\ y.clarified = x.clarified /\ y.driver = x.driver
  BY DEF RunState
<1> HIDE DEF y
<1>10. QED
  BY <1>6, <1>7, <1>8, <1>9

LEMMA SingleShotKeeps ==
    ASSUME BudgetInv, NEW r \in Runners, SingleShot(r)
    PROVE  BudgetInv'
<1> DEFINE x == run[r]
<1>1. x \in RunState /\ RunKept(x) /\ x.pc = "single"
      /\ ledger \in [spent : Nat, torn : BOOLEAN]
  BY DEF BudgetInv, TypeOK, SingleShot
<1>2. PICK res \in Results :
        run' = [run EXCEPT ![r] = [Recorded(x, res) EXCEPT !.pc = "log"]]
  BY DEF SingleShot
<1> DEFINE z == Recorded(x, res)
           y == [z EXCEPT !.pc = "log"]
<1>3. /\ z \in RunState /\ z.total \in Nat /\ z.total <= x.total + MaxCost
      /\ z.spawned = x.spawned + 1 /\ z.left = x.left
      /\ z.clarified = x.clarified /\ z.driver = x.driver
  BY <1>1, RecordedType
<1> HIDE DEF z
<1>4. /\ y \in RunState /\ y.pc = "log" /\ y.total = z.total /\ y.driver = z.driver
      /\ y.spawned = z.spawned /\ y.left = z.left /\ y.clarified = z.clarified
  BY <1>3 DEF RunState
<1>5. run' = [run EXCEPT ![r] = y] /\ ledger' = ledger
  BY <1>2 DEF SingleShot, z
<1> HIDE DEF y
<1>6. x.spawned = 0 /\ x.total = 0 /\ x.driver = 0 /\ x.left > 0
      /\ x.clarified <= MaxClarifyTurns /\ Committed(x) <= Share
  BY <1>1 DEF RunKept
<1>7. /\ Committed(x) = MaxCost
      /\ Committed(y) <= MaxCost
      /\ Committed(y) \in Nat
  BY <1>1, <1>3, <1>4, <1>6, Bounds DEF Committed, Ahead
<1>8. RunKept(y)
  <2>1. y.spawned = 1 /\ y.driver = 0 /\ y.spawned - 1 = 0
    BY <1>3, <1>4, <1>6
  <2>2. y.driver <= Phrased(y.spawned - 1)
    BY <2>1, PhrasedGrows
  <2>3. Committed(y) <= Share /\ y.clarified <= MaxClarifyTurns /\ y.left > 0
    BY <1>3, <1>4, <1>6, <1>7, Bounds, ShareType
  <2>4. QED
    BY <1>4, <2>1, <2>2, <2>3, Bounds DEF RunKept
<1>9. ledger'.spent + Committed(y) <= ledger.spent + Committed(x)
  BY <1>1, <1>5, <1>7, Bounds
<1>10. QED
  BY <1>1, <1>4, <1>5, <1>8, <1>9, RunnerSteps

LEMMA GuardKeeps ==
    ASSUME BudgetInv, NEW r \in Runners, Guard(r)
    PROVE  BudgetInv'
<1> DEFINE x == run[r]
           next == IF ~MayStep(x) \/ ~WithinBudget(x) THEN "log"
                   ELSE IF Clarifies(x) THEN "clarify" ELSE "step"
           y == [x EXCEPT !.pc = next]
<1>1. x \in RunState /\ RunKept(x) /\ x.pc = "guard"
      /\ ledger \in [spent : Nat, torn : BOOLEAN]
  BY DEF BudgetInv, TypeOK, Guard
<1>2. run' = [run EXCEPT ![r] = y] /\ ledger' = ledger
  BY DEF Guard
<1>3. next \in {"log", "clarify", "step"}
  OBVIOUS
<1>4. /\ next \in {"clarify", "step"} =>
            x.plan # << >> /\ x.spawned < MaxEpisodeTurns /\ ledger.spent + x.total < Cap
      /\ next = "clarify" => x.clarified < MaxClarifyTurns /\ x.asked
  BY DEF MayStep, WithinBudget, Clarifies
<1> HIDE DEF next
<1>5. /\ y \in RunState /\ y.pc = next /\ y.left = x.left /\ y.plan = x.plan
      /\ y.spawned = x.spawned /\ y.clarified = x.clarified /\ y.asked = x.asked
      /\ y.total = x.total /\ y.driver = x.driver
  BY <1>1, <1>3 DEF RunState
<1> HIDE DEF y
<1>6. /\ x.total \in Nat /\ x.driver \in Nat /\ x.spawned \in Nat /\ x.clarified \in Nat
      /\ ledger.spent \in Nat
  BY <1>1 DEF RunState
<1>7. CASE next = "log"
  <2>1. Committed(y) = Committed(x) /\ Committed(x) \in Nat
    BY <1>1, <1>5, <1>7, CommittedType DEF Committed, Ahead
  <2>2. RunKept(y)
    BY <1>1, <1>5, <1>7, <2>1 DEF RunKept
  <2>3. ledger'.spent + Committed(y) <= ledger.spent + Committed(x)
    BY <1>2, <1>6, <2>1
  <2>4. QED
    BY <1>1, <1>2, <1>5, <2>2, <2>3, RunnerSteps
<1>8. CASE next \in {"clarify", "step"}
  <2>1. x.spawned = 0 => next = "step" /\ x.driver = 0 /\ Head(x.plan) = "scenario"
    BY <1>1, <1>4, <1>8 DEF RunKept
  <2>2. x.spawned < MaxEpisodeTurns /\ ledger.spent + x.total < Cap
    BY <1>4, <1>8
  <2>3. x.driver + Ahead(next) <= 2 * MaxCost + Phrased(MaxEpisodeTurns)
        /\ Ahead(next) \in Nat
    <3>1. CASE x.spawned = 0
      <4>1. Phrased(1) = MaxDriverCost /\ Phrased(1) <= Phrased(MaxEpisodeTurns)
            /\ Phrased(MaxEpisodeTurns) \in Nat
        BY Bounds, PhrasedGrows DEF Phrased
      <4>2. Ahead(next) = MaxCost + MaxDriverCost
        BY <2>1, <3>1 DEF Ahead
      <4>3. QED
        BY <2>1, <3>1, <4>1, <4>2, Bounds
    <3>2. CASE x.spawned > 0
      <4> DEFINE n == x.spawned - 1
      <4>1. n \in Nat /\ n + 2 <= MaxEpisodeTurns /\ x.driver <= Phrased(n)
        BY <1>1, <1>6, <2>2, <3>2, Bounds DEF RunKept
      <4> HIDE DEF n
      <4>2. /\ Phrased(n + 2) = Phrased(n) + 2 * MaxDriverCost
            /\ Phrased(n) \in Nat
        BY <4>1, Bounds, PhrasedGrows DEF Phrased
      <4>3. Phrased(n + 2) <= Phrased(MaxEpisodeTurns) /\ Phrased(MaxEpisodeTurns) \in Nat
        <5>1. n + 2 \in Nat /\ MaxEpisodeTurns \in Nat /\ n + 2 <= MaxEpisodeTurns
          BY <4>1, Bounds
        <5>2. QED
          BY <5>1, PhrasedGrows
      <4>4. Ahead(next) \in Nat /\ Ahead(next) <= 2 * (MaxCost + MaxDriverCost)
        BY <1>8, Bounds DEF Ahead
      <4>5. QED
        BY <1>6, <4>1, <4>2, <4>3, <4>4, Bounds
    <3>3. QED
      BY <1>6, <3>1, <3>2
  <2>4. Committed(y) = x.total + x.driver + Ahead(next)
    BY <1>5 DEF Committed
  <2>5. ledger.spent + Committed(y) <= Share /\ Committed(y) <= Share
    <3>1. Phrased(MaxEpisodeTurns) \in Nat
      BY Bounds, PhrasedGrows
    <3>2. ledger.spent + x.total <= Cap - 1
      BY <1>6, <2>2, Bounds
    <3>3. QED
      BY <1>6, <2>3, <2>4, <3>1, <3>2, Bounds, ShareType
  <2>6. RunKept(y)
    BY <1>1, <1>4, <1>5, <1>6, <1>8, <2>1, <2>2, <2>5, Bounds DEF RunKept
  <2>7. QED
    BY <1>1, <1>2, <1>5, <2>5, <2>6, RunnerSteps
<1>9. QED
  BY <1>3, <1>7, <1>8

LEMMA ClarifyKeeps ==
    ASSUME BudgetInv, NEW r \in Runners, Clarify(r)
    PROVE  BudgetInv'
<1> DEFINE x == run[r]
<1>1. x \in RunState /\ RunKept(x) /\ x.pc = "clarify"
      /\ ledger \in [spent : Nat, torn : BOOLEAN]
  BY DEF BudgetInv, TypeOK, Clarify
<1>2. PICK res \in Results, cost \in DriverCosts :
        run' = [run EXCEPT ![r] = Clarified(x, res, cost)]
  BY DEF Clarify
<1> DEFINE z == Recorded(x, res)
           next == IF res.status = "ok" THEN "step" ELSE "log"
           driver == z.driver + cost
           clarified == z.clarified + 1
           y == [z EXCEPT !.driver = driver, !.clarified = clarified, !.pc = next]
<1>3. /\ z \in RunState /\ z.total \in Nat /\ z.total <= x.total + MaxCost
      /\ z.spawned = x.spawned + 1 /\ z.left = x.left /\ z.plan = x.plan
      /\ z.clarified = x.clarified /\ z.driver = x.driver
  BY <1>1, RecordedType
<1>4. run' = [run EXCEPT ![r] = y] /\ ledger' = ledger
  BY <1>2 DEF Clarify, Clarified
<1>5. next \in {"log", "step"} /\ cost \in 0..MaxDriverCost
  BY DEF DriverCosts
<1>6. /\ x.total \in Nat /\ x.driver \in Nat /\ x.spawned \in Nat /\ x.clarified \in Nat
      /\ ledger.spent \in Nat
  BY <1>1 DEF RunState
<1> HIDE DEF z, next
<1>7a. /\ driver \in Nat /\ driver = x.driver + cost
       /\ clarified \in Nat /\ clarified = x.clarified + 1
  BY <1>3, <1>5, <1>6, Bounds
<1> HIDE DEF driver, clarified
<1>7b. y \in RunState
  BY <1>3, <1>5, <1>7a DEF RunState
<1>7. /\ y \in RunState /\ y.pc = next /\ y.left = x.left /\ y.plan = x.plan
      /\ y.spawned = x.spawned + 1 /\ y.clarified = x.clarified + 1
      /\ y.total = z.total /\ y.driver = x.driver + cost
  BY <1>3, <1>7a, <1>7b DEF RunState
<1> HIDE DEF y
<1>8. /\ x.spawned \in 1..MaxEpisodeTurns - 1 /\ x.clarified < MaxClarifyTurns
      /\ x.plan # << >> /\ x.left > 0 /\ x.driver <= Phrased(x.spawned - 1)
      /\ Committed(x) <= Share
  BY <1>1 DEF RunKept
<1>9. /\ Committed(y) <= Committed(x)
      /\ Committed(y) \in Nat /\ Committed(x) \in Nat
  <2>1. Committed(x) = x.total + x.driver + 2 * (MaxCost + MaxDriverCost)
    BY <1>1 DEF Committed, Ahead
  <2>2. Committed(y) = z.total + (x.driver + cost) + Ahead(next)
    BY <1>7 DEF Committed
  <2>3. Ahead(next) \in Nat /\ Ahead(next) <= MaxCost + MaxDriverCost
    BY <1>5, Bounds DEF Ahead
  <2>4. QED
    BY <1>3, <1>5, <1>6, <2>1, <2>2, <2>3, Bounds
<1>10. y.driver <= Phrased(y.spawned - 1)
  <2>1. x.spawned - 1 \in Nat /\ (x.spawned - 1) + 1 = x.spawned /\ y.spawned - 1 = x.spawned
    BY <1>7, <1>8, Bounds
  <2>2. Phrased(x.spawned) = Phrased(x.spawned - 1) + MaxDriverCost
        /\ Phrased(x.spawned - 1) \in Nat
    BY <2>1, PhrasedGrows
  <2>3. y.driver = x.driver + cost /\ x.driver <= Phrased(x.spawned - 1)
        /\ cost \in Nat /\ cost <= MaxDriverCost
    BY <1>5, <1>7, <1>8, Bounds
  <2>4. y.driver <= Phrased(x.spawned)
    BY <1>6, <2>2, <2>3, Bounds
  <2>5. QED
    BY <2>1, <2>4
<1>11. RunKept(y)
  <2>1. /\ y.spawned > 0 /\ y.spawned <= MaxEpisodeTurns
        /\ y.clarified <= MaxClarifyTurns /\ Committed(y) <= Share
    <3>1. x.spawned + 1 > 0 /\ x.spawned + 1 <= MaxEpisodeTurns
      BY <1>6, <1>8, Bounds
    <3>2. x.clarified + 1 <= MaxClarifyTurns
      BY <1>6, <1>8, Bounds
    <3>3. Committed(y) <= Share
      BY <1>8, <1>9, ShareType
    <3>4. QED
      BY <1>7, <3>1, <3>2, <3>3
  <2>2. y.spawned \in Nat
    BY <1>6, <1>7
  <2>3. QED
    BY <1>5, <1>7, <1>8, <1>10, <2>1, <2>2, Bounds DEF RunKept
<1>12. ledger'.spent + Committed(y) <= ledger.spent + Committed(x)
  BY <1>4, <1>6, <1>9
<1>13. QED
  BY <1>1, <1>4, <1>7, <1>11, <1>12, RunnerSteps

LEMMA StepKeeps ==
    ASSUME BudgetInv, NEW r \in Runners, Step(r)
    PROVE  BudgetInv'
<1> DEFINE x == run[r]
<1>1. x \in RunState /\ RunKept(x) /\ x.pc = "step"
      /\ ledger \in [spent : Nat, torn : BOOLEAN]
  BY DEF BudgetInv, TypeOK, Step
<1>2. PICK res \in Results, cost \in DriverCosts :
        /\ Head(x.plan) = "scenario" => cost = 0
        /\ run' = [run EXCEPT ![r] = Stepped(x, res, cost)]
  BY DEF Step
<1> DEFINE z == Recorded(x, res)
           next == IF res.status = "ok" \/ Head(x.plan) = "interrupt"
                   THEN "guard" ELSE "log"
           driver == z.driver + cost
           plan == Tail(z.plan)
           y == [z EXCEPT !.driver = driver, !.plan = plan, !.pc = next]
<1>3. /\ z \in RunState /\ z.total \in Nat /\ z.total <= x.total + MaxCost
      /\ z.spawned = x.spawned + 1 /\ z.left = x.left /\ z.plan = x.plan
      /\ z.clarified = x.clarified /\ z.driver = x.driver
  BY <1>1, RecordedType
<1>4. run' = [run EXCEPT ![r] = y] /\ ledger' = ledger
  BY <1>2 DEF Step, Stepped
<1>5. next \in {"guard", "log"} /\ cost \in 0..MaxDriverCost
  BY DEF DriverCosts
<1>6. /\ x.total \in Nat /\ x.driver \in Nat /\ x.spawned \in Nat /\ x.clarified \in Nat
      /\ x.plan \in Seq(Steps) /\ ledger.spent \in Nat
  BY <1>1 DEF RunState
<1>7. /\ x.spawned <= MaxEpisodeTurns /\ x.clarified <= MaxClarifyTurns
      /\ x.plan # << >> /\ x.left > 0 /\ Committed(x) <= Share
      /\ x.spawned = 0 => x.driver = 0 /\ Head(x.plan) = "scenario"
      /\ x.spawned > 0 => x.driver <= Phrased(x.spawned - 1)
  BY <1>1 DEF RunKept
<1> HIDE DEF z, next
<1>8. /\ driver \in Nat /\ driver = x.driver + cost
      /\ plan \in Seq(Steps)
  BY <1>3, <1>5, <1>6, <1>7, Bounds
<1> HIDE DEF driver, plan
<1>9. y \in RunState
  BY <1>3, <1>5, <1>8 DEF RunState
<1>10. /\ y.pc = next /\ y.left = x.left /\ y.spawned = x.spawned + 1
       /\ y.clarified = x.clarified /\ y.total = z.total /\ y.driver = x.driver + cost
  BY <1>3, <1>8 DEF RunState
<1> HIDE DEF y
<1>11. Committed(y) <= Committed(x) /\ Committed(y) \in Nat /\ Committed(x) \in Nat
  <2>1. Committed(x) = x.total + x.driver + (MaxCost + MaxDriverCost)
    BY <1>1 DEF Committed, Ahead
  <2>2. Committed(y) = z.total + (x.driver + cost) + 0
    BY <1>5, <1>10 DEF Committed, Ahead
  <2>3. /\ MaxCost \in Nat /\ MaxDriverCost \in Nat
        /\ cost \in Nat /\ cost <= MaxDriverCost
    BY <1>5, Bounds
  <2>4. /\ z.total + (x.driver + cost) + 0 <= x.total + x.driver + (MaxCost + MaxDriverCost)
        /\ z.total + (x.driver + cost) + 0 \in Nat
        /\ x.total + x.driver + (MaxCost + MaxDriverCost) \in Nat
    <3>1. /\ z.total \in Nat /\ x.total \in Nat /\ x.driver \in Nat
          /\ z.total <= x.total + MaxCost
      BY <1>3, <1>6
    <3> HIDE DEF x
    <3>2. QED
      BY <2>3, <3>1
  <2>5. QED
    BY <2>1, <2>2, <2>4
<1>12. y.driver <= Phrased(y.spawned - 1)
  <2>1. y.spawned - 1 = x.spawned
    BY <1>6, <1>10
  <2>2. CASE x.spawned = 0
    <3>1. cost = 0 /\ x.driver = 0
      BY <1>2, <1>7, <2>2
    <3>2. y.driver = 0
      BY <1>10, <3>1
    <3>3. Phrased(y.spawned - 1) = 0
      BY <2>1, <2>2, PhrasedGrows
    <3>4. QED
      BY <3>2, <3>3
  <2>3. CASE x.spawned > 0
    <3>1. x.spawned - 1 \in Nat /\ (x.spawned - 1) + 1 = x.spawned
      BY <1>6, <2>3
    <3>2. Phrased(x.spawned) = Phrased(x.spawned - 1) + MaxDriverCost
          /\ Phrased(x.spawned - 1) \in Nat
      BY <3>1, PhrasedGrows
    <3>3. x.driver <= Phrased(x.spawned - 1) /\ cost \in Nat /\ cost <= MaxDriverCost
      BY <1>5, <1>7, <2>3, Bounds
    <3>4. x.driver + cost <= Phrased(x.spawned)
      BY <1>6, <3>2, <3>3, Bounds
    <3>5. QED
      BY <1>10, <2>1, <3>4
  <2>4. QED
    BY <1>6, <2>2, <2>3
<1>13. RunKept(y)
  <2>1. /\ y.spawned \in Nat /\ y.spawned > 0 /\ y.spawned <= MaxEpisodeTurns + 1
        /\ Committed(y) <= Share
    <3>1. x.spawned + 1 > 0 /\ x.spawned + 1 <= MaxEpisodeTurns + 1
      BY <1>6, <1>7, Bounds
    <3>2. Committed(y) <= Share
      BY <1>7, <1>11, ShareType
    <3>3. QED
      BY <1>6, <1>10, <3>1, <3>2
  <2>2. QED
    BY <1>5, <1>7, <1>10, <1>12, <2>1 DEF RunKept
<1>14. ledger'.spent + Committed(y) <= ledger.spent + Committed(x)
  BY <1>4, <1>6, <1>11
<1>15. QED
  BY <1>1, <1>4, <1>9, <1>13, <1>14, RunnerSteps

(* A run ends: nothing is committed any more.                              *)
LEMMA EndedRun ==
    ASSUME NEW x \in RunState, RunKept(x), x.pc # "between"
    PROVE  LET y == Between(x.left - 1)
           IN  y \in RunState /\ RunKept(y) /\ Committed(y) = 0
<1>1. x.left \in 0..MaxRuns /\ x.left > 0
  BY DEF RunState, RunKept
<1>2. x.left - 1 \in 0..MaxRuns
  BY <1>1, Bounds
<1> DEFINE left == x.left - 1
           y == Between(left)
<1>3. left \in 0..MaxRuns
  BY <1>2
<1> HIDE DEF left
<1>4. y \in RunState
  BY <1>3, Bounds DEF Between, RunState
<1>5. Committed(y) = 0
  BY DEF Between, Committed, Ahead
<1>6. RunKept(y)
  BY <1>5, Bounds, ShareType DEF Between, RunKept
<1>7. QED
  BY <1>4, <1>5, <1>6 DEF left

LEMMA LogKeeps ==
    ASSUME BudgetInv, NEW r \in Runners, Log(r)
    PROVE  BudgetInv'
<1> DEFINE x == run[r]
           y == Between(x.left - 1)
<1>1. x \in RunState /\ RunKept(x) /\ x.pc = "log"
      /\ ledger \in [spent : Nat, torn : BOOLEAN]
  BY DEF BudgetInv, TypeOK, Log
<1>2. y \in RunState /\ RunKept(y) /\ Committed(y) = 0
  BY <1>1, EndedRun
<1>3. run' = [run EXCEPT ![r] = y]
  BY DEF Log
<1>4. x.total \in Nat /\ x.driver \in Nat /\ ledger.spent \in Nat
  BY <1>1 DEF RunState
<1>5. Committed(x) = x.total + x.driver /\ Committed(x) \in Nat
  BY <1>1, <1>4 DEF Committed, Ahead
<1> HIDE DEF x, y
<1>6. /\ ledger' \in [spent : Nat, torn : BOOLEAN]
      /\ ledger'.spent <= ledger.spent + Committed(x)
  <2>1. CASE ledger.torn
    BY <1>1, <1>4, <1>5, <2>1 DEF Log
  <2>2. CASE ~ledger.torn
    <3> DEFINE sum == ledger.spent + x.total + x.driver
    <3>1. ledger' = [ledger EXCEPT !.spent = sum]
      BY <2>2 DEF Log, x
    <3>2. sum \in Nat /\ sum = ledger.spent + Committed(x)
      BY <1>4, <1>5
    <3> HIDE DEF sum
    <3>3. ledger'.spent = sum /\ ledger' \in [spent : Nat, torn : BOOLEAN]
      BY <1>1, <3>1, <3>2
    <3>4. QED
      BY <3>2, <3>3
  <2>3. QED
    BY <2>1, <2>2
<1>7. ledger'.spent + Committed(y) <= ledger.spent + Committed(x)
  BY <1>2, <1>4, <1>5, <1>6
<1>8. QED
  BY <1>1, <1>2, <1>3, <1>6, <1>7, RunnerSteps DEF x

LEMMA CrashKeeps ==
    ASSUME BudgetInv, NEW r \in Runners, Crash(r)
    PROVE  BudgetInv'
<1> DEFINE x == run[r]
           y == Between(x.left - 1)
<1>1. x \in RunState /\ RunKept(x) /\ x.pc # "between"
      /\ ledger \in [spent : Nat, torn : BOOLEAN]
  BY DEF BudgetInv, TypeOK, Crash
<1>2. y \in RunState /\ RunKept(y) /\ Committed(y) = 0
  BY <1>1, EndedRun
<1>3. run' = [run EXCEPT ![r] = y]
  BY DEF Crash
<1>4. Committed(x) \in Nat /\ ledger.spent \in Nat
  BY <1>1, CommittedType
<1>5. PICK torn \in BOOLEAN : ledger' = [ledger EXCEPT !.torn = @ \/ torn]
  BY DEF Crash
<1> DEFINE flag == ledger.torn \/ torn
<1>6. ledger' = [ledger EXCEPT !.torn = flag] /\ flag \in BOOLEAN
  BY <1>5
<1> HIDE DEF flag
<1>7. ledger' \in [spent : Nat, torn : BOOLEAN] /\ ledger'.spent = ledger.spent
  BY <1>1, <1>6
<1>8. ledger'.spent + Committed(y) <= ledger.spent + Committed(x)
  BY <1>2, <1>4, <1>7
<1>9. QED
  BY <1>1, <1>2, <1>3, <1>7, <1>8, RunnerSteps

(* The budget invariant is inductive.                                      *)
THEOREM BudgetInvariance == Spec => []BudgetInv
<1>1. Init => BudgetInv
  BY InitBudget
<1>2. BudgetInv /\ [Next]_vars => BudgetInv'
  <2> SUFFICES ASSUME BudgetInv, [Next]_vars PROVE BudgetInv'
    OBVIOUS
  <2>1. CASE UNCHANGED vars
    <3>1. run' = run /\ ledger' = ledger
      BY <2>1 DEF vars
    <3>2. TypeOK' /\ \A r \in Runners : RunKept(run'[r])
      BY <3>1 DEF BudgetInv, TypeOK
    <3>3. Commitments' = Commitments
      BY <3>1 DEF Commitments
    <3>4. QED
      BY <3>1, <3>2, <3>3 DEF BudgetInv
  <2>2. ASSUME NEW r \in Runners, StartSingle(r) PROVE BudgetInv'
    BY <2>2, StartSingleKeeps
  <2>3. ASSUME NEW r \in Runners, SingleShot(r) PROVE BudgetInv'
    BY <2>3, SingleShotKeeps
  <2>4. ASSUME NEW r \in Runners, StartEpisode(r) PROVE BudgetInv'
    BY <2>4, StartEpisodeKeeps
  <2>5. ASSUME NEW r \in Runners, Guard(r) PROVE BudgetInv'
    BY <2>5, GuardKeeps
  <2>6. ASSUME NEW r \in Runners, Clarify(r) PROVE BudgetInv'
    BY <2>6, ClarifyKeeps
  <2>7. ASSUME NEW r \in Runners, Step(r) PROVE BudgetInv'
    BY <2>7, StepKeeps
  <2>8. ASSUME NEW r \in Runners, Log(r) PROVE BudgetInv'
    BY <2>8, LogKeeps
  <2>9. ASSUME NEW r \in Runners, Crash(r) PROVE BudgetInv'
    BY <2>9, CrashKeeps
  <2>10. QED
    BY <2>1, <2>2, <2>3, <2>4, <2>5, <2>6, <2>7, <2>8, <2>9 DEF Next
<1>3. QED
  BY <1>1, <1>2, PTL DEF Spec

-----------------------------------------------------------------------------
(* What follows for every number of runners.                               *)

\* Every open run and the ledger have the shape the program gives them.
THEOREM BudgetTypeCorrect == Spec => []TypeOK
<1>1. BudgetInv => TypeOK
  BY DEF BudgetInv
<1>2. QED
  BY <1>1, BudgetInvariance, PTL

\* What has been reported never exceeds one share per runner, whatever the
\* runners do between two readings of the ledger and however often one dies.
THEOREM BudgetIsBounded == Spec => []BudgetHolds
<1>1. BudgetInv => BudgetHolds
  <2> SUFFICES ASSUME BudgetInv PROVE BudgetHolds
    OBVIOUS
  <2> DEFINE paid == [r \in Runners |-> run[r].total + run[r].driver]
             c == Commitments
  <2>1. \A r \in Runners : run[r] \in RunState
    BY DEF BudgetInv, TypeOK
  <2>2. DOMAIN paid = Runners /\ DOMAIN c = Runners
    BY DEF Commitments
  <2>3. \A r \in Runners : paid[r] \in Int /\ c[r] \in Int /\ paid[r] <= c[r]
    BY <2>1, CommittedType DEF Commitments
  <2>4. /\ SumFunction(paid) = SumFunctionOnSet(paid, Runners)
        /\ SumFunction(c) = SumFunctionOnSet(c, Runners)
    BY <2>2 DEF SumFunction
  <2>5. /\ Reported = ledger.spent + SumFunction(paid)
        /\ ledger.spent + SumFunction(c) <= Cardinality(Runners) * Share
    BY DEF Reported, BudgetInv
  <2> HIDE DEF paid, c
  <2>6. SumFunction(paid) \in Int /\ SumFunction(c) \in Int
        /\ SumFunction(paid) <= SumFunction(c)
    BY <2>3, <2>4, Bounds, SumTakesOut, SumMonotone
  <2>7. /\ ledger.spent \in Nat /\ Cardinality(Runners) \in Nat /\ Share \in Nat
    BY Bounds, FS_CardinalityType, ShareType DEF BudgetInv, TypeOK
  <2>8. Cardinality(Runners) * Share \in Int
    BY <2>7
  <2>9. Reported <= Cardinality(Runners) * Share
    BY <2>5, <2>6, <2>7, <2>8
  <2>10. QED
    BY <2>9 DEF BudgetHolds, Share
<1>2. QED
  BY <1>1, BudgetInvariance, PTL

\* However steps and clarifying answers alternate, an episode spawns at most
\* one agent turn more than MAX_EPISODE_TURNS.
THEOREM SpawnsAreBounded == Spec => []SpawnsBounded
<1>1. BudgetInv => SpawnsBounded
  BY DEF BudgetInv, RunKept, SpawnsBounded
<1>2. QED
  BY <1>1, BudgetInvariance, PTL
=============================================================================
