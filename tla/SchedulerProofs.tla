-------------------------- MODULE SchedulerProofs --------------------------
(***************************************************************************)
(* The ticks of the scheduler, for any disciplined systems, any entities,  *)
(* number of workers and order of the goroutines.  The levels keep conflicting       *)
(* systems apart (LevelsApart), the tasks are those of the current level   *)
(* (TasksOfLevel) and the shards of a system are disjoint                  *)
(* (ShardsDisjoint), so that concurrent tasks do not race.  TickInv        *)
(* follows a tick cell by cell: a cell has the value it has in the serial  *)
(* run after the systems that have written it so far.                      *)
(***************************************************************************)
EXTENDS Executor, WellFoundedInduction, TLAPS

-----------------------------------------------------------------------------
(* Induction *)

\* Induction on the naturals, for a set.
LEMMA Induction ==
    ASSUME NEW S, 0 \in S, \A n \in Nat : n \in S => n + 1 \in S
    PROVE  \A n \in Nat : n \in S
<1> SUFFICES ASSUME Nat \ S # {} PROVE FALSE
    BY Zenon
<1> DEFINE R == OpToRel(<, Nat)
<1>1. IsWellFoundedOn(R, Nat) /\ \A a, b \in Nat : <<a, b>> \in R <=> a < b
    BY NatLessThanWellFounded, Zenon DEF OpToRel
<1> HIDE DEF R
<1>2. PICK T : T = Nat \ S
    BY Zenon
<1>3. PICK x \in T : \A y \in T : ~ (<<y, x>> \in R)
    BY <1>1, <1>2, WFMin
<1>4. x \in Nat /\ x # 0 /\ x - 1 \in Nat
    BY <1>2, <1>3
<1>5. x - 1 \in S
  <2>1. x - 1 < x
    BY <1>4
  <2>2. <<x - 1, x>> \in R
    BY <1>1, <1>4, <2>1, Zenon
  <2> QED
    BY <1>2, <1>3, <1>4, <2>2, Zenon
<1> QED
    BY <1>2, <1>3, <1>4, <1>5

-----------------------------------------------------------------------------
(* The shards of a system cover its entities exactly. *)

(* Rounding up: w shards of the length Chunk hold all n entities, and a     *)
(* shard is not empty.                                                      *)
LEMMA ChunkCovers ==
    ASSUME NEW n \in Nat \ {0}, NEW w \in 1 .. n
    PROVE  Chunk(n, w) \in Nat \ {0} /\ n <= w * Chunk(n, w)
<1> DEFINE c == (n + w - 1) \div w
<1>1. c \in Int /\ w * c + ((n + w - 1) % w) = n + w - 1 /\ (n + w - 1) % w \in 0 .. w - 1
    OBVIOUS
<1>2. n <= w * c
    BY <1>1
<1>3. c > 0
    BY <1>2, <1>1
<1> QED
    BY <1>1, <1>2, <1>3 DEF Chunk

(* A product is monotone in its first factor. *)
LEMMA ProductMonotone ==
    ASSUME NEW a \in Int, NEW b \in Int, NEW c \in Nat, a <= b
    PROVE  a * c <= b * c
OBVIOUS

(* What SubSeq returns for a slice that may be empty. *)
LEMMA SliceOf ==
    ASSUME NEW S, NEW s \in Seq(S), NEW a \in Nat, NEW top \in 0 .. Len(s)
    PROVE  /\ SubSeq(s, a + 1, top) \in Seq(S)
           /\ Len(SubSeq(s, a + 1, top)) = IF a < top THEN top - a ELSE 0
           /\ \A q \in 1 .. Len(SubSeq(s, a + 1, top)) : SubSeq(s, a + 1, top)[q] = s[a + q]
OBVIOUS

(* Division with remainder. *)
LEMMA Division ==
    ASSUME NEW x \in Nat, NEW c \in Nat \ {0}
    PROVE  x \div c \in Nat /\ x % c \in 0 .. c - 1 /\ x = (x \div c) * c + (x % c)
OBVIOUS

\* The sequence sh consists of w consecutive slices of s, each of length c or up to the end.
Slices(S, s, sh, w, c) ==
    /\ Len(s) \in Nat /\ w \in Nat /\ c \in Nat \ {0} /\ Len(s) <= w * c
    /\ DOMAIN sh = 1 .. w
    /\ \A i \in 1 .. w :
         /\ (i - 1) * c \in Nat /\ i * c = (i - 1) * c + c
         /\ sh[i] \in Seq(S)
         /\ \A q \in 1 .. Len(sh[i]) :
              q <= c /\ (i - 1) * c + q \in 1 .. Len(s) /\ sh[i][q] = s[(i - 1) * c + q]
         /\ \A q \in 1 .. c : (i - 1) * c + q <= Len(s) => q \in 1 .. Len(sh[i])

(* The shards are consecutive slices of the entities. *)
LEMMA ShardsAreSlices ==
    ASSUME NEW S, NEW s \in Seq(S), s # <<>>, NEW workers \in Int
    PROVE  \E w, c : Slices(S, s, Shards(s, workers), w, c)
<1> DEFINE w == ShardCount(Len(s), workers)
           c == Chunk(Len(s), w)
           sh == Shards(s, workers)
<1>1. Len(s) \in Nat \ {0}
    OBVIOUS
<1>2. w \in 1 .. Len(s)
    BY <1>1 DEF ShardCount
<1> HIDE DEF w
<1>3. c \in Nat \ {0} /\ Len(s) <= w * c
    BY <1>1, <1>2, ChunkCovers, Zenon
<1>4. sh = [i \in 1 .. w |-> SubSeq(s, (i - 1) * c + 1, IF i * c > Len(s) THEN Len(s) ELSE i * c)]
    BY Zenon DEF Shards, w
<1> HIDE DEF c, sh
<1>5. ASSUME NEW i \in 1 .. w
      PROVE  /\ (i - 1) * c \in Nat /\ i * c = (i - 1) * c + c
             /\ sh[i] \in Seq(S)
             /\ \A q \in 1 .. Len(sh[i]) :
                  q <= c /\ (i - 1) * c + q \in 1 .. Len(s) /\ sh[i][q] = s[(i - 1) * c + q]
             /\ \A q \in 1 .. c : (i - 1) * c + q <= Len(s) => q \in 1 .. Len(sh[i])
    <2> DEFINE a == (i - 1) * c
               b == i * c
               top == IF b > Len(s) THEN Len(s) ELSE b
    <2>1. a \in Nat /\ b = a + c /\ b \in Nat
        BY <1>2, <1>3
    <2>2. sh[i] = SubSeq(s, a + 1, top)
        BY <1>4, Zenon
    <2> HIDE DEF a, b
    <2>3. top \in 0 .. Len(s)
        BY <2>1, <1>1
    <2>a. (b > Len(s) /\ top = Len(s)) \/ (b <= Len(s) /\ top = b)
        BY <2>1, <1>1
    <2> HIDE DEF top
    <2>4. /\ sh[i] \in Seq(S) /\ Len(sh[i]) = (IF a < top THEN top - a ELSE 0)
          /\ \A q \in 1 .. Len(sh[i]) : sh[i][q] = s[a + q]
        BY <2>1, <2>2, <2>3, SliceOf
    <2>5. ASSUME NEW q \in 1 .. Len(sh[i])
          PROVE  q <= c /\ a + q \in 1 .. Len(s)
        BY <2>1, <2>3, <2>a, <2>4, <1>1, <1>3
    <2>6. ASSUME NEW q \in 1 .. c, a + q <= Len(s)
          PROVE  q \in 1 .. Len(sh[i])
        BY <2>1, <2>3, <2>a, <2>4, <2>6, <1>1, <1>3
    <2> QED
        BY <2>1, <2>4, <2>5, <2>6, Zenon DEF a, b
<1>6. Slices(S, s, sh, w, c)
    BY <1>1, <1>2, <1>3, <1>4, <1>5, SMTT(30) DEF Slices
<1> QED
    BY <1>6, Zenon DEF sh

(* The shards that run concurrently share no entity, for any numbers of     *)
(* entities and workers: lock-free GetShard and SetShard rely on it.        *)
THEOREM ShardsDisjoint ==
    ASSUME NEW S, NEW s \in Seq(S), s # <<>>, NEW workers \in Int,
           \A p, r \in 1 .. Len(s) : s[p] = s[r] => p = r
    PROVE  \A i, j \in DOMAIN Shards(s, workers) :
              i # j => \A q \in DOMAIN Shards(s, workers)[i], r \in DOMAIN Shards(s, workers)[j] :
                          Shards(s, workers)[i][q] # Shards(s, workers)[j][r]
<1> DEFINE sh == Shards(s, workers)
<1> HIDE DEF sh
<1>0. PICK w, c : Slices(S, s, sh, w, c)
    BY ShardsAreSlices, Zenon DEF sh
<1>1. ASSUME NEW i \in 1 .. w, NEW j \in 1 .. w, i < j, NEW q \in 1 .. Len(sh[i]), NEW r \in 1 .. Len(sh[j])
      PROVE  sh[i][q] # sh[j][r]
    <2> DEFINE a == (i - 1) * c
               b == (j - 1) * c
    <2>1. /\ a \in Nat /\ b \in Nat /\ q <= c /\ a + q \in 1 .. Len(s) /\ b + r \in 1 .. Len(s)
          /\ sh[i][q] = s[a + q] /\ sh[j][r] = s[b + r] /\ i * c = a + c
        BY <1>0, Zenon DEF Slices
    <2>2. w \in Nat /\ c \in Nat /\ Len(sh[i]) \in Nat /\ Len(sh[j]) \in Nat
        BY <1>0 DEF Slices
    <2>3. i * c <= b
        BY <1>1, <2>2, ProductMonotone
    <2> HIDE DEF a, b
    <2>4. a + q # b + r
        BY <2>1, <2>2, <2>3
    <2> QED
        BY <2>1, <2>4, Zenon
<1>2. DOMAIN sh = 1 .. w /\ w \in Nat /\ \A i \in 1 .. w : DOMAIN sh[i] = 1 .. Len(sh[i])
    BY <1>0 DEF Slices
<1>3. ASSUME NEW i \in DOMAIN sh, NEW j \in DOMAIN sh, i # j, NEW q \in DOMAIN sh[i], NEW r \in DOMAIN sh[j]
      PROVE  sh[i][q] # sh[j][r]
    <2>0. i \in 1 .. w /\ j \in 1 .. w /\ q \in 1 .. Len(sh[i]) /\ r \in 1 .. Len(sh[j])
        BY <1>2, Zenon
    <2>1. i < j \/ j < i
        BY <1>2, <1>3, <2>0
    <2> QED
        BY <2>0, <2>1, <1>1
<1>4. \A i, j \in DOMAIN sh : i # j => \A q \in DOMAIN sh[i], r \in DOMAIN sh[j] : sh[i][q] # sh[j][r]
    BY <1>3, Zenon
<1> QED
    BY <1>4, Zenon DEF sh

(* No entity is left out: every entity of the system is in some shard.      *)
THEOREM ShardsCover ==
    ASSUME NEW S, NEW s \in Seq(S), s # <<>>, NEW workers \in Int
    PROVE  \A p \in 1 .. Len(s) : \E i \in DOMAIN Shards(s, workers) :
              \E q \in DOMAIN Shards(s, workers)[i] : Shards(s, workers)[i][q] = s[p]
<1> DEFINE sh == Shards(s, workers)
<1> HIDE DEF sh
<1>0. PICK w, c : Slices(S, s, sh, w, c)
    BY ShardsAreSlices, Zenon DEF sh
<1>1. /\ Len(s) \in Nat /\ w \in Nat /\ c \in Nat \ {0} /\ Len(s) <= w * c
      /\ DOMAIN sh = 1 .. w /\ \A i \in 1 .. w : DOMAIN sh[i] = 1 .. Len(sh[i])
    BY <1>0 DEF Slices
<1>2. ASSUME NEW p \in 1 .. Len(s)
      PROVE  \E i \in 1 .. w : \E q \in 1 .. Len(sh[i]) : sh[i][q] = s[p]
    <2>1. PICK d \in Nat, m \in 0 .. c - 1 : p - 1 = d * c + m
        <3>1. p - 1 \in Nat
            BY <1>1
        <3> QED
            BY <3>1, <1>1, Division
    <2> DEFINE dc == d * c
               wc == w * c
    <2>2. dc \in Nat /\ wc \in Nat /\ p - 1 = dc + m /\ Len(s) <= wc
        BY <1>1, <2>1
    <2> HIDE DEF dc, wc
    <2>3. dc < wc
        BY <1>1, <2>2
    <2>4. ~ (w <= d)
        BY <1>1, <2>2, <2>3, ProductMonotone DEF dc, wc
    <2>5. /\ d + 1 \in 1 .. w /\ m + 1 \in 1 .. c /\ (d + 1) - 1 = d
        BY <1>1, <2>1, <2>4
    <2>6. d * c + (m + 1) = p
        BY <1>1, <2>2 DEF dc
    <2>7. m + 1 \in 1 .. Len(sh[d + 1]) /\ sh[d + 1][m + 1] = s[p]
        BY <1>0, <2>5, <2>6, <1>1, SMTT(30) DEF Slices
    <2> QED
        BY <2>5, <2>7, Zenon
<1> QED
    BY <1>1, <1>2, Zenon DEF sh

-----------------------------------------------------------------------------
(* Levels and tasks *)

\* The plan is one that the guarantees are about.
Good == plan \in Plans /\ Disciplined

\* Of two systems that conflict, the earlier one has the lower level.
LevelsApart ==
    /\ Good
    /\ levels \in Seq(Nat \ {0}) /\ Len(levels) <= Len(plan.systems)
    /\ \A i, j \in DOMAIN levels : j < i /\ Conflicts(i, j) => levels[j] < levels[i]

\* The levels are complete when a tick runs, and its tasks are those of its level.
TasksOfLevel ==
    /\ level \in Nat
    /\ DOMAIN tasks = IF level = 0 THEN {} ELSE TasksOf(level)
    /\ level > 0 => Scheduled

SchedInv == LevelsApart /\ TasksOfLevel

(* Conflicts is symmetric, as its three disjuncts are. *)
LEMMA ConflictsSymmetric ==
    ASSUME NEW i, NEW j
    PROVE  Conflicts(i, j) <=> Conflicts(j, i)
BY Zenon DEF Conflicts

(* Systems that collide at run time are found to conflict. *)
LEMMA CollisionsConflict ==
    ASSUME Disciplined, NEW i \in Systems, NEW j \in Systems, i # j, Collide(System(i), System(j))
    PROVE  Conflicts(i, j) /\ Conflicts(j, i)
<1>1. Collide(Known(i), Known(j))
    BY Zenon DEF Disciplined
<1>2. Conflicts(i, j)
    BY <1>1, Zenon DEF Collide, Conflicts
<1> QED BY <1>2, ConflictsSymmetric, Zenon

(* What a plan says of its systems. *)
LEMMA PlanSystems ==
    ASSUME Good
    PROVE  /\ plan.systems \in Seq(SystemType) /\ Len(plan.systems) \in Nat
           /\ Systems = 1 .. Len(plan.systems)
           /\ \A i \in Systems : /\ System(i).entities \in Seq(Entities)
                                 /\ \A q, r \in 1 .. Len(System(i).entities) :
                                       System(i).entities[q] = System(i).entities[r] => q = r
           /\ plan.workers \in Nat
<1>1. plan.systems \in Seq(SystemType) /\ plan.workers \in Nat
    BY PlansAssumption, Zenon DEF Good
<1>2. ASSUME NEW i \in Systems
      PROVE  /\ System(i).entities \in Seq(Entities)
             /\ \A q, r \in 1 .. Len(System(i).entities) :
                   System(i).entities[q] = System(i).entities[r] => q = r
    <2>1. System(i) \in SystemType
        BY <1>1 DEF System, Systems
    <2>2. System(i).entities \in Seq(Entities)
        BY <2>1, Zenon DEF SystemType
    <2>3. \A q, r \in DOMAIN System(i).entities : System(i).entities[q] = System(i).entities[r] => q = r
        BY Zenon DEF Good, Disciplined
    <2> QED
        BY <2>2, <2>3
<1> QED
    BY <1>1, <1>2 DEF Systems

(* The plan is fixed. *)
LEMMA GoodStays ==
    ASSUME UNCHANGED plan
    PROVE  (Disciplined' <=> Disciplined) /\ (Good' <=> Good)
BY Zenon DEF Good, Disciplined, Systems, System, Known

(* One turn of the loop of dependencyLevels. *)
LEMMA AssignKeeps == LevelsApart /\ AssignLevel => LevelsApart'
<1> SUFFICES ASSUME LevelsApart, AssignLevel PROVE LevelsApart'
    BY Zenon
<1> DEFINE n == Len(levels) + 1
           below == {levels[j] : j \in {k \in 1 .. Len(levels) : Conflicts(n, k)}}
<1>1. /\ plan' = plan /\ n \in Systems
      /\ \E lvl \in {0} \cup below : (\A l \in below : l <= lvl) /\ levels' = Append(levels, lvl + 1)
    BY Zenon DEF AssignLevel
<1>2. levels \in Seq(Nat \ {0}) /\ Len(levels) \in Nat
    BY DEF LevelsApart
<1>3. below \subseteq Nat
    BY <1>2
<1>4. PICK lvl \in Nat : (\A j \in 1 .. Len(levels) : Conflicts(n, j) => levels[j] <= lvl) /\ levels' = Append(levels, lvl + 1)
    BY <1>1, <1>3, Zenon
<1>5. /\ levels' \in Seq(Nat \ {0}) /\ Len(levels') = n /\ levels'[n] = lvl + 1
      /\ \A k \in 1 .. Len(levels) : levels'[k] = levels[k]
    BY <1>2, <1>4
<1>6. Len(levels') <= Len(plan.systems)
    BY <1>1, <1>5, PlanSystems DEF LevelsApart
<1>7. ASSUME NEW i \in 1 .. n, NEW j \in 1 .. n, j < i, Conflicts(i, j)
      PROVE  levels'[j] < levels'[i]
    <2>1. CASE i = n
        BY <2>1, <1>2, <1>4, <1>5, <1>7
    <2>2. CASE i # n
        <3>1. i \in 1 .. Len(levels) /\ j \in 1 .. Len(levels)
            BY <2>2, <1>2, <1>7
        <3>2. levels[j] < levels[i]
            BY <3>1, <1>2, <1>7 DEF LevelsApart
        <3> QED
            BY <3>1, <3>2, <1>5, Zenon
    <2> QED
        BY <2>1, <2>2, Zenon
<1>8. \A i, j : Conflicts(i, j)' <=> Conflicts(i, j)
    BY <1>1, Zenon DEF Conflicts, Known, System
<1>9. DOMAIN levels' = 1 .. n
    BY <1>5
<1>10. Good'
    BY <1>1, GoodStays, Zenon DEF LevelsApart
<1> QED
    BY <1>1, <1>10, <1>5, <1>6, <1>7, <1>8, <1>9, Zenon DEF LevelsApart

(* Steps of a tick change neither plan nor levels, and keep the tasks those of a level. *)
LEMMA TaskActsKeep ==
    ASSUME SchedInv, NEW t \in DOMAIN tasks, TaskStep(t) \/ TaskPanics(t) \/ TickPanics(t)
    PROVE  /\ UNCHANGED <<plan, levels>>
           /\ (UNCHANGED level /\ DOMAIN tasks' = DOMAIN tasks) \/ (level' = 0 /\ tasks' = <<>>)
<1>1. CASE TaskStarts(t)
    BY <1>1, Zenon DEF TaskStarts
<1>2. CASE TaskGivesUp(t)
    BY <1>2, Zenon DEF TaskGivesUp
<1>3. CASE TaskReads(t)
    BY <1>3, Zenon DEF TaskReads
<1>4. CASE TaskWrites(t)
    BY <1>4, Zenon DEF TaskWrites
<1>5. CASE TaskReturns(t)
    BY <1>5, Zenon DEF TaskReturns
<1>6. CASE TaskPanics(t)
    BY <1>6, Zenon DEF TaskPanics
<1>7. CASE TickPanics(t)
    BY <1>7, Zenon DEF TickPanics
<1>8. CASE TaskReports(t)
    BY <1>8, Zenon DEF TaskReports
<1> QED
    BY <1>1, <1>2, <1>3, <1>4, <1>5, <1>6, <1>7, <1>8, Zenon DEF TaskStep

(* The levels and the tasks depend on plan and levels only. *)
LEMMA SameLevels ==
    ASSUME LevelsApart, UNCHANGED <<plan, levels>>
    PROVE  LevelsApart' /\ (Scheduled' <=> Scheduled) /\ \A l : TasksOf(l)' = TasksOf(l)
<1>1. Good'
    BY GoodStays, Zenon DEF LevelsApart
<1> QED
    BY <1>1, Zenon DEF LevelsApart, Scheduled, TasksOf, ShardsOf, System, Known, Conflicts

(* Every step of the scheduler keeps the invariant. *)
LEMMA NextKeeps == SchedInv /\ [SchedNext]_schedVars => SchedInv'
<1> SUFFICES ASSUME SchedInv, [SchedNext]_schedVars PROVE SchedInv'
    OBVIOUS
<1>0. LevelsApart /\ TasksOfLevel /\ level \in Nat
    BY Zenon DEF SchedInv, TasksOfLevel
<1>1. CASE AssignLevel
    <2>1. LevelsApart'
        BY <1>0, <1>1, AssignKeeps, Zenon
    <2>2. ~ Scheduled
        <3>1. Len(levels) + 1 \in 1 .. Len(plan.systems) /\ Len(levels) \in Nat
            BY <1>0, <1>1, PlanSystems DEF AssignLevel, LevelsApart
        <3> QED
            BY <3>1, <1>0, PlanSystems DEF Scheduled, LevelsApart
    <2>3. level = 0
        BY <1>0, <2>2 DEF TasksOfLevel
    <2> QED
        BY <1>0, <1>1, <2>1, <2>3 DEF SchedInv, TasksOfLevel, AssignLevel
<1> DEFINE Same == UNCHANGED <<plan, levels>>
<1>2. ASSUME Same, level' \in Nat, DOMAIN tasks' = (IF level' = 0 THEN {} ELSE TasksOf(level')), level' > 0 => Scheduled
      PROVE  SchedInv'
    <2>1. LevelsApart' /\ (Scheduled' <=> Scheduled)
        BY <1>0, <1>2, SameLevels, Zenon
    <2>2. TasksOfLevel'
        BY <1>2, <2>1, Zenon DEF TasksOfLevel, TasksOf, ShardsOf, System
    <2> QED
        BY <2>1, <2>2, Zenon DEF SchedInv
<1>3. CASE TickBegins
    BY <1>2, <1>3 DEF TickBegins, NewTasks
<1>4. CASE NextLevel
    BY <1>0, <1>2, <1>4 DEF NextLevel, NewTasks, TasksOfLevel
<1>5. CASE TickFails \/ TickSucceeds
    BY <1>2, <1>5 DEF TickFails, TickSucceeds
<1>6. CASE Cancel \/ (\E i \in DOMAIN levels : SystemReports(i)) \/ UNCHANGED schedVars
    BY <1>0, <1>2, <1>6, Zenon DEF Cancel, SystemReports, schedVars, TasksOfLevel
<1>7. CASE \E t \in DOMAIN tasks : TaskStep(t) \/ TaskPanics(t) \/ TickPanics(t)
    <2>1. PICK t \in DOMAIN tasks : TaskStep(t) \/ TaskPanics(t) \/ TickPanics(t)
        BY <1>7, Zenon
    <2>2. Same /\ ((UNCHANGED level /\ DOMAIN tasks' = DOMAIN tasks) \/ (level' = 0 /\ tasks' = <<>>))
        BY <2>1, TaskActsKeep, Zenon
    <2>3. DOMAIN <<>> = {}
        OBVIOUS
    <2> QED
        BY <1>0, <1>2, <2>2, <2>3 DEF TasksOfLevel
<1> QED
    BY <1>1, <1>3, <1>4, <1>5, <1>6, <1>7, Zenon DEF SchedNext

(* Systems of one level do not conflict, and shards of one system share no entity. *)
LEMMA InvIsRaceFree == SchedInv => RaceFree
<1> SUFFICES ASSUME SchedInv, NEW t \in DOMAIN tasks, NEW u \in DOMAIN tasks, t # u
             PROVE  Cells(t, System(t[1]).writes) \cap Cells(u, System(u[1]).reads \cup System(u[1]).writes) = {}
    BY Zenon DEF RaceFree
<1> DEFINE i == t[1]
           j == u[1]
           R(k) == System(k).reads
           W(k) == System(k).writes
<1>1. LevelsApart /\ t \in TasksOf(level) /\ u \in TasksOf(level)
    BY Zenon DEF SchedInv, TasksOfLevel
<1>2. /\ i \in DOMAIN levels /\ levels[i] = level /\ t = <<i, t[2]>> /\ t[2] \in DOMAIN ShardsOf(i) /\ System(i).entities # <<>>
      /\ j \in DOMAIN levels /\ levels[j] = level /\ u = <<j, u[2]>> /\ u[2] \in DOMAIN ShardsOf(j)
    BY <1>1 DEF TasksOf
<1>3. DOMAIN levels = 1 .. Len(levels) /\ Len(levels) \in Nat /\ DOMAIN levels \subseteq Systems /\ level \in Nat
    BY <1>1, <1>2, PlanSystems DEF LevelsApart
<1>4. CASE i # j
    <2>1. ~ Conflicts(i, j)
        <3>1. i < j \/ j < i
            BY <1>2, <1>3, <1>4
        <3>2. ~ (Conflicts(i, j) /\ j < i) /\ ~ (Conflicts(j, i) /\ i < j)
            BY <1>1, <1>2, <1>3 DEF LevelsApart
        <3> QED
            BY <3>1, <3>2, ConflictsSymmetric, Zenon
    <2>2. W(i) \cap (R(j) \cup W(j)) = {}
        BY <1>1, <1>2, <1>3, <1>4, <2>1, CollisionsConflict, Zenon DEF LevelsApart, Good, Collide
    <2> QED
        BY <2>2, Zenon DEF Cells
<1>5. CASE i = j
    <2> DEFINE s == System(i).entities
               n == IF System(i).serial THEN 1 ELSE plan.workers
    <2>1. t[2] # u[2]
        BY <1>2, <1>5, Zenon
    <2>2. /\ s \in Seq(Entities) /\ s # <<>> /\ n \in Int
          /\ \A q, r \in 1 .. Len(s) : s[q] = s[r] => q = r
        <3>1. Good /\ i \in Systems
            BY <1>1, <1>2, <1>3, Zenon DEF LevelsApart
        <3>2. plan.workers \in Nat /\ s \in Seq(Entities) /\ \A q, r \in 1 .. Len(s) : s[q] = s[r] => q = r
            BY <3>1, PlanSystems, Zenon
        <3> QED
            BY <1>2, <3>2
    <2>3. ShardsOf(i) = Shards(s, n) /\ Shard(t) = Shards(s, n)[t[2]] /\ Shard(u) = Shards(s, n)[u[2]]
        BY <1>5, Zenon DEF ShardsOf, Shard
    <2> HIDE DEF s, n
    <2>4. \A q \in DOMAIN Shard(t), r \in DOMAIN Shard(u) : Shard(t)[q] # Shard(u)[r]
        BY <1>2, <1>5, <2>1, <2>2, <2>3, ShardsDisjoint
    <2>5. Range(Shard(t)) \cap Range(Shard(u)) = {}
        BY <2>4, Zenon DEF Range
    <2> QED
        BY <2>5, Zenon DEF Cells
<1> QED
    BY <1>4, <1>5, Zenon

-----------------------------------------------------------------------------
(* What the systems compute one after the other *)

IsData(d) == d = [c \in Comps |-> [e \in Entities |-> d[c][e]]]

\* System i writes the component c of the entity e.
WritesCell(i, c, e) == c \in System(i).writes /\ e \in plan.holds[c]

\* What system i computes for its q-th entity, from the data d before it and r after it.
ValueAt(d, r, i, q) ==
    IF System(i).serial /\ q > 1
    THEN <<i, Seen(d, i, System(i).entities[q]), Seen(r, i, System(i).entities[q - 1])>>
    ELSE <<i, Seen(d, i, System(i).entities[q])>>

\* What Stored changes.
LEMMA StoredFacts ==
    ASSUME Good, NEW d, IsData(d), NEW i \in Systems, NEW e \in Entities, NEW v
    PROVE  /\ IsData(Stored(d, i, e, v))
           /\ \A c \in Comps, f \in Entities :
                 Stored(d, i, e, v)[c][f] = IF f = e /\ WritesCell(i, c, e) THEN v ELSE d[c][f]
<1> DEFINE s == Stored(d, i, e, v)
<1>1. \A c \in Comps : d[c] = [f \in Entities |-> d[c][f]]
    BY Zenon DEF IsData
<1>2. ASSUME NEW c \in Comps
      PROVE  s[c] = [f \in Entities |-> IF f = e /\ WritesCell(i, c, e) THEN v ELSE d[c][f]]
  <2>1. CASE WritesCell(i, c, e)
    <3>1. s[c] = [d[c] EXCEPT ![e] = v]
      BY <2>1, Zenon DEF Stored, WritesCell
    <3> QED BY <1>1, <2>1, <3>1, Zenon
  <2>2. CASE ~ WritesCell(i, c, e)
    <3>1. s[c] = d[c]
      BY <2>2, Zenon DEF Stored, WritesCell
    <3> QED BY <1>1, <2>2, <3>1, Zenon
  <2> QED BY <2>1, <2>2, Zenon
<1>3. s = [c \in Comps |-> s[c]]
    BY Zenon DEF Stored
<1> HIDE DEF s
<1>4. \A c \in Comps, f \in Entities : s[c][f] = IF f = e /\ WritesCell(i, c, e) THEN v ELSE d[c][f]
    BY <1>2
<1>5. \A c \in Comps : s[c] = [f \in Entities |-> s[c][f]]
    BY <1>2, Zenon
<1>6. IsData(s)
    BY <1>3, <1>5, Zenon DEF IsData
<1> QED BY <1>4, <1>6, Zenon DEF s

\* g is the recursive function of RunAlone, to its entity n.
AloneTo(g, d, i, n) ==
    g = [q \in 0 .. n |-> IF q = 0 THEN d ELSE Stored(g[q - 1], i, System(i).entities[q],
                                                      Computed(g[q - 1], i, System(i).entities, q))]

\* The recursive function of RunAlone exists.
LEMMA AloneExists ==
    ASSUME NEW d, NEW i, NEW n \in Nat
    PROVE  \E g : AloneTo(g, d, i, n)
<1> DEFINE S == {k \in Nat : \E g : AloneTo(g, d, i, k)}
           Turn(x, q) == Stored(x, i, System(i).entities[q], Computed(x, i, System(i).entities, q))
<1>1. 0 \in S
  <2>1. AloneTo([q \in 0 .. 0 |-> d], d, i, 0)
    BY DEF AloneTo
  <2> QED BY <2>1, Zenon
<1>2. ASSUME NEW k \in Nat, k \in S PROVE k + 1 \in S
  <2>1. PICK g : AloneTo(g, d, i, k)
    BY <1>2, Zenon
  <2>a. g = [q \in 0 .. k |-> IF q = 0 THEN d ELSE Turn(g[q - 1], q)]
    BY <2>1, Zenon DEF AloneTo
  <2> DEFINE f == [q \in 0 .. k + 1 |-> IF q = k + 1 THEN Turn(g[k], k + 1) ELSE g[q]]
  <2> HIDE DEF Turn
  <2>2. \A q \in 0 .. k : f[q] = g[q] /\ g[q] = IF q = 0 THEN d ELSE Turn(g[q - 1], q)
    BY <2>a
  <2>3. \A q \in 0 .. k + 1 : f[q] = IF q = 0 THEN d ELSE Turn(f[q - 1], q)
    BY <2>2
  <2>4. f = [q \in 0 .. k + 1 |-> f[q]]
    BY Zenon
  <2> HIDE DEF f
  <2>5. AloneTo(f, d, i, k + 1)
    BY <2>3, <2>4, Zenon DEF AloneTo, Turn
  <2> QED BY <2>5
<1> HIDE DEF S
<1>3. n \in S
    BY <1>1, <1>2, Induction, Zenon
<1> QED BY <1>3, Zenon DEF S

\* A system alone: it writes each of its cells once, from what was there before; a serial
\* system sees what it has written for the entity ahead.
LEMMA AloneFacts ==
    ASSUME Good, NEW d, IsData(d), NEW i \in Systems
    PROVE  /\ IsData(RunAlone(d, i))
           /\ \A c \in Comps, e \in Entities : ~ WritesCell(i, c, e) => RunAlone(d, i)[c][e] = d[c][e]
           /\ \A q \in 1 .. Len(System(i).entities), c \in Comps :
                 WritesCell(i, c, System(i).entities[q]) =>
                    RunAlone(d, i)[c][System(i).entities[q]] = ValueAt(d, RunAlone(d, i), i, q)
<1> DEFINE es == System(i).entities
           Turn(x, q) == Stored(x, i, es[q], Computed(x, i, es, q))
<1>1. /\ es \in Seq(Entities) /\ Len(es) \in Nat /\ \A q \in 1 .. Len(es) : es[q] \in Entities
      /\ \A q, r \in 1 .. Len(es) : es[q] = es[r] => q = r
    BY PlanSystems
<1>2. PICK m \in Nat : m = Len(es)
    BY <1>1, Zenon
<1>3. PICK g : g = CHOOSE x : AloneTo(x, d, i, m)
    BY Zenon
<1>4. RunAlone(d, i) = g[m]
    BY <1>2, <1>3, Zenon DEF RunAlone, AloneTo
<1>5. AloneTo(g, d, i, m)
    BY <1>3, AloneExists, Zenon
<1>6. g[0] = d /\ \A q \in 1 .. m : g[q] = Turn(g[q - 1], q)
  <2>1. \A q \in 0 .. m : g[q] = IF q = 0 THEN d ELSE Turn(g[q - 1], q)
    BY <1>5, Zenon DEF AloneTo
  <2> HIDE DEF Turn
  <2> QED BY <2>1
<1> HIDE DEF es
<1> DEFINE Kept(x) == \A c \in Comps, e \in Entities : ~ WritesCell(i, c, e) => x[c][e] = d[c][e]
           Ahead(x, q) == \A p \in 1 .. m, c \in Comps : p > q => x[c][es[p]] = d[c][es[p]]
           Passed(x, q) == \A p \in 1 .. m, c \in Comps :
                              p <= q /\ WritesCell(i, c, es[p]) => x[c][es[p]] = Computed(g[p - 1], i, es, p)
           S == {q \in Nat : q <= m => IsData(g[q]) /\ Kept(g[q]) /\ Ahead(g[q], q) /\ Passed(g[q], q)}
<1>7. 0 \in S
  <2>1. \A p \in 1 .. m : ~ (p <= 0)
    OBVIOUS
  <2> QED BY <1>6, <2>1, Zenon
<1>8. ASSUME NEW q \in Nat, q \in S PROVE q + 1 \in S
  <2> SUFFICES ASSUME q + 1 <= m
               PROVE  IsData(g[q + 1]) /\ Kept(g[q + 1]) /\ Ahead(g[q + 1], q + 1) /\ Passed(g[q + 1], q + 1)
    OBVIOUS
  <2>0. q \in 0 .. m /\ q + 1 \in 1 .. m /\ (q + 1) - 1 = q
    BY <1>2
  <2>1. IsData(g[q]) /\ Kept(g[q]) /\ Ahead(g[q], q) /\ Passed(g[q], q)
    BY <1>8, <2>0
  <2> DEFINE e == es[q + 1]
             v == Computed(g[q], i, es, q + 1)
             h == g[q + 1]
  <2>2. h = Stored(g[q], i, e, v)
    BY <1>6, <2>0, Zenon
  <2>3. e \in Entities
    BY <1>1, <1>2, <2>0, Zenon
  <2> HIDE DEF e, v
  <2>4. /\ IsData(h)
        /\ \A c \in Comps, f \in Entities : h[c][f] = IF f = e /\ WritesCell(i, c, e) THEN v ELSE g[q][c][f]
    <3> DEFINE x == g[q]
    <3>1. IsData(x)
      BY <2>1, Zenon
    <3> HIDE DEF x, h
    <3>2. /\ IsData(Stored(x, i, e, v))
          /\ \A c \in Comps, f \in Entities :
               Stored(x, i, e, v)[c][f] = IF f = e /\ WritesCell(i, c, e) THEN v ELSE x[c][f]
      BY <2>3, <3>1, StoredFacts
    <3> QED BY <2>2, <3>2, Zenon DEF x
  <2> HIDE DEF h
  <2>5. Kept(h)
    <3> SUFFICES ASSUME NEW c \in Comps, NEW f \in Entities, ~ WritesCell(i, c, f) PROVE h[c][f] = d[c][f]
      BY Zenon
    <3>1. h[c][f] = g[q][c][f]
      BY <2>4, Zenon
    <3> QED BY <2>1, <3>1, Zenon
  <2>6. \A p \in 1 .. m : es[p] \in Entities /\ (es[p] = e => p = q + 1)
    BY <1>1, <1>2, <2>0, Zenon DEF e
  <2>7. Ahead(h, q + 1)
    <3> SUFFICES ASSUME NEW p \in 1 .. m, NEW c \in Comps, p > q + 1 PROVE h[c][es[p]] = d[c][es[p]]
      BY Zenon
    <3>1. p > q /\ p # q + 1
      BY <2>0
    <3>2. h[c][es[p]] = g[q][c][es[p]]
      BY <2>4, <2>6, <3>1, Zenon
    <3> QED BY <2>1, <3>1, <3>2, Zenon
  <2>8. Passed(h, q + 1)
    <3> SUFFICES ASSUME NEW p \in 1 .. m, NEW c \in Comps, p <= q + 1, WritesCell(i, c, es[p])
                 PROVE  h[c][es[p]] = Computed(g[p - 1], i, es, p)
      BY Zenon
    <3>1. CASE p = q + 1
      <4>1. h[c][es[p]] = v
        BY <2>4, <2>6, <3>1, Zenon DEF e
      <4> QED BY <2>0, <3>1, <4>1, Zenon DEF v
    <3>2. CASE p # q + 1
      <4>1. p <= q
        BY <3>2
      <4>2. h[c][es[p]] = g[q][c][es[p]]
        BY <2>4, <2>6, <3>2, Zenon
      <4> QED BY <2>1, <4>1, <4>2, Zenon
    <3> QED BY <3>1, <3>2, Zenon
  <2> QED BY <2>4, <2>5, <2>7, <2>8, Zenon DEF h
<1> HIDE DEF S
<1>9. \A q \in 0 .. m : q \in S
    BY <1>7, <1>8, Induction
<1>10. \A q \in 0 .. m : IsData(g[q]) /\ Kept(g[q]) /\ Ahead(g[q], q) /\ Passed(g[q], q)
    BY <1>9 DEF S
<1>11. m \in 0 .. m
    OBVIOUS
<1>12. \A c \in System(i).reads \cup System(i).writes : c \in Comps
  <2>1. System(i) \in SystemType
    BY PlanSystems DEF System
  <2> QED BY <2>1, Zenon DEF SystemType
<1>13. ASSUME NEW q \in 1 .. m, NEW c \in Comps, WritesCell(i, c, es[q])
       PROVE  g[m][c][es[q]] = ValueAt(d, g[m], i, q)
  <2>1. q <= m /\ q - 1 \in 0 .. m /\ q > q - 1
    OBVIOUS
  <2>2. g[m][c][es[q]] = Computed(g[q - 1], i, es, q)
    BY <1>10, <1>11, <1>13, <2>1, Zenon
  <2>3. Seen(g[q - 1], i, es[q]) = Seen(d, i, es[q])
    <3>1. \A b \in Comps : g[q - 1][b][es[q]] = d[b][es[q]]
      BY <1>10, <2>1, Zenon
    <3> QED BY <1>12, <3>1, Zenon DEF Seen
  <2>4. ASSUME q > 1 PROVE Seen(g[q - 1], i, es[q - 1]) = Seen(g[m], i, es[q - 1])
    <3>1. q - 1 \in 1 .. m /\ q - 1 <= q - 1 /\ q - 1 <= m
      BY <2>4
    <3>2. es[q - 1] \in Entities
      BY <1>1, <1>2, <3>1, Zenon
    <3>3. \A b \in Comps : g[q - 1][b][es[q - 1]] = g[m][b][es[q - 1]]
      <4> SUFFICES ASSUME NEW b \in Comps PROVE g[q - 1][b][es[q - 1]] = g[m][b][es[q - 1]]
        BY Zenon
      <4> DEFINE p == q - 1
      <4>1. p \in 1 .. m /\ p \in 0 .. m /\ p <= p /\ p <= m /\ es[p] \in Entities
        BY <2>1, <3>1, <3>2, Zenon
      <4> HIDE DEF p
      <4>2. CASE WritesCell(i, b, es[p])
        <5>1. g[p][b][es[p]] = Computed(g[p - 1], i, es, p)
          BY <1>10, <4>1, <4>2, Zenon
        <5>2. g[m][b][es[p]] = Computed(g[p - 1], i, es, p)
          BY <1>10, <1>11, <4>1, <4>2, Zenon
        <5> QED BY <5>1, <5>2, Zenon DEF p
      <4>3. CASE ~ WritesCell(i, b, es[p])
        <5>1. g[p][b][es[p]] = d[b][es[p]]
          BY <1>10, <4>1, <4>3, Zenon
        <5>2. g[m][b][es[p]] = d[b][es[p]]
          BY <1>10, <1>11, <4>1, <4>3, Zenon
        <5> QED BY <5>1, <5>2, Zenon DEF p
      <4> QED BY <4>2, <4>3, Zenon
    <3> QED BY <1>12, <3>3, Zenon DEF Seen
  <2>5. CASE System(i).serial /\ q > 1
    <3>1. Computed(g[q - 1], i, es, q) = <<i, Seen(g[q - 1], i, es[q]), Seen(g[q - 1], i, es[q - 1])>>
      BY <2>5, Zenon DEF Computed
    <3>2. ValueAt(d, g[m], i, q) = <<i, Seen(d, i, es[q]), Seen(g[m], i, es[q - 1])>>
      BY <2>5, Zenon DEF ValueAt, es
    <3>3. Seen(g[q - 1], i, es[q - 1]) = Seen(g[m], i, es[q - 1])
      BY <2>4, <2>5, Zenon
    <3> QED BY <2>2, <2>3, <3>1, <3>2, <3>3, Zenon
  <2>6. CASE ~ (System(i).serial /\ q > 1)
    <3>1. Computed(g[q - 1], i, es, q) = <<i, Seen(g[q - 1], i, es[q])>>
      BY <2>6, Zenon DEF Computed
    <3>2. ValueAt(d, g[m], i, q) = <<i, Seen(d, i, es[q])>>
      BY <2>6, Zenon DEF ValueAt, es
    <3> QED BY <2>2, <2>3, <3>1, <3>2, Zenon
  <2> QED BY <2>5, <2>6, Zenon
<1>14. IsData(g[m]) /\ \A c \in Comps, e \in Entities : ~ WritesCell(i, c, e) => g[m][c][e] = d[c][e]
    BY <1>10, <1>11, Zenon
<1>15. \A q \in 1 .. m, c \in Comps : WritesCell(i, c, es[q]) => g[m][c][es[q]] = ValueAt(d, g[m], i, q)
    BY <1>13, Zenon
<1> HIDE DEF Kept, Ahead, Passed, Turn
<1> QED BY <1>2, <1>4, <1>14, <1>15, Zenon DEF es

\* S has the data after each of the systems, one after the other, from the data d.
SerialRun(S, d) == S[0] = d /\ \A i \in Systems : S[i] = RunAlone(S[i - 1], i)

SerialTo(g, d, n) == g = [i \in 0 .. n |-> IF i = 0 THEN d ELSE RunAlone(g[i - 1], i)]

\* The recursive function of SerialTick exists.
LEMMA SerialExists ==
    ASSUME NEW d, NEW n \in Nat
    PROVE  \E g : SerialTo(g, d, n)
<1> DEFINE S == {k \in Nat : \E g : SerialTo(g, d, k)}
<1>1. 0 \in S
  <2>1. SerialTo([i \in 0 .. 0 |-> d], d, 0)
    BY DEF SerialTo
  <2> QED BY <2>1, Zenon
<1>2. ASSUME NEW k \in Nat, k \in S PROVE k + 1 \in S
  <2>1. PICK g : SerialTo(g, d, k)
    BY <1>2, Zenon
  <2> DEFINE f == [i \in 0 .. k + 1 |-> IF i = k + 1 THEN RunAlone(g[k], k + 1) ELSE g[i]]
  <2>2. \A i \in 0 .. k : f[i] = g[i] /\ g[i] = IF i = 0 THEN d ELSE RunAlone(g[i - 1], i)
    BY <2>1 DEF SerialTo
  <2>3. \A i \in 0 .. k + 1 : f[i] = IF i = 0 THEN d ELSE RunAlone(f[i - 1], i)
    BY <2>2
  <2>4. f = [i \in 0 .. k + 1 |-> f[i]]
    BY Zenon
  <2> HIDE DEF f
  <2>5. SerialTo(f, d, k + 1)
    BY <2>3, <2>4, Zenon DEF SerialTo
  <2> QED BY <2>5
<1> HIDE DEF S
<1>3. n \in S
    BY <1>1, <1>2, Induction, Zenon
<1> QED BY <1>3, Zenon DEF S

\* SerialTick is the end of such a run.
LEMMA SerialTickIs ==
    ASSUME Good, NEW d
    PROVE  \E S : SerialRun(S, d) /\ SerialTick(d) = S[Len(plan.systems)]
<1>1. PICK n \in Nat : n = Len(plan.systems) /\ Systems = 1 .. n
    BY PlanSystems, Zenon
<1>2. PICK S : S = CHOOSE x : SerialTo(x, d, n)
    BY Zenon
<1>3. SerialTick(d) = S[n]
    BY <1>1, <1>2, Zenon DEF SerialTick, SerialTo
<1>4. SerialTo(S, d, n)
    BY <1>2, SerialExists, Zenon
<1>5. S[0] = d /\ \A i \in 1 .. n : S[i] = RunAlone(S[i - 1], i)
  <2>1. \A i \in 0 .. n : S[i] = IF i = 0 THEN d ELSE RunAlone(S[i - 1], i)
    BY <1>4, Zenon DEF SerialTo
  <2> QED BY <2>1
<1> QED BY <1>1, <1>3, <1>5, Zenon DEF SerialRun

\* A serial run: all of it is data, and a cell changes only with a system that writes it.
LEMMA SerialFacts ==
    ASSUME Good, NEW d, IsData(d), NEW S, SerialRun(S, d), NEW n \in Nat, n = Len(plan.systems)
    PROVE  /\ \A k \in 0 .. n : IsData(S[k])
           /\ \A i \in 1 .. n, c \in Comps, e \in Entities : ~ WritesCell(i, c, e) => S[i][c][e] = S[i - 1][c][e]
           /\ \A i \in 1 .. n : \A q \in 1 .. Len(System(i).entities), c \in Comps :
                 WritesCell(i, c, System(i).entities[q]) =>
                    S[i][c][System(i).entities[q]] = ValueAt(S[i - 1], S[i], i, q)
<1>1. Systems = 1 .. n
    BY PlanSystems, Zenon
<1>2. S[0] = d /\ \A i \in 1 .. n : i \in Systems /\ S[i] = RunAlone(S[i - 1], i)
    BY <1>1, Zenon DEF SerialRun
<1> DEFINE T == {k \in Nat : k <= n => IsData(S[k])}
<1>3. 0 \in T
    BY <1>2, Zenon
<1>4. ASSUME NEW k \in Nat, k \in T PROVE k + 1 \in T
  <2> SUFFICES ASSUME k + 1 <= n PROVE IsData(S[k + 1])
    OBVIOUS
  <2>1. k + 1 \in 1 .. n /\ (k + 1) - 1 = k /\ k <= n
    OBVIOUS
  <2>2. S[k + 1] = RunAlone(S[k], k + 1) /\ IsData(S[k]) /\ k + 1 \in Systems
    BY <1>2, <1>4, <2>1, Zenon
  <2> QED BY <2>2, AloneFacts, Zenon
<1> HIDE DEF T
<1>5. \A k \in 0 .. n : IsData(S[k])
  <2>1. \A k \in 0 .. n : k \in T
    BY <1>3, <1>4, Induction
  <2> QED BY <2>1 DEF T
<1>6. ASSUME NEW i \in 1 .. n
      PROVE  /\ \A c \in Comps, e \in Entities : ~ WritesCell(i, c, e) => S[i][c][e] = S[i - 1][c][e]
             /\ \A q \in 1 .. Len(System(i).entities), c \in Comps :
                   WritesCell(i, c, System(i).entities[q]) =>
                      S[i][c][System(i).entities[q]] = ValueAt(S[i - 1], S[i], i, q)
  <2>1. i - 1 \in 0 .. n
    OBVIOUS
  <2>2. IsData(S[i - 1]) /\ i \in Systems /\ S[i] = RunAlone(S[i - 1], i)
    BY <1>2, <1>5, <2>1, Zenon
  <2>3. PICK x : x = S[i - 1]
    BY Zenon
  <2>4. /\ \A c \in Comps, e \in Entities : ~ WritesCell(i, c, e) => RunAlone(x, i)[c][e] = x[c][e]
        /\ \A q \in 1 .. Len(System(i).entities), c \in Comps :
              WritesCell(i, c, System(i).entities[q]) =>
                 RunAlone(x, i)[c][System(i).entities[q]] = ValueAt(x, RunAlone(x, i), i, q)
    <3>1. IsData(x)
      BY <2>2, <2>3, Zenon
    <3> QED BY <2>2, <3>1, AloneFacts
  <2> QED BY <2>2, <2>3, <2>4, Zenon
<1> QED BY <1>5, <1>6, Zenon

\* A cell keeps its value through systems that do not write it.
LEMMA SerialKeeps ==
    ASSUME Good, NEW d, IsData(d), NEW S, SerialRun(S, d), NEW n \in Nat, n = Len(plan.systems),
           NEW c \in Comps, NEW e \in Entities, NEW a \in 0 .. n, NEW b \in 0 .. n, a <= b,
           \A w \in 1 .. n : a < w /\ w <= b => ~ WritesCell(w, c, e)
    PROVE  S[b][c][e] = S[a][c][e]
<1> DEFINE T == {k \in Nat : a <= k /\ k <= b => S[k][c][e] = S[a][c][e]}
<1>0. \A i \in 1 .. n : ~ WritesCell(i, c, e) => S[i][c][e] = S[i - 1][c][e]
    BY SerialFacts
<1>1. 0 \in T
    OBVIOUS
<1>2. ASSUME NEW k \in Nat, k \in T PROVE k + 1 \in T
  <2> SUFFICES ASSUME a <= k + 1, k + 1 <= b PROVE S[k + 1][c][e] = S[a][c][e]
    OBVIOUS
  <2>1. CASE a = k + 1
    BY <2>1, Zenon
  <2>2. CASE a # k + 1
    <3>1. a <= k /\ k <= b /\ k + 1 \in 1 .. n /\ a < k + 1 /\ (k + 1) - 1 = k
      BY <2>2
    <3>2. S[k][c][e] = S[a][c][e]
      BY <1>2, <3>1, Zenon
    <3>3. ~ WritesCell(k + 1, c, e)
      BY <3>1, Zenon
    <3>4. S[k + 1][c][e] = S[(k + 1) - 1][c][e]
      BY <1>0, <3>1, <3>3, Zenon
    <3> QED BY <3>1, <3>2, <3>4, Zenon
  <2> QED BY <2>1, <2>2, Zenon
<1> HIDE DEF T
<1>3. b \in T
    BY <1>1, <1>2, Induction
<1> QED BY <1>3 DEF T

-----------------------------------------------------------------------------
(* The tasks of a tick *)

\* Every place of every shard is a place of the entities, and no entity has two places.
LEMMA ShardPlaces ==
    ASSUME NEW S, NEW s \in Seq(S), s # <<>>, NEW workers \in Int,
           \A p, r \in 1 .. Len(s) : s[p] = s[r] => p = r
    PROVE  /\ \A i \in DOMAIN Shards(s, workers) :
                 /\ Shards(s, workers)[i] \in Seq(S)
                 /\ \A q \in 1 .. Len(Shards(s, workers)[i]) : \E p \in 1 .. Len(s) : Shards(s, workers)[i][q] = s[p]
           /\ \A i \in DOMAIN Shards(s, workers) :
                 \A q, r \in 1 .. Len(Shards(s, workers)[i]) :
                    Shards(s, workers)[i][q] = Shards(s, workers)[i][r] => q = r
<1> DEFINE sh == Shards(s, workers)
<1> HIDE DEF sh
<1>0. PICK w, c : Slices(S, s, sh, w, c)
    BY ShardsAreSlices DEF sh
<1>1. ASSUME NEW i \in DOMAIN sh
      PROVE  /\ sh[i] \in Seq(S)
             /\ \A q \in 1 .. Len(sh[i]) : (i - 1) * c + q \in 1 .. Len(s) /\ sh[i][q] = s[(i - 1) * c + q]
             /\ (i - 1) * c \in Nat
    BY <1>0, Zenon DEF Slices
<1>2. ASSUME NEW i \in DOMAIN sh, NEW q \in 1 .. Len(sh[i]), NEW r \in 1 .. Len(sh[i]), sh[i][q] = sh[i][r]
      PROVE  q = r
  <2>a. (i - 1) * c + q \in 1 .. Len(s) /\ sh[i][q] = s[(i - 1) * c + q]
    BY <1>1, Zenon
  <2>b. (i - 1) * c + r \in 1 .. Len(s) /\ sh[i][r] = s[(i - 1) * c + r]
    BY <1>1, Zenon
  <2>1. (i - 1) * c + q = (i - 1) * c + r
    BY <1>2, <2>a, <2>b, Zenon
  <2>2. (i - 1) * c \in Nat /\ q \in Int /\ r \in Int
    BY <1>1
  <2> QED BY <2>1, <2>2
<1>3. \A i \in DOMAIN sh : sh[i] \in Seq(S) /\ \A q \in 1 .. Len(sh[i]) : \E p \in 1 .. Len(s) : sh[i][q] = s[p]
    BY <1>1
<1>4. \A i \in DOMAIN sh : \A q, r \in 1 .. Len(sh[i]) : sh[i][q] = sh[i][r] => q = r
    BY <1>2, Zenon
<1> QED BY <1>3, <1>4, Zenon DEF sh

\* A single shard has all entities.
LEMMA OneShard ==
    ASSUME NEW S, NEW s \in Seq(S), s # <<>>
    PROVE  DOMAIN Shards(s, 1) = {1} /\ Shards(s, 1)[1] = s
<1>1. PICK n \in Nat : n = Len(s) /\ n > 0
    OBVIOUS
<1>2. ShardCount(n, 1) = 1 /\ Chunk(n, 1) = n
    BY DEF ShardCount, Chunk
<1>3. Shards(s, 1) = [i \in 1 .. 1 |-> SubSeq(s, (i - 1) * n + 1, IF i * n > n THEN n ELSE i * n)]
    BY <1>1, <1>2, Zenon DEF Shards
<1>4. Shards(s, 1)[1] = SubSeq(s, 1, n)
  <2>1. 1 \in 1 .. 1 /\ (1 - 1) * n + 1 = 1 /\ 1 * n = n /\ ~ (n > n)
    BY <1>1
  <2>2. Shards(s, 1)[1] = SubSeq(s, (1 - 1) * n + 1, IF 1 * n > n THEN n ELSE 1 * n)
    BY <1>3, <2>1, Zenon
  <2> QED BY <2>1, <2>2, Zenon
<1>5. SubSeq(s, 1, n) = s
    BY <1>1
<1> QED BY <1>3, <1>4, <1>5

\* What a task works on.
LEMMA TaskFacts ==
    ASSUME SchedInv, NEW t \in DOMAIN tasks
    PROVE  /\ Good /\ level \in Nat /\ level > 0 /\ t[1] \in Systems /\ levels[t[1]] = level
           /\ t = <<t[1], t[2]>> /\ t[2] \in DOMAIN ShardsOf(t[1])
           /\ System(t[1]).entities \in Seq(Entities) /\ System(t[1]).entities # <<>>
           /\ \A q, r \in 1 .. Len(System(t[1]).entities) :
                 System(t[1]).entities[q] = System(t[1]).entities[r] => q = r
           /\ plan.workers \in Nat
<1>1. Good /\ level \in Nat /\ DOMAIN tasks = IF level = 0 THEN {} ELSE TasksOf(level)
    BY Zenon DEF SchedInv, LevelsApart, TasksOfLevel
<1>2. t \in TasksOf(level) /\ level > 0
    BY <1>1
<1>3. PICK i \in DOMAIN levels : levels[i] = level /\ System(i).entities # <<>> /\ t \in {i} \X DOMAIN ShardsOf(i)
    BY <1>2, Zenon DEF TasksOf
<1>4. t[1] = i /\ t = <<t[1], t[2]>> /\ t[2] \in DOMAIN ShardsOf(i)
    BY <1>3
<1>5. i \in Systems
    BY <1>1, <1>3, PlanSystems DEF SchedInv, LevelsApart
<1>6. /\ System(i).entities \in Seq(Entities) /\ plan.workers \in Nat
      /\ \A q, r \in 1 .. Len(System(i).entities) : System(i).entities[q] = System(i).entities[r] => q = r
    BY <1>1, <1>5, PlanSystems, Zenon
<1> QED BY <1>1, <1>2, <1>3, <1>4, <1>5, <1>6, Zenon

\* The shard of a task: entities of its system, each once; all of them for a serial system.
LEMMA TaskShard ==
    ASSUME SchedInv, NEW t \in DOMAIN tasks
    PROVE  /\ Shard(t) \in Seq(Entities) /\ Len(Shard(t)) \in Nat
           /\ \A p \in 1 .. Len(Shard(t)) : \E q \in 1 .. Len(System(t[1]).entities) : Shard(t)[p] = System(t[1]).entities[q]
           /\ System(t[1]).serial => Shard(t) = System(t[1]).entities
           /\ \A u \in DOMAIN tasks : \A p \in 1 .. Len(Shard(t)), r \in 1 .. Len(Shard(u)) :
                 u[1] = t[1] /\ Shard(t)[p] = Shard(u)[r] => u = t /\ r = p
<1> DEFINE i == t[1]
           s == System(i).entities
           n == IF System(i).serial THEN 1 ELSE plan.workers
           sh == Shards(s, n)
<1>1. /\ t = <<i, t[2]>> /\ t[2] \in DOMAIN ShardsOf(i) /\ plan.workers \in Nat
      /\ s \in Seq(Entities) /\ s # <<>> /\ \A q, r \in 1 .. Len(s) : s[q] = s[r] => q = r
    BY TaskFacts, Zenon
<1>2. ShardsOf(i) = sh /\ Shard(t) = sh[t[2]] /\ n \in Int
    BY <1>1 DEF ShardsOf, Shard
<1> HIDE DEF s, n
<1>3. /\ \A k \in DOMAIN sh : sh[k] \in Seq(Entities) /\ \A q \in 1 .. Len(sh[k]) : \E p \in 1 .. Len(s) : sh[k][q] = s[p]
      /\ \A k \in DOMAIN sh : \A q, r \in 1 .. Len(sh[k]) : sh[k][q] = sh[k][r] => q = r
    BY <1>1, <1>2, ShardPlaces
<1>4. \A k, j \in DOMAIN sh : k # j => \A q \in DOMAIN sh[k], r \in DOMAIN sh[j] : sh[k][q] # sh[j][r]
    BY <1>1, <1>2, ShardsDisjoint
<1>5. System(i).serial => Shard(t) = s
  <2> SUFFICES ASSUME System(i).serial PROVE Shard(t) = s
    BY Zenon
  <2>1. n = 1
    BY Zenon DEF n
  <2>2. DOMAIN Shards(s, 1) = {1} /\ Shards(s, 1)[1] = s
    BY <1>1, OneShard, Zenon
  <2> QED BY <1>1, <1>2, <2>1, <2>2, Zenon
<1> HIDE DEF sh
<1>6. Shard(t) \in Seq(Entities) /\ \A p \in 1 .. Len(Shard(t)) : \E q \in 1 .. Len(s) : Shard(t)[p] = s[q]
  <2>1. PICK k \in DOMAIN sh : Shard(t) = sh[k]
    BY <1>1, <1>2, Zenon
  <2>2. sh[k] \in Seq(Entities) /\ \A q \in 1 .. Len(sh[k]) : \E p \in 1 .. Len(s) : sh[k][q] = s[p]
    BY <1>3, Zenon
  <2> QED BY <2>1, <2>2, Zenon
<1>7. Len(Shard(t)) \in Nat
    BY <1>6
<1>8. ASSUME NEW u \in DOMAIN tasks, NEW p \in 1 .. Len(Shard(t)), NEW r \in 1 .. Len(Shard(u)),
             u[1] = i, Shard(t)[p] = Shard(u)[r]
      PROVE  u = t /\ r = p
  <2>1. u = <<i, u[2]>> /\ u[2] \in DOMAIN sh /\ Shard(u) = sh[u[2]] /\ t[2] \in DOMAIN sh
    BY <1>1, <1>2, <1>8, TaskFacts, Zenon DEF Shard
  <2>2. \A x \in Seq(Entities) : DOMAIN x = 1 .. Len(x)
    OBVIOUS
  <2>3. DOMAIN sh[t[2]] = 1 .. Len(sh[t[2]]) /\ DOMAIN sh[u[2]] = 1 .. Len(sh[u[2]])
    BY <1>3, <2>1, <2>2, Zenon
  <2>4. u[2] = t[2]
    <3>1. p \in DOMAIN sh[t[2]] /\ r \in DOMAIN sh[u[2]] /\ sh[t[2]][p] = sh[u[2]][r]
      BY <1>2, <1>8, <2>1, <2>3, Zenon
    <3> QED BY <1>4, <2>1, <3>1, Zenon
  <2>5. p \in 1 .. Len(sh[t[2]]) /\ r \in 1 .. Len(sh[t[2]]) /\ sh[t[2]][p] = sh[t[2]][r]
    BY <1>2, <1>8, <2>1, <2>4, Zenon
  <2>6. r = p
    BY <1>3, <2>1, <2>5, Zenon
  <2> QED BY <1>1, <2>1, <2>4, <2>6, Zenon
<1>9. \A u \in DOMAIN tasks : \A p \in 1 .. Len(Shard(t)), r \in 1 .. Len(Shard(u)) :
         u[1] = i /\ Shard(t)[p] = Shard(u)[r] => u = t /\ r = p
    BY <1>8, Zenon
<1> QED BY <1>5, <1>6, <1>7, <1>9, Zenon DEF s

\* Every entity of a system of the level is in the shard of some task.
LEMMA TaskCovers ==
    ASSUME SchedInv, level > 0, NEW i \in Systems, levels[i] = level, NEW q \in 1 .. Len(System(i).entities)
    PROVE  \E t \in DOMAIN tasks : t[1] = i /\ \E p \in 1 .. Len(Shard(t)) : Shard(t)[p] = System(i).entities[q]
<1> DEFINE s == System(i).entities
           n == IF System(i).serial THEN 1 ELSE plan.workers
           sh == Shards(s, n)
<1>1. /\ Good /\ level \in Nat /\ (level > 0 => Scheduled)
      /\ DOMAIN tasks = (IF level = 0 THEN {} ELSE TasksOf(level)) /\ levels \in Seq(Nat \ {0})
    BY Zenon DEF SchedInv, LevelsApart, TasksOfLevel
<1>2. Scheduled /\ DOMAIN tasks = TasksOf(level)
    BY <1>1
<1>3. /\ s \in Seq(Entities) /\ Systems = 1 .. Len(plan.systems) /\ plan.workers \in Nat
      /\ \A p, r \in 1 .. Len(s) : s[p] = s[r] => p = r
    BY <1>1, PlanSystems, Zenon
<1>4. i \in DOMAIN levels
    BY <1>1, <1>2, <1>3 DEF Scheduled
<1>5. s # <<>> /\ n \in Int
    BY <1>3
<1>6. ShardsOf(i) = sh
    BY Zenon DEF ShardsOf
<1> HIDE DEF s, n
<1>7. PICK k \in DOMAIN sh : \E r \in DOMAIN sh[k] : sh[k][r] = s[q]
    BY <1>3, <1>5, ShardsCover DEF s
<1>8. sh[k] \in Seq(Entities)
    BY <1>3, <1>5, ShardPlaces, Zenon
<1>9. DOMAIN sh[k] = 1 .. Len(sh[k])
    BY <1>8
<1> HIDE DEF sh
<1>10. <<i, k>> \in TasksOf(level)
    BY <1>4, <1>5, <1>6 DEF TasksOf, s
<1>11. Shard(<<i, k>>) = sh[k] /\ <<i, k>>[1] = i
    BY <1>6, Zenon DEF Shard
<1> QED BY <1>2, <1>7, <1>9, <1>10, <1>11, Zenon DEF s

\* RunAlone, with the plan it reads as a parameter.
AloneIn(p, d, i) ==
    LET s == p.systems[i]
        seen(x, e) == [c \in s.reads \cup s.writes |-> x[c][e]]
        computed(x, q) == IF s.serial /\ q > 1
                          THEN <<i, seen(x, s.entities[q]), seen(x, s.entities[q - 1])>>
                          ELSE <<i, seen(x, s.entities[q])>>
        stored(x, e, v) == [c \in Comps |-> IF c \in s.writes /\ e \in p.holds[c]
                                            THEN [x[c] EXCEPT ![e] = v] ELSE x[c]]
        after[q \in 0 .. Len(s.entities)] ==
            IF q = 0 THEN d ELSE stored(after[q - 1], s.entities[q], computed(after[q - 1], q))
    IN  after[Len(s.entities)]

\* RunAlone depends on the plan alone.
LEMMA SamePlan ==
    ASSUME NEW d, NEW i, plan' = plan
    PROVE  RunAlone(d, i)' = RunAlone(d, i)
<1>1. RunAlone(d, i) = AloneIn(plan, d, i)
  BY Zenon DEF AloneIn, RunAlone, Stored, Computed, Seen, System
<1>2. RunAlone(d, i)' = AloneIn(plan', d, i)
  BY Zenon DEF AloneIn, RunAlone, Stored, Computed, Seen, System
<1> QED BY <1>1, <1>2, Zenon

\* What depends on the plan alone stays with it.
LEMMA SamePlanFacts ==
    ASSUME plan' = plan
    PROVE  /\ Systems' = Systems /\ \A S, d : SerialRun(S, d)' <=> SerialRun(S, d)
           /\ \A d, r, i, q : ValueAt(d, r, i, q)' = ValueAt(d, r, i, q)
           /\ \A t : Shard(t)' = Shard(t)
<1>1. Systems' = Systems
  BY Zenon DEF Systems
<1>2. \A d, i : RunAlone(d, i)' = RunAlone(d, i)
  BY SamePlan, Zenon
<1>3. \A S, d : SerialRun(S, d)' <=> SerialRun(S, d)
  BY <1>1, <1>2, Zenon DEF SerialRun
<1>4. \A d, r, i, q : ValueAt(d, r, i, q)' = ValueAt(d, r, i, q)
  BY SMT DEF ValueAt, Seen, System
<1>5. \A t : Shard(t)' = Shard(t)
  BY Zenon DEF Shard, ShardsOf, System
<1> QED BY <1>1, <1>3, <1>4, <1>5, Zenon

-----------------------------------------------------------------------------
(* How far a tick is *)

\* System w is done with entity e in this tick.
Executed(w, e) ==
    \/ levels[w] < level
    \/ \E t \in DOMAIN tasks : t[1] = w /\ \E p \in 1 .. Len(Shard(t)) : p < tasks[t].at /\ Shard(t)[p] = e

\* Of the systems that write c, those up to k are done with e.
WrittenTo(k, c, e) == \A w \in Systems : c \in System(w).writes => (w <= k <=> Executed(w, e))

TaskOK(t) ==
    /\ tasks[t].at \in Nat \ {0}
    /\ tasks[t].pc = "ready" => tasks[t].at = 1
    /\ tasks[t].pc = "write" => tasks[t].at <= Len(Shard(t))
    /\ tasks[t].pc = "ok" => tasks[t].at > Len(Shard(t))

\* A cell has the value it has in the serial run S after the systems that have written it,
\* and a task is about to write the value its system computes in S.
Agrees(S) ==
    /\ \A c \in Comps, e \in Entities : e \notin plan.holds[c] => data[c][e] = before[c][e]
    /\ \A k \in 0 .. Len(plan.systems), c \in Comps : \A e \in plan.holds[c] :
          WrittenTo(k, c, e) => data[c][e] = S[k][c][e]
    /\ \A t \in DOMAIN tasks : \A q \in 1 .. Len(System(t[1]).entities) :
          tasks[t].pc = "write" /\ System(t[1]).entities[q] = Shard(t)[tasks[t].at] =>
             tasks[t].new = ValueAt(S[t[1] - 1], S[t[1]], t[1], q)

TickInv ==
    /\ IsData(data) /\ IsData(before)
    /\ \A t \in DOMAIN tasks : TaskOK(t)
    /\ level > 0 => \A S : SerialRun(S, before) => Agrees(S)

\* What the plan and the levels are during a tick.
LEMMA TickFacts ==
    ASSUME SchedInv, Scheduled
    PROVE  /\ Good /\ Len(plan.systems) \in Nat
           /\ Systems = 1 .. Len(plan.systems) /\ DOMAIN levels = Systems
           /\ level \in Nat /\ \A w \in Systems : levels[w] \in Nat \ {0}
           /\ \A c \in Comps : plan.holds[c] \subseteq Entities
           /\ \A w \in Systems : System(w).reads \subseteq Comps /\ System(w).writes \subseteq Comps
           /\ \A w \in Systems : \A c \in System(w).writes : \A e \in plan.holds[c] :
                 \E q \in 1 .. Len(System(w).entities) : System(w).entities[q] = e
<1>1. Good /\ levels \in Seq(Nat \ {0}) /\ level \in Nat
    BY Zenon DEF SchedInv, LevelsApart, TasksOfLevel
<1>2. /\ plan.systems \in Seq(SystemType) /\ Len(plan.systems) \in Nat
      /\ Systems = 1 .. Len(plan.systems)
      /\ \A i \in Systems : System(i).entities \in Seq(Entities)
    BY <1>1, PlanSystems, Zenon
<1>3. DOMAIN levels = Systems /\ \A w \in Systems : levels[w] \in Nat \ {0}
    BY <1>1, <1>2 DEF Scheduled
<1>4. \A c \in Comps : plan.holds[c] \subseteq Entities
    BY <1>1, PlansAssumption, Zenon DEF Good
<1>5. ASSUME NEW w \in Systems
      PROVE  System(w).reads \subseteq Comps /\ System(w).writes \subseteq Comps
  <2>1. System(w) \in SystemType
    BY <1>2 DEF System
  <2> QED BY <2>1, Zenon DEF SystemType
<1>6. ASSUME NEW w \in Systems, NEW c \in System(w).writes, NEW e \in plan.holds[c]
      PROVE  \E q \in 1 .. Len(System(w).entities) : System(w).entities[q] = e
  <2>1. DOMAIN System(w).entities = 1 .. Len(System(w).entities)
    BY <1>2
  <2>2. c \in System(w).reads \cup System(w).writes
    BY <1>6, Zenon
  <2>3. System(w).reads \cup System(w).writes # {}
    BY <2>2, Zenon
  <2>4. Range(System(w).entities) = UNION {plan.holds[x] : x \in System(w).reads \cup System(w).writes}
    <3>1. w \in DOMAIN plan.systems
      BY <1>6, Zenon DEF Systems
    <3> QED BY <1>1, <2>3, <3>1, PlansAssumption, Zenon DEF Good, System
  <2>5. e \in Range(System(w).entities)
    BY <2>2, <2>4, Zenon
  <2> QED BY <2>1, <2>5, Zenon DEF Range
<1> QED BY <1>1, <1>2, <1>3, <1>4, <1>5, <1>6, Zenon

\* Of the systems that conflict with one of the level, the earlier ones are done with every
\* entity, and the later ones with none.
LEMMA OthersExecuted ==
    ASSUME SchedInv, level > 0, NEW i \in Systems, levels[i] = level, NEW w \in Systems, w # i,
           Conflicts(i, w), NEW e
    PROVE  Executed(w, e) <=> w < i
<1>0. Scheduled /\ LevelsApart
    BY Zenon DEF SchedInv, TasksOfLevel
<1>1. /\ DOMAIN levels = Systems /\ level \in Nat /\ levels[i] \in Nat /\ levels[w] \in Nat
      /\ i \in Int /\ w \in Int
    BY <1>0, TickFacts
<1>2. Conflicts(w, i)
    BY ConflictsSymmetric, Zenon
<1>3. w < i => levels[w] < levels[i]
    BY <1>0, <1>1, Zenon DEF LevelsApart
<1>4. i < w => levels[i] < levels[w]
    BY <1>0, <1>1, <1>2, Zenon DEF LevelsApart
<1>5. \A t \in DOMAIN tasks : levels[t[1]] = level
    BY TaskFacts, Zenon
<1>6. CASE w < i
  <2>1. levels[w] < level
    BY <1>3, <1>6, Zenon
  <2> QED BY <1>6, <2>1, Zenon DEF Executed
<1>7. CASE i < w
  <2>1. ~ (levels[w] < level) /\ levels[w] # level /\ ~ (w < i)
    BY <1>1, <1>4, <1>7
  <2> QED BY <1>5, <2>1, Zenon DEF Executed
<1> QED BY <1>1, <1>6, <1>7

\* What a system of the level finds in a cell it reads or writes: the value it has in the
\* serial run, before the system, or after it when the system is done with the entity.
LEMMA ReadCell ==
    ASSUME SchedInv, TickInv, level > 0, NEW S, SerialRun(S, before),
           NEW i \in Systems, levels[i] = level, NEW c \in System(i).reads \cup System(i).writes,
           NEW e \in Entities, NEW k \in {i - 1, i}, c \in System(i).writes => (Executed(i, e) <=> k = i)
    PROVE  data[c][e] = S[k][c][e]
<1>0. Scheduled /\ IsData(before) /\ Agrees(S)
    BY Zenon DEF SchedInv, TasksOfLevel, TickInv
<1>1. PICK n \in Nat : n = Len(plan.systems) /\ Systems = 1 .. n
    BY <1>0, TickFacts, Zenon
<1>2. Good /\ c \in Comps /\ i \in 1 .. n
    BY <1>0, <1>1, TickFacts, Zenon
<1>3. k \in 0 .. n /\ 0 \in 0 .. n /\ 0 <= k
    BY <1>2
<1>4. CASE e \notin plan.holds[c]
  <2>1. \A w \in 1 .. n : ~ WritesCell(w, c, e)
    BY <1>4, Zenon DEF WritesCell
  <2>2. S[k][c][e] = S[0][c][e]
    BY <1>0, <1>1, <1>2, <1>3, <2>1, SerialKeeps
  <2>3. S[0] = before
    BY Zenon DEF SerialRun
  <2>4. data[c][e] = before[c][e]
    BY <1>0, <1>2, <1>4, Zenon DEF Agrees
  <2> QED BY <2>2, <2>3, <2>4, Zenon
<1>5. CASE e \in plan.holds[c]
  <2>1. ASSUME NEW w \in Systems, c \in System(w).writes PROVE w <= k <=> Executed(w, e)
    <3>1. CASE w = i
      <4>1. i <= k <=> k = i
        BY <1>2
      <4> QED BY <2>1, <3>1, <4>1, Zenon
    <3>2. CASE w # i
      <4>1. Conflicts(i, w)
        BY <1>2, <2>1, <3>2, CollisionsConflict, Zenon DEF Good, Collide
      <4>2. Executed(w, e) <=> w < i
        BY <3>2, <4>1, OthersExecuted, Zenon
      <4>3. w < i <=> w <= k
        BY <1>1, <1>2, <3>2
      <4> QED BY <4>2, <4>3, Zenon
    <3> QED BY <3>1, <3>2, Zenon
  <2>2. WrittenTo(k, c, e)
    BY <2>1, Zenon DEF WrittenTo
  <2> QED BY <1>0, <1>1, <1>2, <1>3, <1>5, <2>2, Zenon DEF Agrees
<1> QED BY <1>4, <1>5, Zenon

\* A task computes what its system computes in the serial run.
LEMMA ReadsRight ==
    ASSUME SchedInv, TickInv, NEW S, SerialRun(S, before), NEW t \in DOMAIN tasks,
           tasks[t].at <= Len(Shard(t)), NEW q \in 1 .. Len(System(t[1]).entities),
           System(t[1]).entities[q] = Shard(t)[tasks[t].at]
    PROVE  Computed(data, t[1], Shard(t), tasks[t].at) = ValueAt(S[t[1] - 1], S[t[1]], t[1], q)
<1> DEFINE i == t[1]
           es == System(i).entities
           sh == Shard(t)
<1>0. /\ i \in Systems /\ levels[i] = level /\ level > 0 /\ level \in Nat
      /\ es \in Seq(Entities) /\ \A p, r \in 1 .. Len(es) : es[p] = es[r] => p = r
    BY TaskFacts, Zenon
<1>1. /\ sh \in Seq(Entities) /\ Len(sh) \in Nat /\ (System(i).serial => sh = es)
      /\ \A u \in DOMAIN tasks : \A p \in 1 .. Len(sh), r \in 1 .. Len(Shard(u)) :
            u[1] = i /\ sh[p] = Shard(u)[r] => u = t /\ r = p
    BY TaskShard, Zenon
<1>2. PICK at \in Nat : at = tasks[t].at /\ at > 0
    BY DEF TickInv, TaskOK
<1>3. at \in 1 .. Len(sh)
    BY <1>1, <1>2
<1>4. Scheduled
    BY <1>0, Zenon DEF SchedInv, TasksOfLevel
<1>5. i \in Int /\ i # i - 1
    BY <1>0, <1>4, TickFacts
<1> DEFINE e == sh[at]
<1>6. e \in Entities /\ e = es[q]
    BY <1>1, <1>2, <1>3
<1> HIDE DEF sh, es, i
<1>7. ~ Executed(i, e)
  <2>1. ~ (levels[i] < level)
    BY <1>0
  <2>2. ASSUME NEW u \in DOMAIN tasks, u[1] = i, NEW p \in 1 .. Len(Shard(u)), p < tasks[u].at, Shard(u)[p] = e
        PROVE  FALSE
    <3>1. u = t /\ p = at
      BY <1>1, <1>3, <2>2, Zenon
    <3>2. ~ (at < at)
      OBVIOUS
    <3> QED BY <1>2, <2>2, <3>1, <3>2, Zenon
  <2> HIDE DEF e
  <2> QED BY <2>1, <2>2, Zenon DEF Executed
<1>8. Seen(data, i, e) = Seen(S[i - 1], i, e)
  <2>1. \A c \in System(i).reads \cup System(i).writes : data[c][e] = S[i - 1][c][e]
    <3> SUFFICES ASSUME NEW c \in System(i).reads \cup System(i).writes PROVE data[c][e] = S[i - 1][c][e]
      BY Zenon
    <3> HIDE DEF e
    <3>1. i - 1 \in {i - 1, i}
      BY Zenon
    <3>2. Executed(i, e) <=> i - 1 = i
      BY <1>5, <1>7, Zenon
    <3> QED BY <1>0, <1>6, <3>1, <3>2, ReadCell
  <2> QED BY <2>1, Zenon DEF Seen
<1>9. CASE System(i).serial /\ at > 1
  <2>1. sh = es /\ q = at
    <3>1. sh = es
      BY <1>1, <1>9, Zenon
    <3>2. es[at] = es[q] /\ at \in 1 .. Len(es) /\ q \in 1 .. Len(es)
      BY <1>3, <1>6, <3>1, Zenon DEF es, i
    <3> QED BY <1>0, <3>1, <3>2, Zenon
  <2>2. PICK p \in 1 .. Len(sh) : p = at - 1 /\ p < at /\ sh[p] \in Entities
    <3>1. at - 1 \in 1 .. Len(sh) /\ at - 1 < at
      BY <1>1, <1>3, <1>9
    <3>2. \A x \in 1 .. Len(sh) : sh[x] \in Entities
      BY <1>1
    <3> QED BY <3>1, <3>2, Zenon
  <2> DEFINE f == sh[p]
  <2>3. Executed(i, f)
    BY <1>2, <2>2, Zenon DEF Executed, i, sh
  <2>4. Seen(data, i, f) = Seen(S[i], i, f)
    <3>1. \A c \in System(i).reads \cup System(i).writes : data[c][f] = S[i][c][f]
      <4> SUFFICES ASSUME NEW c \in System(i).reads \cup System(i).writes PROVE data[c][f] = S[i][c][f]
        BY Zenon
      <4> HIDE DEF f
      <4>1. i \in {i - 1, i} /\ f \in Entities
        BY <2>2, Zenon DEF f
      <4> QED BY <1>0, <2>3, <4>1, ReadCell
    <3> QED BY <3>1, Zenon DEF Seen
  <2>5. Computed(data, i, sh, at) = <<i, Seen(data, i, sh[at]), Seen(data, i, sh[at - 1])>>
    BY <1>9, Zenon DEF Computed
  <2>6. ValueAt(S[i - 1], S[i], i, q) = <<i, Seen(S[i - 1], i, es[q]), Seen(S[i], i, es[q - 1])>>
    BY <1>9, <2>1, Zenon DEF ValueAt, es
  <2> QED BY <1>2, <1>8, <2>1, <2>2, <2>4, <2>5, <2>6, Zenon DEF i, sh
<1>10. CASE ~ (System(i).serial /\ at > 1)
  <2>1. ~ (System(i).serial /\ q > 1)
    <3> SUFFICES ASSUME System(i).serial PROVE ~ (q > 1)
      BY Zenon
    <3>1. sh = es
      BY <1>1, Zenon
    <3>2. es[at] = es[q] /\ at \in 1 .. Len(es) /\ q \in 1 .. Len(es)
      BY <1>3, <1>6, <3>1, Zenon DEF es, i
    <3>3. q = at
      BY <1>0, <3>2, Zenon
    <3> QED BY <1>10, <3>3, Zenon
  <2>2. Computed(data, i, sh, at) = <<i, Seen(data, i, sh[at])>>
    BY <1>10, Zenon DEF Computed
  <2>3. ValueAt(S[i - 1], S[i], i, q) = <<i, Seen(S[i - 1], i, es[q])>>
    BY <2>1, Zenon DEF ValueAt, es
  <2> QED BY <1>2, <1>6, <1>8, <2>2, <2>3, Zenon DEF i, sh
<1> QED BY <1>9, <1>10, Zenon

\* A task may change its state when it does not move.
LEMMA TaskTurns ==
    ASSUME SchedInv, TickInv, NEW t \in DOMAIN tasks, NEW k, k.at = tasks[t].at,
           UNCHANGED <<plan, levels, level, data, before>>, tasks' = [tasks EXCEPT ![t] = k],
           k.pc = "ready" => k.at = 1, k.pc = "write" => k.at <= Len(Shard(t)), k.pc = "ok" => k.at > Len(Shard(t)),
           k.pc = "write" => k.new = Computed(data, t[1], Shard(t), k.at)
    PROVE  TickInv'
<1>1. DOMAIN tasks' = DOMAIN tasks /\ \A u \in DOMAIN tasks : tasks'[u] = IF u = t THEN k ELSE tasks[u]
    BY Zenon
<1>2. \A u \in DOMAIN tasks : tasks'[u].at = tasks[u].at
    BY <1>1, Zenon
<1>3. /\ Systems' = Systems /\ \A S, d : SerialRun(S, d)' <=> SerialRun(S, d)
      /\ \A d, r, i, q : ValueAt(d, r, i, q)' = ValueAt(d, r, i, q)
      /\ \A u : Shard(u)' = Shard(u)
    BY SamePlanFacts, Zenon
<1>4. \A w, e : Executed(w, e)' <=> Executed(w, e)
  <2> SUFFICES ASSUME NEW w, NEW e PROVE Executed(w, e)' <=> Executed(w, e)
    BY Zenon
  <2>1. (\E u \in DOMAIN tasks' : u[1] = w /\ \E p \in 1 .. Len(Shard(u)') : p < tasks'[u].at /\ Shard(u)'[p] = e)
        <=> \E u \in DOMAIN tasks : u[1] = w /\ \E p \in 1 .. Len(Shard(u)) : p < tasks[u].at /\ Shard(u)[p] = e
    BY <1>1, <1>2, <1>3, Zenon
  <2> QED BY <2>1, Zenon DEF Executed
<1>5. \A i, c, e : WrittenTo(i, c, e)' <=> WrittenTo(i, c, e)
    BY <1>3, <1>4, Zenon DEF WrittenTo, System
<1>6. level > 0 /\ t[1] \in Systems
    BY TaskFacts, Zenon
<1>7. IsData(data)' /\ IsData(before)'
    BY Zenon DEF TickInv, IsData
<1>8. ASSUME NEW u \in DOMAIN tasks PROVE TaskOK(u)'
  <2>1. TaskOK(u)
    BY Zenon DEF TickInv
  <2>2. CASE u = t
    BY <1>1, <1>3, <2>1, <2>2, Zenon DEF TaskOK
  <2>3. CASE u # t
    BY <1>1, <1>3, <2>1, <2>3, Zenon DEF TaskOK
  <2> QED BY <2>2, <2>3, Zenon
<1>9. ASSUME NEW S, SerialRun(S, before) PROVE Agrees(S)'
  <2>1. Agrees(S)
    BY <1>6, <1>9, Zenon DEF TickInv
  <2>2. \A c \in Comps, e \in Entities : e \notin plan'.holds[c] => data'[c][e] = before'[c][e]
    BY <2>1, Zenon DEF Agrees
  <2>3. \A i \in 0 .. Len(plan'.systems), c \in Comps : \A e \in plan'.holds[c] :
           WrittenTo(i, c, e)' => data'[c][e] = S[i][c][e]
    BY <1>5, <2>1, Zenon DEF Agrees
  <2>4. ASSUME NEW u \in DOMAIN tasks, NEW q \in 1 .. Len(System(u[1]).entities), tasks'[u].pc = "write",
               System(u[1]).entities[q] = Shard(u)[tasks'[u].at]
        PROVE  tasks'[u].new = ValueAt(S[u[1] - 1], S[u[1]], u[1], q)
    <3>1. CASE u = t
      <4>1. k.pc = "write" /\ tasks'[u] = k /\ System(t[1]).entities[q] = Shard(t)[tasks[t].at] /\ tasks[t].at <= Len(Shard(t))
        BY <1>1, <2>4, <3>1, Zenon
      <4>2. Computed(data, t[1], Shard(t), tasks[t].at) = ValueAt(S[t[1] - 1], S[t[1]], t[1], q)
        BY <1>9, <2>4, <3>1, <4>1, ReadsRight, Zenon
      <4> QED BY <3>1, <4>1, <4>2, Zenon
    <3>2. CASE u # t
      BY <1>1, <2>1, <2>4, <3>2, Zenon DEF Agrees
    <3> QED BY <3>1, <3>2, Zenon
  <2>6. ASSUME NEW u \in DOMAIN tasks', NEW q \in 1 .. Len(System(u[1])'.entities), tasks'[u].pc = "write",
               System(u[1])'.entities[q] = Shard(u)'[tasks'[u].at]
        PROVE  tasks'[u].new = ValueAt(S[u[1] - 1], S[u[1]], u[1], q)'
    <3>1. System(u[1])' = System(u[1])
      BY Zenon DEF System
    <3>2. /\ u \in DOMAIN tasks /\ q \in 1 .. Len(System(u[1]).entities)
          /\ System(u[1]).entities[q] = Shard(u)[tasks'[u].at]
      BY <1>1, <1>3, <2>6, <3>1, Zenon
    <3>3. tasks'[u].new = ValueAt(S[u[1] - 1], S[u[1]], u[1], q)
      BY <2>4, <2>6, <3>2, Zenon
    <3> QED BY <1>3, <3>3, Zenon
  <2> QED BY <2>2, <2>3, <2>6, Zenon DEF Agrees
<1> QED BY <1>1, <1>3, <1>7, <1>8, <1>9, Zenon DEF TickInv

\* A write takes its cells to the value they have after the system in the serial run.
LEMMA WriteKeeps ==
    ASSUME SchedInv, TickInv, NEW t \in DOMAIN tasks, TaskWrites(t), UNCHANGED before
    PROVE  TickInv'
<1> DEFINE i == t[1]
           es == System(i).entities
<1>a. PICK at : at = tasks[t].at
    BY Zenon
<1>b. PICK e : e = Shard(t)[at]
    BY Zenon
<1>c. PICK v : v = tasks[t].new
    BY Zenon
<1>0. UNCHANGED <<plan, levels, level, before>> /\ tasks[t].pc = "write"
    BY Zenon DEF TaskWrites
<1>1. /\ DOMAIN tasks' = DOMAIN tasks
      /\ tasks'[t].pc = "run" /\ tasks'[t].at = at + 1 /\ \A u \in DOMAIN tasks \ {t} : tasks'[u] = tasks[u]
  <2>1. tasks' = [tasks EXCEPT ![t] = [pc |-> "run", at |-> at + 1, new |-> Untouched]]
    BY <1>a, Zenon DEF TaskWrites
  <2> QED BY <2>1, Zenon
<1>2. data' = Stored(data, i, e, v)
    BY <1>a, <1>b, <1>c, Zenon DEF TaskWrites
<1>3. i \in Systems /\ levels[i] = level /\ level > 0 /\ Good
    BY TaskFacts, Zenon
<1>4. Scheduled /\ IsData(data) /\ IsData(before) /\ \A u \in DOMAIN tasks : TaskOK(u)
    BY <1>3, Zenon DEF SchedInv, TasksOfLevel, TickInv
<1>5. PICK n \in Nat : n = Len(plan.systems) /\ Systems = 1 .. n
    BY <1>4, TickFacts, Zenon
<1>6. /\ Shard(t) \in Seq(Entities) /\ Len(Shard(t)) \in Nat
      /\ \A p \in 1 .. Len(Shard(t)) : \E q \in 1 .. Len(es) : Shard(t)[p] = es[q]
    BY TaskShard, Zenon
<1>7. at \in Nat /\ at \in 1 .. Len(Shard(t))
  <2>1. at \in Nat \ {0} /\ at <= Len(Shard(t))
    BY <1>0, <1>4, <1>a, Zenon DEF TaskOK
  <2> QED BY <1>6, <2>1
<1>8. e \in Entities
    BY <1>6, <1>7, <1>b
<1>9. PICK q0 \in 1 .. Len(es) : es[q0] = e
    BY <1>6, <1>7, <1>b, Zenon
<1>10. /\ Systems' = Systems /\ \A S, d : SerialRun(S, d)' <=> SerialRun(S, d)
       /\ \A d, r, j, q : ValueAt(d, r, j, q)' = ValueAt(d, r, j, q)
       /\ \A u : Shard(u)' = Shard(u)
    BY <1>0, SamePlanFacts, Zenon
<1> HIDE DEF i, es
<1>11. /\ IsData(data')
       /\ \A c \in Comps, f \in Entities : data'[c][f] = IF f = e /\ WritesCell(i, c, e) THEN v ELSE data[c][f]
    BY <1>2, <1>3, <1>4, <1>8, StoredFacts
<1>12. \A w, f : Executed(w, f)' <=> Executed(w, f) \/ (w = i /\ f = e)
  <2>1. ASSUME NEW w, NEW f, Executed(w, f)' PROVE Executed(w, f) \/ (w = i /\ f = e)
    <3>1. CASE levels[w] < level
      BY <3>1, Zenon DEF Executed
    <3>2. CASE ~ (levels[w] < level)
      <4>1. PICK u \in DOMAIN tasks : u[1] = w /\ \E p \in 1 .. Len(Shard(u)) : p < tasks'[u].at /\ Shard(u)[p] = f
        BY <1>0, <1>1, <1>10, <2>1, <3>2, Zenon DEF Executed
      <4>2. PICK p \in 1 .. Len(Shard(u)) : p < tasks'[u].at /\ Shard(u)[p] = f
        BY <4>1, Zenon
      <4>3. CASE u # t \/ p < at
        <5>1. p < tasks[u].at
          BY <1>1, <1>a, <4>2, <4>3, Zenon
        <5> QED BY <4>1, <4>2, <5>1, Zenon DEF Executed
      <4>4. CASE u = t /\ ~ (p < at)
        <5>1. p < at + 1
          BY <1>1, <4>2, <4>4, Zenon
        <5>2. p = at
          BY <1>7, <4>4, <5>1
        <5> QED BY <1>b, <4>1, <4>2, <4>4, <5>2, Zenon DEF i
      <4> QED BY <4>3, <4>4, Zenon
    <3> QED BY <3>1, <3>2, Zenon
  <2>2. ASSUME NEW w, NEW f, Executed(w, f) PROVE Executed(w, f)'
    <3>1. CASE levels[w] < level
      BY <1>0, <3>1, Zenon DEF Executed
    <3>2. CASE ~ (levels[w] < level)
      <4>1. PICK u \in DOMAIN tasks : u[1] = w /\ \E p \in 1 .. Len(Shard(u)) : p < tasks[u].at /\ Shard(u)[p] = f
        BY <2>2, <3>2, Zenon DEF Executed
      <4>2. PICK p \in 1 .. Len(Shard(u)) : p < tasks[u].at /\ Shard(u)[p] = f
        BY <4>1, Zenon
      <4>3. p < tasks'[u].at
        <5>1. CASE u = t
          <6>1. p < at /\ tasks'[u].at = at + 1
            BY <1>1, <1>a, <4>2, <5>1, Zenon
          <6>2. p < at + 1
            BY <1>7, <6>1
          <6> QED BY <6>1, <6>2, Zenon
        <5>2. CASE u # t
          BY <1>1, <4>2, <5>2, Zenon
        <5> QED BY <5>1, <5>2, Zenon
      <4> QED BY <1>1, <1>10, <4>1, <4>2, <4>3, Zenon DEF Executed
    <3> QED BY <3>1, <3>2, Zenon
  <2>3. Executed(i, e)'
    <3>1. at < tasks'[t].at
      BY <1>1, <1>7
    <3> QED BY <1>1, <1>7, <1>10, <1>b, <3>1, Zenon DEF Executed, i
  <2> QED BY <2>1, <2>2, <2>3, Zenon
<1>13. ASSUME NEW u \in DOMAIN tasks PROVE TaskOK(u)'
  <2>1. TaskOK(u)
    BY <1>4, Zenon
  <2>2. CASE u = t
    <3>1. tasks'[u].pc = "run" /\ tasks'[u].at \in Nat \ {0}
      BY <1>1, <1>7, <2>2
    <3> QED BY <3>1, Zenon DEF TaskOK
  <2>3. CASE u # t
    BY <1>1, <1>10, <2>1, <2>3, Zenon DEF TaskOK
  <2> QED BY <2>2, <2>3, Zenon
<1>14. ASSUME NEW S, SerialRun(S, before) PROVE Agrees(S)'
  <2>0. Agrees(S)
    BY <1>3, <1>14, Zenon DEF TickInv
  <2>1. \A c \in Comps, f \in Entities : f \notin plan'.holds[c] => data'[c][f] = before'[c][f]
    <3> SUFFICES ASSUME NEW c \in Comps, NEW f \in Entities, f \notin plan.holds[c] PROVE data'[c][f] = before[c][f]
      BY <1>0, Zenon
    <3>1. data'[c][f] = data[c][f]
      BY <1>11, Zenon DEF WritesCell
    <3> QED BY <2>0, <3>1, Zenon DEF Agrees
  <2>2. ASSUME NEW k \in 0 .. n, NEW c \in Comps, NEW f \in plan.holds[c], WrittenTo(k, c, f)'
        PROVE  data'[c][f] = S[k][c][f]
    <3>0. f \in Entities /\ k \in 0 .. Len(plan.systems)
      BY <1>4, <1>5, <2>2, TickFacts, Zenon
    <3>a. \A w \in Systems : c \in System(w).writes => (w <= k <=> Executed(w, f)')
      <4>1. \A w : System(w)' = System(w)
        BY <1>0, Zenon DEF System
      <4> QED BY <1>10, <2>2, <4>1, Zenon DEF WrittenTo
    <3>1. CASE f = e /\ c \in System(i).writes
      <4>1. WritesCell(i, c, e) /\ data'[c][f] = v
        BY <1>11, <2>2, <3>0, <3>1, Zenon DEF WritesCell
      <4>2. v = ValueAt(S[i - 1], S[i], i, q0)
        BY <1>0, <1>9, <1>a, <1>b, <1>c, <2>0, Zenon DEF Agrees, i, es
      <4>3. S[i][c][e] = ValueAt(S[i - 1], S[i], i, q0)
        <5>1. \A j \in 1 .. n : \A q \in 1 .. Len(System(j).entities), b \in Comps :
                 WritesCell(j, b, System(j).entities[q]) =>
                    S[j][b][System(j).entities[q]] = ValueAt(S[j - 1], S[j], j, q)
          BY <1>3, <1>4, <1>5, <1>14, SerialFacts, SMTT(20)
        <5> QED BY <1>3, <1>5, <1>9, <4>1, <5>1, Zenon DEF es
      <4>4. i <= k
        BY <1>3, <1>12, <3>1, <3>a, Zenon
      <4>5. ASSUME NEW w \in 1 .. n, i < w, w <= k PROVE ~ WritesCell(w, c, e)
        <5> SUFFICES ASSUME c \in System(w).writes PROVE FALSE
          BY Zenon DEF WritesCell
        <5>1. w # i /\ ~ (w < i) /\ w \in Systems /\ i \in 1 .. n
          BY <1>3, <1>5, <4>5
        <5>2. Executed(w, f)
          BY <1>12, <3>a, <4>5, <5>1, Zenon
        <5>3. Conflicts(i, w)
          BY <1>3, <3>1, <5>1, CollisionsConflict, Zenon DEF Good, Collide
        <5>4. Executed(w, f) <=> w < i
          BY <1>3, <5>1, <5>3, OthersExecuted, Zenon
        <5> QED BY <5>1, <5>2, <5>4, Zenon
      <4>6. S[k][c][e] = S[i][c][e]
        <5>1. i \in 0 .. n
          BY <1>3, <1>5
        <5>2. \A w \in 1 .. n : i < w /\ w <= k => ~ WritesCell(w, c, e)
          BY <4>5, Zenon
        <5> QED BY <1>3, <1>4, <1>5, <1>8, <1>14, <4>4, <5>1, <5>2, SerialKeeps
      <4> QED BY <3>1, <4>1, <4>2, <4>3, <4>6, Zenon
    <3>2. CASE ~ (f = e /\ c \in System(i).writes)
      <4>1. data'[c][f] = data[c][f]
        BY <1>11, <3>0, <3>2, Zenon DEF WritesCell
      <4>2. WrittenTo(k, c, f)
        BY <1>12, <3>2, <3>a, Zenon DEF WrittenTo
      <4> QED BY <2>0, <2>2, <3>0, <4>1, <4>2, Zenon DEF Agrees
    <3> QED BY <3>1, <3>2, Zenon
  <2>3. \A k \in 0 .. Len(plan'.systems), c \in Comps : \A f \in plan'.holds[c] :
           WrittenTo(k, c, f)' => data'[c][f] = S[k][c][f]
    BY <1>0, <1>5, <2>2, Zenon
  <2>4. ASSUME NEW u \in DOMAIN tasks', NEW q \in 1 .. Len(System(u[1])'.entities), tasks'[u].pc = "write",
               System(u[1])'.entities[q] = Shard(u)'[tasks'[u].at]
        PROVE  tasks'[u].new = ValueAt(S[u[1] - 1], S[u[1]], u[1], q)'
    <3>1. System(u[1])' = System(u[1])
      BY <1>0, Zenon DEF System
    <3>2. u \in DOMAIN tasks /\ tasks'[u] = tasks[u]
      <4>1. "run" # "write"
        BY Zenon
      <4> QED BY <1>1, <2>4, <4>1, Zenon
    <3>3. tasks[u].pc = "write" /\ q \in 1 .. Len(System(u[1]).entities) /\ System(u[1]).entities[q] = Shard(u)[tasks[u].at]
      BY <1>10, <2>4, <3>1, <3>2, Zenon
    <3>4. tasks[u].new = ValueAt(S[u[1] - 1], S[u[1]], u[1], q)
      BY <2>0, <3>2, <3>3, Zenon DEF Agrees
    <3> QED BY <1>10, <3>2, <3>4, Zenon
  <2> QED BY <2>1, <2>3, <2>4, Zenon DEF Agrees
<1>15. IsData(data)' /\ IsData(before)'
    BY <1>0, <1>4, <1>11, Zenon DEF IsData
<1> QED BY <1>0, <1>1, <1>10, <1>13, <1>14, <1>15, Zenon DEF TickInv

\* When the tasks of a level have returned without an error, its systems are done with
\* the entities they write.
LEMMA LevelCompletes ==
    ASSUME SchedInv, TickInv, level > 0, LevelDone, ~ Failed,
           NEW w \in Systems, NEW c \in System(w).writes, NEW e \in plan.holds[c]
    PROVE  Executed(w, e) <=> levels[w] <= level
<1>0. Scheduled /\ \A t \in DOMAIN tasks : TaskOK(t)
    BY Zenon DEF SchedInv, TasksOfLevel, TickInv
<1>1. level \in Nat /\ levels[w] \in Nat
    BY <1>0, TickFacts, Zenon
<1>2. PICK q \in 1 .. Len(System(w).entities) : System(w).entities[q] = e
    BY <1>0, TickFacts, Zenon
<1>3. \A t \in DOMAIN tasks : levels[t[1]] = level
    BY TaskFacts, Zenon
<1>4. CASE levels[w] < level
  <2>1. levels[w] <= level
    BY <1>1, <1>4
  <2> QED BY <1>4, <2>1, Zenon DEF Executed
<1>5. CASE levels[w] = level
  <2>1. PICK t \in DOMAIN tasks : t[1] = w /\ \E p \in 1 .. Len(Shard(t)) : Shard(t)[p] = System(w).entities[q]
    BY <1>5, TaskCovers, Zenon
  <2>2. PICK p \in 1 .. Len(Shard(t)) : Shard(t)[p] = e
    BY <1>2, <2>1, Zenon
  <2>3. tasks[t].pc = "ok"
    BY Zenon DEF LevelDone, Done, Failed
  <2>4. tasks[t].at \in Nat /\ tasks[t].at > Len(Shard(t)) /\ Len(Shard(t)) \in Nat
    BY <1>0, <2>3, TaskShard, Zenon DEF TaskOK
  <2>5. p < tasks[t].at
    BY <2>4
  <2>6. levels[w] <= level
    BY <1>1, <1>5
  <2> QED BY <2>1, <2>2, <2>5, <2>6, Zenon DEF Executed
<1>6. CASE levels[w] > level
  <2>1. ~ (levels[w] < level) /\ levels[w] # level /\ ~ (levels[w] <= level)
    BY <1>1, <1>6
  <2> QED BY <1>3, <2>1, Zenon DEF Executed
<1> QED BY <1>1, <1>4, <1>5, <1>6

\* A level that begins: nothing of it is executed.
LEMMA FreshLevel ==
    ASSUME SchedInv, Scheduled, NEW l \in Nat, level' = l, tasks' = NewTasks(l), UNCHANGED <<plan, levels>>
    PROVE  /\ \A w, e : Executed(w, e)' <=> levels[w] < l
           /\ \A t \in DOMAIN tasks' : TaskOK(t)' /\ tasks'[t].pc = "ready"
<1>1. \A t \in DOMAIN tasks' : tasks'[t].pc = "ready" /\ tasks'[t].at = 1
    BY Zenon DEF NewTasks
<1>2. \A m : \A p \in 1 .. m : ~ (p < 1)
    OBVIOUS
<1>3. \A w, e : Executed(w, e)' <=> levels[w] < l
    BY <1>1, <1>2, Zenon DEF Executed
<1>4. \A t \in DOMAIN tasks' : TaskOK(t)'
    BY <1>1 DEF TaskOK
<1> QED BY <1>1, <1>3, <1>4, Zenon

\* The next level begins when all that the levels so far write is written.
LEMMA LevelKeeps ==
    ASSUME SchedInv, TickInv, NextLevel, UNCHANGED before
    PROVE  TickInv'
<1>0. UNCHANGED <<plan, levels, data, before>> /\ level > 0 /\ LevelDone /\ ~ Failed
      /\ level' = level + 1 /\ tasks' = NewTasks(level + 1)
    BY Zenon DEF NextLevel
<1>1. Scheduled
    BY <1>0, Zenon DEF SchedInv, TasksOfLevel
<1>2. level \in Nat /\ \A w \in Systems : levels[w] \in Nat
    BY <1>1, TickFacts, Zenon
<1>3. /\ \A w, e : Executed(w, e)' <=> levels[w] < level + 1
      /\ \A t \in DOMAIN tasks' : TaskOK(t)' /\ tasks'[t].pc = "ready"
  <2>1. PICK l \in Nat : l = level + 1
    BY <1>2
  <2>2. /\ \A w, e : Executed(w, e)' <=> levels[w] < l
        /\ \A t \in DOMAIN tasks' : TaskOK(t)' /\ tasks'[t].pc = "ready"
    BY <1>0, <1>1, <2>1, FreshLevel, Zenon
  <2> QED BY <2>1, <2>2, Zenon
<1>4. Systems' = Systems /\ (\A S, d : SerialRun(S, d)' <=> SerialRun(S, d)) /\ \A w : System(w)' = System(w)
    BY <1>0, SamePlanFacts, Zenon DEF System
<1>5. ASSUME NEW w \in Systems, NEW c \in System(w).writes, NEW e \in plan.holds[c]
      PROVE  Executed(w, e)' <=> Executed(w, e)
  <2>1. levels[w] < level + 1 <=> levels[w] <= level
    BY <1>2
  <2>2. Executed(w, e) <=> levels[w] <= level
    BY <1>0, LevelCompletes, Zenon
  <2> QED BY <1>3, <2>1, <2>2, Zenon
<1>6. ASSUME NEW S, SerialRun(S, before) PROVE Agrees(S)'
  <2>1. Agrees(S)
    BY <1>0, <1>6, Zenon DEF TickInv
  <2>2. \A c \in Comps, e \in Entities : e \notin plan'.holds[c] => data'[c][e] = before'[c][e]
    BY <1>0, <2>1, Zenon DEF Agrees
  <2>3. ASSUME NEW k \in 0 .. Len(plan.systems), NEW c \in Comps, NEW e \in plan.holds[c], WrittenTo(k, c, e)'
        PROVE  data[c][e] = S[k][c][e]
    <3>1. \A w \in Systems : c \in System(w).writes => (w <= k <=> Executed(w, e)')
      BY <1>4, <2>3, Zenon DEF WrittenTo
    <3>2. WrittenTo(k, c, e)
      BY <1>5, <3>1, Zenon DEF WrittenTo
    <3> QED BY <2>1, <3>2, Zenon DEF Agrees
  <2>4. \A k \in 0 .. Len(plan'.systems), c \in Comps : \A e \in plan'.holds[c] :
           WrittenTo(k, c, e)' => data'[c][e] = S[k][c][e]
    <3> SUFFICES ASSUME NEW k \in 0 .. Len(plan'.systems), NEW c \in Comps, NEW e \in plan'.holds[c],
                        WrittenTo(k, c, e)'
                 PROVE  data'[c][e] = S[k][c][e]
      BY Zenon
    <3>1. k \in 0 .. Len(plan.systems) /\ e \in plan.holds[c] /\ data' = data
      BY <1>0, Zenon
    <3> QED BY <2>3, <3>1, Zenon
  <2>5. \A t \in DOMAIN tasks' : tasks'[t].pc # "write"
    BY <1>3, Zenon
  <2> QED BY <2>2, <2>4, <2>5, Zenon DEF Agrees
<1>7. IsData(data)' /\ IsData(before)'
    BY <1>0, Zenon DEF TickInv, IsData
<1> QED BY <1>0, <1>3, <1>4, <1>6, <1>7, Zenon DEF TickInv

\* A tick begins where its serial run does.
LEMMA BeginKeeps ==
    ASSUME SchedInv, TickInv, TickBegins, before' = data
    PROVE  TickInv'
<1>0. UNCHANGED <<plan, levels, data>> /\ Scheduled /\ level' = 1 /\ tasks' = NewTasks(1)
    BY Zenon DEF TickBegins
<1>1. PICK n \in Nat : n = Len(plan.systems) /\ Systems = 1 .. n
    BY <1>0, TickFacts, Zenon
<1>2. Good /\ (\A w \in Systems : levels[w] \in Nat \ {0}) /\ \A c \in Comps : plan.holds[c] \subseteq Entities
    BY <1>0, TickFacts, Zenon
<1>3. /\ \A w, e : Executed(w, e)' <=> levels[w] < 1
      /\ \A t \in DOMAIN tasks' : TaskOK(t)' /\ tasks'[t].pc = "ready"
  <2>1. PICK l \in Nat : l = 1
    BY Zenon
  <2>2. /\ \A w, e : Executed(w, e)' <=> levels[w] < l
        /\ \A t \in DOMAIN tasks' : TaskOK(t)' /\ tasks'[t].pc = "ready"
    BY <1>0, <2>1, FreshLevel, Zenon
  <2> QED BY <2>1, <2>2, Zenon
<1>4. Systems' = Systems /\ (\A S, d : SerialRun(S, d)' <=> SerialRun(S, d)) /\ \A w : System(w)' = System(w)
    BY <1>0, SamePlanFacts, Zenon DEF System
<1>5. IsData(data) /\ IsData(data)' /\ IsData(before)'
    BY <1>0, Zenon DEF TickInv, IsData
<1>6. ASSUME NEW S, SerialRun(S, data) PROVE Agrees(S)'
  <2>1. \A c \in Comps, e \in Entities : e \notin plan'.holds[c] => data'[c][e] = before'[c][e]
    BY <1>0, Zenon
  <2>2. ASSUME NEW k \in 0 .. n, NEW c \in Comps, NEW e \in plan.holds[c], WrittenTo(k, c, e)'
        PROVE  data[c][e] = S[k][c][e]
    <3>1. \A w \in 1 .. n : 0 < w /\ w <= k => ~ WritesCell(w, c, e)
      <4> SUFFICES ASSUME NEW w \in 1 .. n, w <= k, c \in System(w).writes PROVE FALSE
        BY Zenon DEF WritesCell
      <4>1. w \in Systems /\ ~ (levels[w] < 1)
        BY <1>1, <1>2
      <4>2. Executed(w, e)'
        BY <1>4, <2>2, <4>1, Zenon DEF WrittenTo
      <4> QED BY <1>3, <4>1, <4>2, Zenon
    <3>2. 0 \in 0 .. n /\ 0 <= k /\ e \in Entities
      BY <1>2
    <3>3. S[k][c][e] = S[0][c][e]
      BY <1>1, <1>2, <1>5, <1>6, <3>1, <3>2, SerialKeeps
    <3>4. S[0] = data
      BY <1>6, Zenon DEF SerialRun
    <3> QED BY <3>3, <3>4, Zenon
  <2>3. \A k \in 0 .. Len(plan'.systems), c \in Comps : \A e \in plan'.holds[c] :
           WrittenTo(k, c, e)' => data'[c][e] = S[k][c][e]
    <3> SUFFICES ASSUME NEW k \in 0 .. Len(plan'.systems), NEW c \in Comps, NEW e \in plan'.holds[c],
                        WrittenTo(k, c, e)'
                 PROVE  data'[c][e] = S[k][c][e]
      BY Zenon
    <3>1. k \in 0 .. n /\ e \in plan.holds[c] /\ data' = data
      BY <1>0, <1>1, Zenon
    <3> QED BY <2>2, <3>1, Zenon
  <2>4. \A t \in DOMAIN tasks' : tasks'[t].pc # "write"
    BY <1>3, Zenon
  <2> QED BY <2>1, <2>3, <2>4, Zenon DEF Agrees
<1> QED BY <1>3, <1>4, <1>5, <1>6, Zenon DEF TickInv

\* A tick that succeeds ends where its serial run does.
LEMMA EndIsSerial ==
    ASSUME SchedInv, TickInv, TickSucceeds
    PROVE  data = SerialTick(before)
<1>0. level > 0 /\ LevelDone /\ ~ Failed /\ LastLevel(level)
    BY Zenon DEF TickSucceeds
<1>1. Scheduled /\ IsData(data) /\ IsData(before)
    BY <1>0, Zenon DEF SchedInv, TasksOfLevel, TickInv
<1>2. PICK n \in Nat : n = Len(plan.systems) /\ Systems = 1 .. n
    BY <1>1, TickFacts, Zenon
<1>3. /\ Good /\ DOMAIN levels = Systems /\ level \in Nat
      /\ \A c \in Comps : plan.holds[c] \subseteq Entities
    BY <1>1, TickFacts, Zenon
<1>4. PICK S : SerialRun(S, before) /\ SerialTick(before) = S[n]
    BY <1>2, <1>3, SerialTickIs, Zenon
<1>5. Agrees(S)
    BY <1>0, <1>4, Zenon DEF TickInv
<1>6. n \in 0 .. n /\ 0 \in 0 .. n /\ 0 <= n
    OBVIOUS
<1>7. ASSUME NEW c \in Comps, NEW e \in Entities PROVE data[c][e] = S[n][c][e]
  <2>1. CASE e \in plan.holds[c]
    <3>1. ASSUME NEW w \in Systems, c \in System(w).writes PROVE w <= n <=> Executed(w, e)
      <4>1. w <= n
        BY <1>2
      <4>2. levels[w] <= level
        BY <1>0, <1>3, Zenon DEF LastLevel
      <4>3. Executed(w, e) <=> levels[w] <= level
        BY <1>0, <2>1, <3>1, LevelCompletes, Zenon
      <4> QED BY <4>1, <4>2, <4>3, Zenon
    <3>2. WrittenTo(n, c, e)
      BY <3>1, Zenon DEF WrittenTo
    <3> QED BY <1>2, <1>5, <1>6, <2>1, <3>2, Zenon DEF Agrees
  <2>2. CASE e \notin plan.holds[c]
    <3>1. \A w \in 1 .. n : ~ WritesCell(w, c, e)
      BY <2>2, Zenon DEF WritesCell
    <3>2. S[n][c][e] = S[0][c][e]
      BY <1>1, <1>2, <1>3, <1>4, <1>6, <3>1, SerialKeeps
    <3>3. S[0] = before
      BY <1>4, Zenon DEF SerialRun
    <3>4. data[c][e] = before[c][e]
      BY <1>5, <2>2, Zenon DEF Agrees
    <3> QED BY <3>2, <3>3, <3>4, Zenon
  <2> QED BY <2>1, <2>2, Zenon
<1>8. IsData(S[n])
    BY <1>1, <1>2, <1>3, <1>4, <1>6, SerialFacts, Zenon
<1>9. \A c \in Comps : [e \in Entities |-> data[c][e]] = [e \in Entities |-> S[n][c][e]]
    BY <1>7, Zenon
<1>10. [c \in Comps |-> [e \in Entities |-> data[c][e]]] = [c \in Comps |-> [e \in Entities |-> S[n][c][e]]]
    BY <1>9, Zenon
<1> QED BY <1>1, <1>4, <1>8, <1>10, Zenon DEF IsData

\* Between two ticks there is little to keep.
LEMMA QuietKeeps ==
    ASSUME TickInv, UNCHANGED <<data, before>>, level' = 0, DOMAIN tasks' = {}
    PROVE  TickInv'
<1>1. IsData(data)' /\ IsData(before)'
    BY Zenon DEF TickInv, IsData
<1>2. ~ (level' > 0)
    OBVIOUS
<1> QED BY <1>1, <1>2, Zenon DEF TickInv

\* The other variables do not matter.
LEMMA TickStays ==
    ASSUME TickInv, UNCHANGED <<plan, levels, level, tasks, data, before>>
    PROVE  TickInv'
<1>1. IsData(data)' /\ IsData(before)'
    BY Zenon DEF TickInv, IsData
<1>2. /\ Systems' = Systems /\ (\A S, d : SerialRun(S, d)' <=> SerialRun(S, d))
      /\ (\A d, r, i, q : ValueAt(d, r, i, q)' = ValueAt(d, r, i, q))
      /\ (\A t : Shard(t)' = Shard(t))
    BY SamePlanFacts, Zenon
<1>3. \A w, e : Executed(w, e)' <=> Executed(w, e)
    BY <1>2, Zenon DEF Executed
<1>4. \A i, c, e : WrittenTo(i, c, e)' <=> WrittenTo(i, c, e)
    BY <1>2, <1>3, Zenon DEF WrittenTo, System
<1>5. \A t \in DOMAIN tasks' : TaskOK(t)'
    BY <1>2, Zenon DEF TickInv, TaskOK
<1>6. ASSUME NEW S, Agrees(S) PROVE Agrees(S)'
  <2>1. \A t \in DOMAIN tasks' : \A q \in 1 .. Len(plan'.systems[t[1]].entities) :
           tasks'[t].pc = "write" /\ plan'.systems[t[1]].entities[q] = Shard(t)'[tasks'[t].at] =>
              tasks'[t].new = ValueAt(S[t[1] - 1], S[t[1]], t[1], q)'
    BY <1>2, <1>6, Zenon DEF Agrees, System
  <2>2. \A c \in Comps, e \in Entities : e \notin plan'.holds[c] => data'[c][e] = before'[c][e]
    BY <1>6, Zenon DEF Agrees
  <2>3. \A k \in 0 .. Len(plan'.systems), c \in Comps : \A e \in plan'.holds[c] :
           WrittenTo(k, c, e)' => data'[c][e] = S[k][c][e]
    <3> SUFFICES ASSUME NEW k \in 0 .. Len(plan'.systems), NEW c \in Comps, NEW e \in plan'.holds[c],
                        WrittenTo(k, c, e)'
                 PROVE  data'[c][e] = S[k][c][e]
      BY Zenon
    <3>1. k \in 0 .. Len(plan.systems) /\ e \in plan.holds[c] /\ data' = data /\ WrittenTo(k, c, e)
      BY <1>4, Zenon
    <3> QED BY <1>6, <3>1, Zenon DEF Agrees
  <2> QED BY <2>1, <2>2, <2>3, Zenon DEF Agrees, System
<1> QED BY <1>1, <1>2, <1>5, <1>6, Zenon DEF TickInv

\* The steps of a task.
LEMMA TaskKeeps ==
    ASSUME SchedInv, TickInv, NEW t \in DOMAIN tasks, TaskStep(t), UNCHANGED before
    PROVE  TickInv'
<1>0. TaskOK(t)
    BY Zenon DEF TickInv
<1>1. CASE TaskStarts(t)
  <2> DEFINE k == [pc |-> "run", at |-> 1, new |-> Untouched]
  <2>1. tasks' = [tasks EXCEPT ![t] = k] /\ UNCHANGED <<plan, levels, level, data>> /\ tasks[t].at = 1
    BY <1>0, <1>1, Zenon DEF TaskStarts, TaskOK
  <2>2. k.pc = "run" /\ k.at = 1
    BY Zenon
  <2> HIDE DEF k
  <2> QED BY <2>1, <2>2, TaskTurns, Zenon
<1>2. CASE TaskGivesUp(t)
  <2> DEFINE k == [pc |-> "error", at |-> 1, new |-> Untouched]
  <2>1. tasks' = [tasks EXCEPT ![t] = k] /\ UNCHANGED <<plan, levels, level, data>> /\ tasks[t].at = 1
    BY <1>0, <1>2, Zenon DEF TaskGivesUp, TaskOK
  <2>2. k.pc = "error" /\ k.at = 1
    BY Zenon
  <2> HIDE DEF k
  <2> QED BY <2>1, <2>2, TaskTurns, Zenon
<1>3. CASE TaskReads(t)
  <2> DEFINE k == [pc |-> "write", at |-> tasks[t].at, new |-> Computed(data, t[1], Shard(t), tasks[t].at)]
  <2>1. tasks' = [tasks EXCEPT ![t] = k] /\ UNCHANGED <<plan, levels, level, data>> /\ tasks[t].at <= Len(Shard(t))
    BY <1>3, Zenon DEF TaskReads
  <2>2. k.pc = "write" /\ k.at = tasks[t].at /\ k.new = Computed(data, t[1], Shard(t), tasks[t].at)
    BY Zenon
  <2>3. PICK x : x = k
    BY Zenon
  <2> HIDE DEF k
  <2> QED BY <2>1, <2>2, <2>3, TaskTurns, Zenon
<1>4. CASE TaskWrites(t)
    BY <1>4, WriteKeeps, Zenon
<1>5. CASE TaskReturns(t)
  <2>1. PICK pc \in {"ok", "error", "failed"} :
           /\ pc = "ok" => tasks[t].at > Len(Shard(t))
           /\ tasks' = [tasks EXCEPT ![t] = [pc |-> pc, at |-> tasks[t].at, new |-> Untouched]]
    BY <1>5, Zenon DEF TaskReturns
  <2>2. UNCHANGED <<plan, levels, level, data>>
    BY <1>5, Zenon DEF TaskReturns
  <2>3. PICK k : k = [pc |-> pc, at |-> tasks[t].at, new |-> Untouched]
    BY Zenon
  <2>4. k.pc = pc /\ k.at = tasks[t].at
    BY <2>3, Zenon
  <2>5. tasks' = [tasks EXCEPT ![t] = k]
    BY <2>1, <2>3, Zenon
  <2> QED BY <2>1, <2>2, <2>4, <2>5, TaskTurns, Zenon
<1>6. CASE TaskReports(t)
  <2>1. UNCHANGED <<plan, levels, level, data>>
    BY <1>6, Zenon DEF TaskReports
  <2>2. PICK k : k = [pc |-> "failed", at |-> tasks[t].at, new |-> Untouched]
    BY Zenon
  <2>3. k.pc = "failed" /\ k.at = tasks[t].at
    BY <2>2, Zenon
  <2>4. tasks' = [tasks EXCEPT ![t] = k]
    BY <1>6, <2>2, Zenon DEF TaskReports
  <2> QED BY <2>1, <2>3, <2>4, TaskTurns, Zenon
<1> QED BY <1>1, <1>2, <1>3, <1>4, <1>5, <1>6, Zenon DEF TaskStep

\* What the steps of the executor are for the scheduler.
LEMMA StepsOfTheScheduler ==
    ASSUME [Next]_vars
    PROVE  [SchedNext]_schedVars
<1>1. CASE Assign
    BY <1>1, Zenon DEF Assign, SchedNext
<1>2. CASE BeginTick
    BY <1>2, Zenon DEF BeginTick, SchedNext
<1>3. CASE InTick
    BY <1>3, Zenon DEF InTick, SchedNext
<1>4. CASE AbortTick
    BY <1>4, Zenon DEF AbortTick, SchedNext
<1>5. CASE EndTick
    BY <1>5, Zenon DEF EndTick, SchedNext
<1>6. CASE Schedule \/ RegisterPayload \/ Initialized \/ ModelStep \/ EventStep \/ EventTooLate \/ EventHandled
    BY <1>6, Zenon DEF Schedule, RegisterPayload, Initialized, ModelStep, EventStep, EventTooLate,
       EventHandled
<1>7. CASE Save \/ Load \/ Rebuild \/ UNCHANGED vars
    BY <1>7, Zenon DEF Save, Load, Rebuild, vars
<1> QED BY <1>1, <1>2, <1>3, <1>4, <1>5, <1>6, <1>7, Zenon DEF Next

\* Every step keeps the invariant of the tick.
LEMMA NextTickInv == SchedInv /\ TickInv /\ [Next]_vars => TickInv'
<1> SUFFICES ASSUME SchedInv, TickInv, [Next]_vars PROVE TickInv'
    BY Zenon
<1>1. ASSUME UNCHANGED <<schedVars, before>> PROVE TickInv'
    BY <1>1, TickStays, Zenon DEF schedVars
<1>2. CASE Assign
  <2>1. AssignLevel /\ UNCHANGED before
    BY <1>2, Zenon DEF Assign, tickVars
  <2>2. level = 0 /\ DOMAIN tasks = {}
    <3>1. Len(levels) + 1 \in 1 .. Len(plan.systems) /\ Len(levels) \in Nat
      BY <2>1, PlanSystems DEF AssignLevel, SchedInv, LevelsApart
    <3>2. ~ Scheduled
      BY <3>1, PlanSystems DEF Scheduled, SchedInv, LevelsApart
    <3> QED BY <3>2 DEF SchedInv, TasksOfLevel
  <2>3. level' = 0 /\ DOMAIN tasks' = {} /\ UNCHANGED data
    BY <2>1, <2>2, Zenon DEF AssignLevel
  <2> QED BY <2>1, <2>3, QuietKeeps, Zenon
<1>3. CASE BeginTick
    BY <1>3, BeginKeeps, Zenon DEF BeginTick
<1>4. CASE InTick
  <2>1. UNCHANGED before
    BY <1>4, Zenon DEF InTick, tickVars
  <2>2. CASE NextLevel
    BY <2>1, <2>2, LevelKeeps, Zenon
  <2>3. CASE Cancel \/ \E i \in DOMAIN levels : SystemReports(i)
    BY <2>1, <2>3, TickStays, Zenon DEF Cancel, SystemReports
  <2>4. CASE \E t \in DOMAIN tasks : TaskStep(t)
    BY <2>1, <2>4, TaskKeeps, Zenon
  <2>5. CASE \E t \in DOMAIN tasks : TaskPanics(t)
    BY <2>1, <2>5, TickStays, Zenon DEF TaskPanics
  <2> QED BY <1>4, <2>2, <2>3, <2>4, <2>5, Zenon DEF InTick
<1>5. CASE AbortTick \/ EndTick
  <2>1. UNCHANGED before
    BY <1>5, Zenon DEF AbortTick, EndTick, tickVars
  <2>2. level' = 0 /\ tasks' = <<>> /\ UNCHANGED data
    BY <1>5, Zenon DEF AbortTick, EndTick, TickFails, TickPanics, TickSucceeds
  <2>3. DOMAIN tasks' = {}
    BY <2>2
  <2> QED BY <2>1, <2>2, <2>3, QuietKeeps, Zenon
<1>6. CASE Schedule \/ RegisterPayload \/ Initialized \/ ModelStep \/ EventStep \/ EventTooLate \/ EventHandled
    BY <1>1, <1>6, Zenon
       DEF Schedule, RegisterPayload, Initialized, ModelStep, EventStep, EventTooLate,
          EventHandled, tickVars
<1>7. CASE Save \/ Load \/ Rebuild \/ UNCHANGED vars
    BY <1>1, <1>7, Zenon DEF Save, Load, Rebuild, vars, tickVars
<1> QED BY <1>2, <1>3, <1>4, <1>5, <1>6, <1>7, Zenon DEF Next

\* Every step that moves the clock while a step of the run is under way is the end of a tick.
LEMMA TicksEndSerially ==
    ASSUME SchedInv, TickInv, [Next]_vars, tick' # tick, phase = "step"
    PROVE  tick' = tick + 1 /\ data' = SerialTick(before)
<1>1. CASE EndTick
    BY <1>1, EndIsSerial, Zenon DEF EndTick, TickSucceeds
<1>2. CASE Assign \/ Schedule \/ RegisterPayload \/ Initialized \/ EventStep \/ EventTooLate \/ EventHandled
    BY <1>2, Zenon
       DEF Assign, Schedule, RegisterPayload, Initialized, EventStep, EventTooLate, EventHandled,
          clockVars
<1>3. CASE BeginTick \/ InTick \/ AbortTick
    BY <1>3, Zenon DEF BeginTick, InTick, AbortTick, clockVars
<1>4. CASE ModelStep \/ Save \/ Load \/ Rebuild
  <2>1. phase = "idle"
    BY <1>4, Zenon DEF ModelStep, Save, Load, Rebuild
  <2> QED BY <2>1, Zenon
<1>5. CASE UNCHANGED vars
    BY <1>5, Zenon DEF vars, clockVars
<1> QED BY <1>1, <1>2, <1>3, <1>4, <1>5, Zenon DEF Next

\* The first state.
LEMMA InitTickInv == InitScheduler /\ before = data => TickInv
<1> SUFFICES ASSUME InitScheduler, before = data PROVE TickInv
    BY Zenon
<1>1. data = [c \in Comps |-> [e \in Entities |-> Untouched]] /\ tasks = <<>> /\ level = 0
    BY Zenon DEF InitScheduler
<1>2. IsData(data)
    BY <1>1, Zenon DEF IsData
<1>3. DOMAIN tasks = {} /\ ~ (level > 0)
    BY <1>1
<1> QED BY <1>2, <1>3, Zenon DEF TickInv

-----------------------------------------------------------------------------
(* The theorems about the tick *)

(* The first state has no tick under way. *)
LEMMA InitSchedInv == InitScheduler /\ Disciplined => SchedInv
<1> SUFFICES ASSUME InitScheduler, Disciplined PROVE SchedInv
    OBVIOUS
<1>1. Good /\ levels = <<>> /\ level = 0 /\ tasks = <<>>
    BY Zenon DEF InitScheduler, Good
<1>2. Len(plan.systems) \in Nat
    BY <1>1, PlanSystems, Zenon
<1>3. LevelsApart
    BY <1>1, <1>2 DEF LevelsApart
<1>4. DOMAIN tasks = {}
    BY <1>1
<1> QED
    BY <1>1, <1>3, <1>4 DEF SchedInv, TasksOfLevel

\* No step changes the plan.
LEMMA PlanStays ==
    ASSUME [Next]_vars
    PROVE  UNCHANGED plan
<1>1. [SchedNext]_schedVars
    BY StepsOfTheScheduler, Zenon
<1>2. ASSUME NEW t, TaskStep(t) \/ TaskPanics(t) \/ TickPanics(t) PROVE UNCHANGED plan
    BY <1>2, Zenon
       DEF TaskStep, TaskStarts, TaskGivesUp, TaskReads, TaskWrites, TaskReturns, TaskReports, TaskPanics, TickPanics
<1> QED BY <1>1, <1>2, Zenon
       DEF SchedNext, AssignLevel, TickBegins, NextLevel, TickFails, TickSucceeds, Cancel, SystemReports, schedVars

\* The executor only takes steps of its scheduler.
LEMMA SchedInvHolds == Spec => [](Disciplined => SchedInv)
<1>1. (Disciplined => SchedInv) /\ [Next]_vars => (Disciplined => SchedInv)'
    BY StepsOfTheScheduler, NextKeeps, PlanStays, GoodStays, Zenon
<1>2. Init => (Disciplined => SchedInv)
    BY InitSchedInv, Zenon DEF Init
<1> QED BY <1>1, <1>2, PTL DEF Spec

(* No two concurrent tasks touch the same cell when one of them writes it: lock-free
   access in Run is safe for every model whose systems declare, when the levels are
   computed, what they will touch, and whose entity sets have no two IDs of one index. *)
THEOREM NoRaces == Spec => []RaceFree
<1>1. (Disciplined => SchedInv) => RaceFree
    BY InvIsRaceFree, Zenon DEF RaceFree
<1> QED BY <1>1, SchedInvHolds, PTL

(* For every such model, every number of workers and every interleaving of the goroutines,
   a tick that moves the clock has done what the systems do one after the other in declared
   order (systemTickExecutor, scheduler.run). *)
THEOREM SerialTicks == Spec => TicksAreSerial
<1>1. Init => (Disciplined => TickInv)
    BY InitTickInv, Zenon DEF Init
<1>2. (Disciplined => SchedInv) /\ (Disciplined => TickInv) /\ [Next]_vars => (Disciplined => TickInv)'
    BY NextTickInv, PlanStays, GoodStays, Zenon
<1>3. Spec => [](Disciplined => TickInv)
    BY <1>1, <1>2, SchedInvHolds, PTL DEF Spec
<1>4. (Disciplined => SchedInv) /\ (Disciplined => TickInv) /\ [Next]_vars =>
        [Disciplined /\ tick' # tick /\ phase = "step" => tick' = tick + 1 /\ data' = SerialTick(before)]_vars
    BY TicksEndSerially, Zenon
<1> QED BY <1>3, <1>4, SchedInvHolds, PTL DEF Spec, TicksAreSerial
=============================================================================
