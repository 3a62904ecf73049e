--------------------------- MODULE PessimisticProofs --------------------------
(***************************************************************************)
(* Proofs about Pessimistic, for the programs whose rules are orderly and  *)
(* one for each constraint: its inductive invariant, that everything in a  *)
(* match is claimed, that its checklists stay tidy, that the callers of    *)
(* sync are served, and that it refines the multiset rewriting of CHR.     *)
(***************************************************************************)
EXTENDS Pessimistic, EngineProofs

\* Where the search looks at an entry of a bucket.
Looking == {"pending", "claims", "claim", "sawclaims", "sawpending"}

\* A thread has no checklist outside of a match.  While it seeks partners it has
\* claimed all that it has matched, the goal first; the places to go back to are of
\* partners, each there once.  A rollback gives the uses back in order.
SeekInv(t) ==
  /\ pc[t] \notin Matching => list[t] = NoList
  /\ held[t] \subseteq DOMAIN list[t].used
  /\ pc[t] \in Matching =>
       Tidy(list[t]) /\ Led(list[t], Goal(t)) /\ Accepts(list[t].rule, Goal(t))
  /\ pc[t] \in Seeking => /\ held[t] = DOMAIN list[t].used
                          /\ Stacked(list[t], cur[t].stack) /\ Partners(cur[t].stack, Goal(t))
  /\ pc[t] \in Looking => Facing(t) /\ Convenient(list[t].rule, list[t].m, Here(t))
  /\ pc[t] = "undo" => cur[t].stack # << >>
  /\ pc[t] = "rollback" =>
       cur[t].at \in DOMAIN list[t].used /\ held[t] = cur[t].at..Len(list[t].used)

PInv == EngineInv /\ \A t \in Thread : SeekInv(t)

\* The step of another thread does not disturb a search.
LEMMA OtherSeeks ==
  ASSUME TypeOK, TypeOK', NEW u \in Thread, ThreadInv(u), SeekInv(u), Same(u), Grown, Longer
  PROVE  SeekInv(u)'
<1>1. PICK l : l = list[u]  OBVIOUS
<1>2. PICK c : c = cur[u]  OBVIOUS
<1>3. /\ list'[u] = l /\ cur'[u] = c /\ pc'[u] = pc[u] /\ held'[u] = held[u]
      /\ Goal(u)' = Goal(u)
  BY <1>1, <1>2 DEF Same, Goal
<1>4. ASSUME pc[u] \in Matching
      PROVE  Tidy(l)' /\ Accepts(l.rule, Goal(u))' /\ Led(l, Goal(u))
  <2>1. GoodList(l) /\ Tidy(l) /\ Led(l, Goal(u)) /\ Accepts(l.rule, Goal(u))
    BY <1>1, <1>4 DEF ThreadInv, SeekInv
  <2>2. Tidy(l)' /\ Goal(u) \in Known  BY <2>1, SearchStable, LedMatched
  <2>3. con'[Goal(u)] = con[Goal(u)]  BY <2>2 DEF Grown
  <2> QED  BY <1>3, <2>1, <2>2, <2>3 DEF Accepts
<1>5. ASSUME pc[u] \in Looking
      PROVE  Facing(u)' /\ Convenient(list[u].rule, list[u].m, Here(u))'
  <2>1. PICK s : s = Here(u)  OBVIOUS
  <2>2. Facing(u) /\ Convenient(l.rule, l.m, s)  BY <1>1, <1>5, <2>1 DEF SeekInv
  <2>3. Here(u)' = s /\ Facing(u)' /\ s \in Known  BY <2>1, <2>2, HereStays, HereKnown
  <2>4. GoodList(l) /\ Tidy(l)  BY <1>1, <1>5 DEF ThreadInv, SeekInv, Looking, Matching
  <2>5. Convenient(l.rule, l.m, s)'  BY <2>2, <2>3, <2>4, SearchStable
  <2> QED  BY <1>3, <2>3, <2>5
<1>6. pc[u] \in Seeking => Stacked(l, c.stack)'
  <2>1. Stacked(l, c.stack) => Stacked(l, c.stack)'
    BY DEF Stacked, InMatch, Heads, Apart, DistinctNames, HeadName, Matched
  <2> QED  BY <1>1, <1>2, <2>1 DEF SeekInv
<1>7. /\ Tidy(l)' => Tidy(list[u])'
      /\ Accepts(l.rule, Goal(u))' => Accepts(list[u].rule, Goal(u))'
      /\ Stacked(l, c.stack)' => Stacked(list[u], cur[u].stack)'
  BY <1>3
<1>8. Led(l, Goal(u)) => Led(list[u], Goal(u))'  BY <1>3 DEF Led
<1>9. pc[u] \in Seeking => Partners(cur[u].stack, Goal(u))'
  BY <1>2, <1>3 DEF SeekInv, Partners
<1>10. /\ pc[u] \notin Matching => l = NoList
       /\ held[u] \subseteq DOMAIN l.used
       /\ pc[u] \in Seeking => held[u] = DOMAIN l.used
       /\ pc[u] = "undo" => c.stack # << >>
       /\ pc[u] = "rollback" => c.at \in DOMAIN l.used /\ held[u] = c.at..Len(l.used)
  BY <1>1, <1>2 DEF SeekInv
<1>11. NoList' = NoList  BY DEF NoList
<1> QED  BY <1>3, <1>4, <1>5, <1>6, <1>7, <1>8, <1>9, <1>10, <1>11 DEF SeekInv

\* A step of thread t keeps the invariant if it keeps what is said of t.
LEMMA SeekStep ==
  ASSUME PInv, EngineInv', NEW t \in Thread, Frame(t), Grown, Longer, SeekInv(t)'
  PROVE  PInv'
<1>1. \A u \in Thread \ {t} : SeekInv(u)'  BY OtherSeeks DEF PInv, EngineInv, Frame
<1> QED  BY <1>1 DEF PInv

LEMMA SameBuckets ==
  ASSUME TypeOK, bucket' = bucket PROVE Longer
<1>1. \A k \in Buckets : Len(bucket[k]) \in Nat  BY LenProperties DEF TypeOK
<1> QED  BY <1>1 DEF Longer

\* Outside of a match there is nothing to say.
LEMMA SeekNothing ==
  ASSUME NEW t \in Thread, pc'[t] \notin Matching, list'[t] = NoList, held'[t] = {}
  PROVE  SeekInv(t)'
BY DEF SeekInv, Matching, Seeking, Looking, NoList

(***************************************************************************)
(* A constraint has one rule: a goal has that rule before it, and when it  *)
(* has failed no other.                                                    *)
(***************************************************************************)
LEMMA RulesOnce ==
  ASSUME OneRule, TypeOK, NEW t \in Thread, Goal(t) # None
  PROVE  /\ list[t] = NoList => RulesAfter(t) # {}
         /\ list[t].rule \in RuleId /\ Accepts(list[t].rule, Goal(t)) => RulesAfter(t) = {}
<1>1. Goal(t) \in Known  BY DEF TypeOK, Goal, Job, Maybe
<1>2. con[Goal(t)] \in Con  BY <1>1, ElementOfSeq, LenProperties DEF TypeOK, Known
<1>3. PICK r \in RuleId :
        {q \in RuleId : \E h \in Heads(q) : HeadName(q, h) = con[Goal(t)].name} = {r}
  BY <1>2 DEF OneRule
<1>4. \A q \in RuleId : Accepts(q, Goal(t)) <=> q = r  BY <1>3 DEF Accepts
<1>5. \A q \in RuleId : q \in Nat \ {0}
  <2>1. RuleId = 1..Len(Rules) /\ Len(Rules) \in Nat
    BY RulesAssumption, LenProperties DEF RuleId
  <2> QED  BY <2>1
<1>6. list[t] = NoList => r \in RulesAfter(t)
  BY <1>3, <1>4, <1>5 DEF NoList, RulesAfter
<1>7. list[t].rule \in RuleId /\ Accepts(list[t].rule, Goal(t)) => RulesAfter(t) = {}
  BY <1>4, <1>5 DEF RulesAfter
<1> QED  BY <1>6, <1>7

(***************************************************************************)
(* The steps of a search that only look: they keep the checklist and the   *)
(* claims, and move to another place, where the invariant holds again.     *)
(***************************************************************************)
Fit(t, p, d) ==
  /\ p \in Seeking \cup {"rollback"} /\ d \in Cursor
  /\ p \in Seeking => d.stack = cur[t].stack
  /\ p \in Looking => /\ d.at <= d.stop /\ d.stop <= Len(Bucket(d.bkt))
                      /\ Bucket(d.bkt)[d.at] \in Known
                      /\ Convenient(list[t].rule, list[t].m, Bucket(d.bkt)[d.at])
  /\ p = "undo" => d.stack # << >>
  /\ p = "rollback" => d.at = 1

\* The goal and how it was added stay as they are.
SameGoal(t) == /\ job' \in [Thread -> Job] /\ Goal(t)' = Goal(t) /\ job'[t].op = job[t].op
               /\ \A u \in Thread \ {t} : job'[u] = job[u]

Glance(t) ==
  /\ pc[t] \in Looking \cup {"open"}
  /\ \E p, d : Fit(t, p, d) /\ Move(t, p, list[t], d)
  /\ SameGoal(t)
  /\ UNCHANGED <<con, mod, pending, claimed, tokens, bucket, tasks, used_mode, calls, keys, held>>

LEMMA ScanFits ==
  ASSUME TypeOK, NEW t \in Thread, NEW c \in Cursor, c.stop <= Len(Bucket(c.bkt)),
         c.stack = cur[t].stack, Scan(t, c)
  PROVE  \E p, d : Fit(t, p, d) /\ Move(t, p, list[t], d)
<1>1. CASE Candidates(t, c) # {}
  <2> DEFINE d == [c EXCEPT !.at = Least(Candidates(t, c))]
  <2>1. Move(t, "pending", list[t], d)  BY <1>1 DEF Scan
  <2>2. /\ d \in Cursor /\ d.stack = c.stack
        /\ d.at <= d.stop /\ d.stop <= Len(Bucket(d.bkt))
        /\ Bucket(d.bkt)[d.at] \in Known
        /\ Convenient(list[t].rule, list[t].m, Bucket(d.bkt)[d.at])
    BY <1>1, CandidateNext
  <2> HIDE DEF d
  <2>3. Fit(t, "pending", d)  BY <2>2 DEF Fit, Seeking
  <2> QED  BY <2>1, <2>3
<1>2. CASE Candidates(t, c) = {} /\ c.stack # << >>
  <2>1. Move(t, "undo", list[t], c)  BY <1>2 DEF Scan
  <2>2. Fit(t, "undo", c)  BY <1>2 DEF Fit, Seeking, Looking
  <2> QED  BY <2>1, <2>2
<1>3. CASE Candidates(t, c) = {} /\ c.stack = << >>
  <2> DEFINE d == [c EXCEPT !.at = 1]
  <2>1. Move(t, "rollback", list[t], d)  BY <1>3 DEF Scan
  <2>2. d \in Cursor /\ d.at = 1  BY DEF Cursor
  <2> HIDE DEF d
  <2>3. Fit(t, "rollback", d)  BY <2>2 DEF Fit, Seeking, Looking
  <2> QED  BY <2>1, <2>3
<1> QED  BY <1>1, <1>2, <1>3

LEMMA ScanPastFits ==
  ASSUME TypeOK, NEW t \in Thread, Facing(t), ScanPast(t)
  PROVE  \E p, d : Fit(t, p, d) /\ Move(t, p, list[t], d)
<1>1. PICK c : c = [cur[t] EXCEPT !.at = @ + 1] /\ Scan(t, c)  BY DEF ScanPast
<1>2. c \in Cursor /\ c.stop <= Len(Bucket(c.bkt)) /\ c.stack = cur[t].stack
  BY <1>1, PassedTyped
<1> QED  BY <1>1, <1>2, ScanFits

LEMMA Glances ==
  ASSUME PInv, NEW t \in Thread,
         \/ OpenBucket(t) \/ PeekPending(t) \/ LoadClaims(t) \/ ClaimFails(t)
         \/ SawClaims(t) \/ SawPending(t)
  PROVE  Glance(t)
<1> USE DEF PInv, EngineInv
<1> DEFINE Moved == \E p, d : Fit(t, p, d) /\ Move(t, p, list[t], d)
<1>1. UNCHANGED <<con, mod, pending, claimed, tokens, bucket, tasks, used_mode, calls, keys, held>>
  BY DEF OpenBucket, PeekPending, LoadClaims, ClaimFails, SawClaims, SawPending, store
<1>2. pc[t] \in Looking \cup {"open"}
  BY DEF OpenBucket, PeekPending, LoadClaims, ClaimFails, SawClaims, SawPending, Looking
<1>3. pc[t] \in Looking =>
        /\ Facing(t) /\ cur[t] \in Cursor
        /\ \A p \in Looking : Fit(t, p, cur[t])
  <2> SUFFICES ASSUME pc[t] \in Looking, NEW p \in Looking
               PROVE  Facing(t) /\ cur[t] \in Cursor /\ Fit(t, p, cur[t])
    BY DEF Looking
  <2>1. Facing(t) /\ Convenient(list[t].rule, list[t].m, Here(t))  BY DEF SeekInv
  <2>2. cur[t] \in Cursor /\ Here(t) \in Known  BY <2>1, HereKnown
  <2> QED  BY <2>1, <2>2 DEF Fit, Facing, Here, Looking, Seeking
<1>4. /\ list = [list EXCEPT ![t] = list[t]] /\ cur = [cur EXCEPT ![t] = cur[t]]
      /\ job \in [Thread -> Job]
  BY DEF TypeOK
<1>5. job' = job => SameGoal(t)  BY <1>4 DEF SameGoal, Goal
<1>6. ASSUME NEW p \in Looking, Jump(t, p), list' = list, cur' = cur PROVE Move(t, p, list[t], cur[t])
  BY <1>4, <1>6 DEF Move
<1> HIDE DEF Moved
<1>7. CASE OpenBucket(t)
  <2>1. PICK k, c : c = Opened(t, k) /\ Scan(t, c)  BY <1>7 DEF OpenBucket
  <2>2. c \in Cursor /\ c.stop <= Len(Bucket(c.bkt)) /\ c.stack = cur[t].stack
    BY <2>1, OpenedTyped
  <2>3. Moved  BY <2>1, <2>2, ScanFits DEF Moved
  <2> QED  BY <1>1, <1>2, <1>5, <1>7, <2>3 DEF OpenBucket, Glance, Moved
<1>8. CASE PeekPending(t)
  <2>1. PICK p \in {"claim", "claims"} : Jump(t, p) /\ list' = list /\ cur' = cur /\ job' = job
    BY <1>8 DEF PeekPending
  <2>2. Moved  BY <1>3, <1>6, <1>8, <2>1 DEF Moved, PeekPending, Looking
  <2> QED  BY <1>1, <1>2, <1>5, <2>1, <2>2 DEF Glance, Moved
<1>9. CASE LoadClaims(t)
  <2>1. pc[t] \in Looking /\ job' = job  BY <1>9 DEF LoadClaims, Looking
  <2>2. CASE Move(t, "claim", list[t], cur[t])
    <3>1. Moved  BY <1>3, <2>1, <2>2 DEF Moved, Looking
    <3> QED  BY <1>1, <1>2, <1>5, <2>1, <3>1 DEF Glance, Moved
  <2>3. CASE ScanPast(t)
    <3>1. Moved  BY <1>3, <2>1, <2>3, ScanPastFits DEF Moved
    <3> QED  BY <1>1, <1>2, <1>5, <2>1, <3>1 DEF Glance, Moved
  <2> QED  BY <1>9, <2>2, <2>3 DEF LoadClaims
<1>10. CASE ClaimFails(t)
  <2>1. /\ pc[t] \in Looking /\ Jump(t, "sawclaims") /\ list' = list /\ cur' = cur /\ job' = job
    BY <1>10 DEF ClaimFails, Looking
  <2>2. Moved  BY <1>3, <1>6, <2>1 DEF Moved, Looking
  <2> QED  BY <1>1, <1>2, <1>5, <2>1, <2>2 DEF Glance, Moved
<1>11. ASSUME NEW b \in BOOLEAN, job' = [job EXCEPT ![t].saw = b] PROVE SameGoal(t)
  <2>1. job[t] \in Job  BY <1>4
  <2>2. job'[t] = [job[t] EXCEPT !.saw = b]  BY <1>4, <1>11
  <2>3. job'[t] \in Job /\ job'[t].goal = job[t].goal /\ job'[t].op = job[t].op
    BY <2>1, <2>2 DEF Job
  <2>4. job' \in [Thread -> Job] /\ \A u \in Thread \ {t} : job'[u] = job[u]
    BY <1>4, <1>11, <2>1, <2>2, <2>3
  <2> QED  BY <2>3, <2>4 DEF SameGoal, Goal
<1>12. CASE SawClaims(t)
  <2>1. pc[t] \in Looking  BY <1>12 DEF SawClaims, Looking
  <2>2. CASE job' = [job EXCEPT ![t].saw = TRUE] /\ ScanPast(t)
    <3>1. Moved  BY <1>3, <2>1, <2>2, ScanPastFits DEF Moved
    <3> QED  BY <1>1, <1>2, <1>11, <2>2, <3>1 DEF Glance, Moved
  <2>3. CASE Search(t, "sawpending", list[t], cur[t])
    <3>1. Moved  BY <1>3, <2>1, <2>3 DEF Search, Moved, Looking
    <3> QED  BY <1>1, <1>2, <1>5, <2>3, <3>1 DEF Search, Glance, Moved
  <2> QED  BY <1>12, <2>2, <2>3 DEF SawClaims
<1>13. CASE SawPending(t)
  <2> DEFINE b == job[t].saw \/ pending[Here(t)] > 0
  <2>1. job' = [job EXCEPT ![t].saw = b] /\ ScanPast(t) /\ pc[t] \in Looking
    BY <1>13 DEF SawPending, Looking
  <2>2. b \in BOOLEAN  OBVIOUS
  <2>3. Moved  BY <1>3, <2>1, ScanPastFits DEF Moved
  <2> HIDE DEF b
  <2> QED  BY <1>1, <1>2, <1>11, <2>1, <2>2, <2>3 DEF Glance, Moved
<1> QED  BY <1>7, <1>8, <1>9, <1>10, <1>12, <1>13

LEMMA GlanceEffect ==
  ASSUME PInv, NEW t \in Thread, Glance(t)
  PROVE  /\ TypeOK' /\ Frame(t) /\ Grown /\ Longer
         /\ list'[t] = list[t] /\ held[t] = DOMAIN list[t].used /\ held' = held
         /\ Fit(t, pc'[t], cur'[t])
<1> USE DEF PInv, EngineInv
<1>1. PICK p, d : Fit(t, p, d) /\ Move(t, p, list[t], d)  BY DEF Glance
<1>2. p \in PC /\ d \in Cursor /\ list[t] \in List
  BY <1>1 DEF Fit, Seeking, PC, TypeOK
<1>3. /\ pc' \in [Thread -> PC] /\ list' \in [Thread -> List] /\ cur' \in [Thread -> Cursor]
      /\ pc'[t] = p /\ list'[t] = list[t] /\ cur'[t] = d
      /\ \A u \in Thread \ {t} : pc'[u] = pc[u] /\ list'[u] = list[u] /\ cur'[u] = cur[u]
  BY <1>1, <1>2, MoveEffect
<1>4. Frame(t) /\ Grown /\ Longer  BY <1>3, SameTypes, SameBuckets DEF Glance, SameGoal, Frame, Same
<1>5. TypeOK'  BY <1>3, SameTypes DEF Glance, SameGoal, TypeOK
<1>6. held[t] = DOMAIN list[t].used  BY DEF Glance, SeekInv, Looking, Seeking
<1> QED  BY <1>1, <1>3, <1>4, <1>5, <1>6 DEF Glance

LEMMA GlanceInv ==
  ASSUME PInv, NEW t \in Thread, Glance(t)
  PROVE  PInv'
<1> USE DEF PInv, EngineInv
<1>1. /\ TypeOK' /\ Frame(t) /\ Grown /\ Longer
      /\ list'[t] = list[t] /\ held[t] = DOMAIN list[t].used /\ held' = held
      /\ Fit(t, pc'[t], cur'[t])
  BY GlanceEffect
<1>2. PICK l : l = list[t]  OBVIOUS
<1>3. PICK d : d = cur'[t]  OBVIOUS
<1>4. /\ Goal(t) # None /\ GoodList(l) /\ Tidy(l) /\ Led(l, Goal(t)) /\ Accepts(l.rule, Goal(t))
      /\ Stacked(l, cur[t].stack) /\ Partners(cur[t].stack, Goal(t)) /\ IsFiniteSet(held[t])
  BY <1>2 DEF Glance, ThreadInv, SeekInv, Matching, Seeking, Looking
<1>5. GoodList(l)' /\ Tidy(l)'  BY <1>1, <1>4, GoodListStable, SearchStable
<1>6. GoodList(list[t])' /\ Tidy(list[t])'  BY <1>1, <1>2, <1>5
<1>7. ThreadInv(t)'
  <2>1. pc'[t] \in Seeking \cup {"rollback"}  BY <1>1 DEF Fit
  <2>2. Goal(t)' # None /\ IsFiniteSet(held[t])'  BY <1>1, <1>4 DEF Glance, SameGoal
  <2> QED  BY <1>6, <2>1, <2>2 DEF ThreadInv, Seeking, Matching, Whole, Empty
<1>8. EngineInv'  BY <1>1, <1>7, QuietStep DEF Glance
<1>9. /\ Led(list[t], Goal(t))' /\ Accepts(list[t].rule, Goal(t))'
  <2>1. Goal(t)' = Goal(t) /\ con' = con  BY DEF Glance, SameGoal
  <2> QED  BY <1>1, <1>2, <1>4, <2>1 DEF Led, Accepts
<1>10. pc'[t] \in Seeking => Stacked(list[t], cur[t].stack)' /\ Partners(cur[t].stack, Goal(t))'
  <2> SUFFICES ASSUME pc'[t] \in Seeking
               PROVE  Stacked(list[t], cur[t].stack)' /\ Partners(cur[t].stack, Goal(t))'
    OBVIOUS
  <2>1. d.stack = cur[t].stack  BY <1>1, <1>3 DEF Fit
  <2>2. Stacked(l, d.stack)'  BY <1>1, <1>4, <2>1, SearchStable
  <2>3. Goal(t)' = Goal(t)  BY DEF Glance, SameGoal
  <2> QED  BY <1>1, <1>2, <1>3, <1>4, <2>1, <2>2, <2>3 DEF Partners
<1>11. pc'[t] \in Looking => Facing(t)' /\ Convenient(list[t].rule, list[t].m, Here(t))'
  <2> SUFFICES ASSUME pc'[t] \in Looking
               PROVE  Facing(t)' /\ Convenient(list[t].rule, list[t].m, Here(t))'
    OBVIOUS
  <2>1. PICK s : s = Bucket(d.bkt)[d.at]  OBVIOUS
  <2>2. bucket' = bucket  BY DEF Glance
  <2>3. /\ d.at <= d.stop /\ d.stop <= Len(Bucket(d.bkt)) /\ s \in Known
        /\ Convenient(l.rule, l.m, s)
    BY <1>1, <1>2, <1>3, <2>1 DEF Fit
  <2>4. Here(t)' = s /\ Facing(t)'  BY <1>3, <2>1, <2>2, <2>3 DEF Here, Bucket, Facing
  <2>5. Convenient(l.rule, l.m, s)'  BY <1>1, <1>4, <2>3, SearchStable
  <2> QED  BY <1>1, <1>2, <2>4, <2>5
<1>12. pc'[t] = "rollback" =>
         cur'[t].at \in DOMAIN list'[t].used /\ held'[t] = cur'[t].at..Len(list'[t].used)
  <2>1. l.used \in Seq(Known) /\ l.used # << >>  BY <1>4 DEF GoodList, List, Led
  <2>2. DOMAIN l.used = 1..Len(l.used) /\ 1 \in DOMAIN l.used  BY <2>1, LenProperties, EmptySeq
  <2>3. pc'[t] = "rollback" => cur'[t].at = 1  BY <1>1 DEF Fit
  <2> QED  BY <1>1, <1>2, <2>2, <2>3
<1>13. /\ pc'[t] = "undo" => cur'[t].stack # << >>
       /\ pc'[t] \in Matching /\ (pc'[t] \in Looking => pc'[t] \in Seeking)
  BY <1>1 DEF Fit, Matching, Seeking, Looking
<1>14. SeekInv(t)'
  BY <1>1, <1>6, <1>9, <1>10, <1>11, <1>12, <1>13 DEF SeekInv
<1> QED  BY <1>1, <1>8, <1>14, SeekStep

LEMMA GlanceStep ==
  ASSUME PInv, PInv', NEW t \in Thread, Glance(t)
  PROVE  Abstract!Next
<1>1. /\ Frame(t) /\ list'[t] = list[t] /\ held' = held /\ Fit(t, pc'[t], cur'[t])
  BY GlanceEffect
<1>2. ~Firing(t) /\ ~Firing(t)'
  BY <1>1 DEF Glance, Fit, Firing, Looking, Seeking
<1>3. CallsDue(t)' = CallsDue(t)  BY <1>2 DEF Glance, CallsDue
<1>4. \A s \in Status : Share(t, s)' = Share(t, s)  BY <1>1, <1>2 DEF Share
<1>5. \A s \in Status : pending'[s] + Cardinality(Share(t, s)') =
                        pending[s] + Cardinality(Share(t, s))
  BY <1>4 DEF Glance
<1> QED  BY <1>1, <1>3, <1>5, IdleStep DEF Glance, PInv

LEMMA GlanceSync ==
  ASSUME PInv, PInv', SyncInv, NEW t \in Thread, Glance(t)
  PROVE  SyncInv'
<1>1. Frame(t) /\ list'[t] = list[t] /\ Fit(t, pc'[t], cur'[t])  BY GlanceEffect
<1>2. ~Firing(t) /\ pc'[t] \in Matching \ {"token", "body", "consume"}
  BY <1>1 DEF Glance, Fit, Firing, Looking, Seeking, Matching
<1>3. Led(list'[t], Goal(t))  BY <1>1 DEF PInv, SeekInv, Glance, Looking, Matching
<1>4. job'[t].goal = job[t].goal /\ job'[t].op = job[t].op  BY DEF Glance, SameGoal, Goal
<1> QED  BY <1>1, <1>2, <1>3, <1>4, SyncSearches DEF Glance, PInv

(***************************************************************************)
(* A constraint is claimed and added to the match: the goal when its rule  *)
(* begins, a partner when it is found.  The match is complete then, or the *)
(* search goes on from it.                                                 *)
(***************************************************************************)
Claiming(t, s, l) ==
  /\ pc[t] \in {"try", "claim"} /\ held[t] = DOMAIN list[t].used
  /\ s \in Known /\ pending[s] > 0 /\ Take(s)
  /\ GoodList(l) /\ Tidy(l) /\ Led(l, Goal(t)) /\ Accepts(l.rule, Goal(t))
  /\ l.used = Append(list[t].used, s)
  /\ held' = [held EXCEPT ![t] = @ \cup {Len(l.used)}]
  /\ \/ Complete(l.rule, l.m) /\ Search(t, "consume", l, Rewound)
     \/ \E d \in Cursor : /\ Search(t, "open", l, d)
                          /\ Stacked(l, d.stack) /\ Partners(d.stack, Goal(t))
  /\ UNCHANGED <<con, mod, tokens, bucket, tasks, used_mode, calls, keys>>

LEMMA TryClaims ==
  ASSUME Orderly, OneRule, PInv, NEW t \in Thread, TryGoal(t), pending[Goal(t)] > 0
  PROVE  \E s, l : Claiming(t, s, l)
<1> USE DEF PInv, EngineInv
<1>1. /\ pc[t] = "try" /\ Take(Goal(t)) /\ NextRule(t, "consume", FALSE)
      /\ held' = [held EXCEPT ![t] = IF RulesAfter(t) = {} THEN {} ELSE {1}]
      /\ UNCHANGED <<con, mod, tokens, bucket, tasks, used_mode, calls, keys>>
  <2>1. pending[Goal(t)] # 0  OBVIOUS
  <2> QED  BY <2>1, Zenon DEF TryGoal
<1>2. list[t] = NoList /\ held[t] = {} /\ Goal(t) # None
  BY <1>1 DEF SeekInv, ThreadInv, Matching, Empty
<1>3. RulesAfter(t) # {}  BY <1>2, RulesOnce
<1>4. PICK r, l : /\ r = Least(RulesAfter(t)) /\ l = Add(NewChecklist(r), Goal(t))
                  /\ Search(t, IF Complete(r, l.m) THEN "consume" ELSE "open", l, Rewound)
  BY <1>1, <1>3 DEF NextRule
<1>5. /\ Accepts(r, Goal(t)) /\ Goal(t) \in Known /\ GoodList(l) /\ l.rule = r
      /\ l.used = <<Goal(t)>> /\ Led(l, Goal(t)) /\ Tidy(l) /\ Stacked(l, << >>)
  BY <1>2, <1>3, <1>4, RuleStarts, StartsTidy
<1>6. DOMAIN list[t].used = {} /\ l.used = Append(list[t].used, Goal(t)) /\ Len(l.used) = 1
  BY <1>2, <1>5 DEF NoList
<1>7. held' = [held EXCEPT ![t] = @ \cup {Len(l.used)}]
  BY <1>1, <1>2, <1>3, <1>6 DEF TypeOK
<1>8. Rewound \in Cursor /\ Rewound.stack = << >> /\ Partners(Rewound.stack, Goal(t))
  BY RewoundTyped DEF Rewound, Partners
<1>9. \/ Complete(l.rule, l.m) /\ Search(t, "consume", l, Rewound)
      \/ Search(t, "open", l, Rewound)
  BY <1>4, <1>5
<1>10. Claiming(t, Goal(t), l)
  BY <1>1, <1>2, <1>5, <1>6, <1>7, <1>8, <1>9 DEF Claiming
<1> QED  BY <1>10

LEMMA FindClaims ==
  ASSUME Orderly, PInv, NEW t \in Thread, ClaimHere(t)
  PROVE  \E s, l : Claiming(t, s, l)
<1> USE DEF PInv, EngineInv
<1>1. PICK s : s = Here(t)  OBVIOUS
<1>2. PICK l :
        /\ l = Add(list[t], s)
        /\ held' = [held EXCEPT ![t] = @ \cup {Len(l.used)}]
        /\ IF Complete(l.rule, l.m) THEN Search(t, "consume", l, Rewound)
           ELSE Search(t, "open", l, Found(t))
  BY <1>1 DEF ClaimHere
<1>3. /\ pc[t] = "claim" /\ pending[s] > 0 /\ Take(s)
      /\ UNCHANGED <<con, mod, tokens, bucket, tasks, used_mode, calls, keys>>
  BY <1>1 DEF ClaimHere
<1>4. /\ Facing(t) /\ Convenient(list[t].rule, list[t].m, s)
      /\ GoodList(list[t]) /\ Tidy(list[t]) /\ Led(list[t], Goal(t))
      /\ Accepts(list[t].rule, Goal(t)) /\ held[t] = DOMAIN list[t].used
      /\ Stacked(list[t], cur[t].stack) /\ Partners(cur[t].stack, Goal(t))
  BY <1>1, <1>3 DEF SeekInv, ThreadInv, Matching, Looking, Seeking
<1>5. s \in Known /\ cur[t].stack \in Seq(Place)  BY <1>1, <1>4, HereKnown DEF Cursor
<1>6. PICK o \in Place : o.s = s /\ Found(t).stack = Append(cur[t].stack, o)
  BY <1>1, <1>4, FoundTyped
<1>7. Found(t) \in Cursor  BY <1>4, FoundTyped
<1>8. /\ GoodList(l) /\ l.rule = list[t].rule /\ l.used = Append(list[t].used, s) /\ Tidy(l)
      /\ Led(l, Goal(t))
      /\ ~Complete(l.rule, l.m) => Stacked(l, Found(t).stack)
  BY <1>2, <1>4, <1>5, <1>6, AddStacked
<1>9. ~Complete(l.rule, l.m) => Partners(Found(t).stack, Goal(t))
  BY <1>2, <1>4, <1>5, <1>6, AddPartners
<1>10. Claiming(t, s, l)
  BY <1>2, <1>3, <1>4, <1>5, <1>7, <1>8, <1>9 DEF Claiming
<1> QED  BY <1>10

(***************************************************************************)
(* The owners of a status are the uses that thread t has claimed, and      *)
(* those of the others, which a step of t leaves alone.                    *)
(***************************************************************************)
Part(t, s) == {i \in held[t] : list[t].used[i] = s}
Elsewhere(t, s) == {o \in Owners(s) : o[1] # t}

LEMMA OwnersSplit ==
  ASSUME \A u \in Thread : IsFiniteSet(held[u]), NEW t \in Thread, NEW s
  PROVE  /\ Cardinality(Elsewhere(t, s)) \in Nat /\ Cardinality(Part(t, s)) \in Nat
         /\ Cardinality(Owners(s)) = Cardinality(Elsewhere(t, s)) + Cardinality(Part(t, s))
<1> DEFINE O == Owners(s)
           E == Elsewhere(t, s)
           P == Part(t, s)
           M == {o \in O : o[1] = t}
           f == [i \in P |-> <<t, i>>]
<1>1. IsFiniteSet(O)  BY OwnersFinite
<1>2. IsFiniteSet(E) /\ IsFiniteSet(M) /\ IsFiniteSet(P)
  <2>1. E \in SUBSET O /\ M \in SUBSET O /\ P \in SUBSET held[t]  BY DEF Elsewhere, Part
  <2> HIDE DEF O, E, M, P
  <2> QED  BY <1>1, <2>1, FS_Subset
<1>3. Cardinality(P) = Cardinality(M)
  <2>1. \A i : i \in P <=> i \in held[t] /\ list[t].used[i] = s  BY DEF Part
  <2>2. \A o : o \in M <=> \E i \in held[t] : o = <<t, i>> /\ list[t].used[i] = s  BY OwnerIs
  <2>3. f \in [P -> M]  BY <2>1, <2>2
  <2>4. \A x, y \in P : f[x] = f[y] => x = y  OBVIOUS
  <2>5. \A o \in M : \E i \in P : f[i] = o  BY <2>1, <2>2
  <2> HIDE DEF P, M, f
  <2> QED  BY <1>2, <2>3, <2>4, <2>5, Paired
<1>4. O = E \cup M /\ E \cap M = {}  BY DEF Elsewhere
<1> HIDE DEF O, E, M, P
<1>5. Cardinality(E \cup M) = Cardinality(E) + Cardinality(M) - Cardinality({})
  BY <1>2, <1>4, FS_Union
<1>6. Cardinality(E) \in Nat /\ Cardinality(M) \in Nat /\ Cardinality({}) = 0
  BY <1>2, FS_CardinalityType, FS_EmptySet
<1>7. Cardinality(O) = Cardinality(E) + Cardinality(P)  BY <1>3, <1>4, <1>5, <1>6
<1> QED  BY <1>3, <1>6, <1>7 DEF O, E, P

SplitWell ==
  (\A u \in Thread : IsFiniteSet(held[u])) =>
    \A t \in Thread, s \in Status :
      /\ Cardinality(Elsewhere(t, s)) \in Nat /\ Cardinality(Part(t, s)) \in Nat
      /\ Cardinality(Owners(s)) = Cardinality(Elsewhere(t, s)) + Cardinality(Part(t, s))

LEMMA SplitNow == SplitWell
BY OwnersSplit DEF SplitWell

LEMMA SplitNext == SplitWell'
BY SplitNow, PTL

LEMMA ElsewhereSame ==
  ASSUME NEW t \in Thread, Frame(t), NEW s
  PROVE  Elsewhere(t, s)' = Elsewhere(t, s)
<1>1. \A o : o \in Elsewhere(t, s) <=>
        \E u \in Thread \ {t} : \E i \in held[u] : o = <<u, i>> /\ list[u].used[i] = s
  BY OwnerIs DEF Elsewhere
<1>2. \A o : o \in Owners(s)' <=>
        \E u \in Thread : \E i \in held'[u] : o = <<u, i>> /\ list'[u].used[i] = s
  BY DEF Owners, Position
<1>3. \A o : o \in Elsewhere(t, s)' <=>
        \E u \in Thread \ {t} : \E i \in held'[u] : o = <<u, i>> /\ list'[u].used[i] = s
  BY <1>2 DEF Elsewhere
<1>4. \A u \in Thread \ {t} : held'[u] = held[u] /\ list'[u] = list[u]  BY DEF Frame, Same
<1>5. \A o : o \in Elsewhere(t, s)' <=> o \in Elsewhere(t, s)  BY <1>1, <1>3, <1>4
<1> QED  BY <1>5 DEF Elsewhere

\* What a step does to the claims of a status is what it does to the uses of t.
LEMMA OwnedStep ==
  ASSUME EngineInv, NEW t \in Thread, Frame(t), IsFiniteSet(held'[t]),
         claimed' \in [Status -> Nat],
         \A s \in Status : claimed'[s] + Cardinality(Part(t, s)) =
                           claimed[s] + Cardinality(Part(t, s)')
  PROVE  ClaimsOwned'
<1>1. \A u \in Thread : IsFiniteSet(held[u]) /\ IsFiniteSet(held'[u])
  BY DEF EngineInv, ThreadInv, Frame, Same
<1>2. ASSUME NEW s \in Status PROVE claimed'[s] = Cardinality(Owners(s)')
  <2>1. Elsewhere(t, s)' = Elsewhere(t, s)  BY ElsewhereSame
  <2>2. /\ Cardinality(Elsewhere(t, s)) \in Nat /\ Cardinality(Part(t, s)) \in Nat
        /\ Cardinality(Owners(s)) = Cardinality(Elsewhere(t, s)) + Cardinality(Part(t, s))
    BY <1>1, SplitNow DEF SplitWell
  <2>3. /\ Cardinality(Part(t, s)') \in Nat
        /\ Cardinality(Owners(s)') = Cardinality(Elsewhere(t, s)') + Cardinality(Part(t, s)')
    BY <1>1, SplitNext DEF SplitWell
  <2>4. claimed[s] = Cardinality(Owners(s))  BY DEF EngineInv, ClaimsOwned
  <2>5. claimed'[s] + Cardinality(Part(t, s)) = claimed[s] + Cardinality(Part(t, s)')  OBVIOUS
  <2>6. Cardinality(Elsewhere(t, s)') = Cardinality(Elsewhere(t, s))  BY <2>1
  <2>7. claimed'[s] \in Nat  OBVIOUS
  <2> QED  BY <2>2, <2>3, <2>4, <2>5, <2>6, <2>7
<1> QED  BY <1>2 DEF ClaimsOwned

\* All uses of the checklist l are claimed then, s once more.
OneMore(t, s, l) ==
  \A u \in Status :
    /\ pending[u] = pending'[u] + One(u = s) /\ claimed'[u] = claimed[u] + One(u = s)
    /\ Part(t, u)' = Pick(l.used, {u})
    /\ Number(l.used, {u}) = Cardinality(Part(t, u)) + One(u = s)
    /\ Cardinality(Part(t, u)) \in Nat

LEMMA ClaimingEffect ==
  ASSUME PInv, NEW t \in Thread, NEW s, NEW l, Claiming(t, s, l)
  PROVE  /\ TypeOK' /\ Frame(t) /\ Grown /\ Longer /\ ~Firing(t)
         /\ list'[t] = l /\ job' = job /\ Goal(t) # None
         /\ held'[t] = DOMAIN l.used /\ held'[t] = 1..Len(l.used) /\ IsFiniteSet(held'[t])
         /\ \/ Complete(l.rule, l.m) /\ pc'[t] = "consume" /\ cur'[t] = Rewound
            \/ /\ pc'[t] = "open" /\ Stacked(l, cur'[t].stack) /\ Partners(cur'[t].stack, Goal(t))
         /\ OneMore(t, s, l)
<1> USE DEF PInv, EngineInv
<1> DEFINE q == list[t].used
           n == Len(q)
<1>1. /\ pc[t] \in {"try", "claim"} /\ held[t] = DOMAIN q
      /\ s \in Known /\ pending[s] > 0 /\ Take(s) /\ GoodList(l)
      /\ l.used = Append(q, s)
      /\ held' = [held EXCEPT ![t] = @ \cup {Len(l.used)}]
      /\ UNCHANGED <<con, mod, tokens, bucket, tasks, used_mode, calls, keys>>
  BY DEF Claiming
<1>2. q \in Seq(Known) /\ l \in List  BY <1>1 DEF TypeOK, List, GoodList
<1>3. /\ n \in Nat /\ DOMAIN q = 1..n /\ Len(l.used) = n + 1 /\ DOMAIN l.used = 1..(n + 1)
  BY <1>1, <1>2, LenProperties, AppendProperties
<1>4. held'[t] = 1..(n + 1) /\ held' \in [Thread -> SUBSET Nat]
  <2>1. held'[t] = (1..n) \cup {n + 1}  BY <1>1, <1>3 DEF TypeOK
  <2>2. held \in [Thread -> SUBSET Nat] /\ n + 1 \in Nat  BY <1>3 DEF TypeOK
  <2> HIDE DEF n, q
  <2>3. held' \in [Thread -> SUBSET Nat]  BY <1>1, <1>3, <2>2
  <2> QED  BY <1>3, <2>1, <2>3
<1>5. IsFiniteSet(held'[t])  BY <1>3, <1>4, FS_Interval
<1>6. PICK p, d : /\ Move(t, p, l, d) /\ job' = job /\ d \in Cursor /\ p \in {"open", "consume"}
                  /\ \/ p = "consume" /\ Complete(l.rule, l.m) /\ d = Rewound
                     \/ p = "open" /\ Stacked(l, d.stack) /\ Partners(d.stack, Goal(t))
  <2>1. CASE Complete(l.rule, l.m) /\ Search(t, "consume", l, Rewound)
    BY <2>1, RewoundTyped DEF Search
  <2>2. CASE \E d \in Cursor : /\ Search(t, "open", l, d)
                               /\ Stacked(l, d.stack) /\ Partners(d.stack, Goal(t))
    BY <2>2 DEF Search
  <2> QED  BY <2>1, <2>2 DEF Claiming
<1>7. /\ pc' \in [Thread -> PC] /\ list' \in [Thread -> List] /\ cur' \in [Thread -> Cursor]
      /\ pc'[t] = p /\ list'[t] = l /\ cur'[t] = d
      /\ \A u \in Thread \ {t} : pc'[u] = pc[u] /\ list'[u] = list[u] /\ cur'[u] = cur[u]
  <2>1. p \in PC  BY <1>6 DEF PC
  <2> QED  BY <1>2, <1>6, <2>1, MoveEffect
<1>8. /\ pending' \in [Status -> Nat] /\ claimed' \in [Status -> Nat]
      /\ \A u \in Status : /\ pending[u] = pending'[u] + One(u = s)
                           /\ claimed'[u] = claimed[u] + One(u = s)
  <2>1. pending \in [Status -> Nat] /\ claimed \in [Status -> Nat] /\ s \in Status
    BY <1>1, Stati DEF TypeOK
  <2> QED  BY <1>1, <2>1 DEF Take, One
<1>9. Frame(t)
  <2>1. \A u \in Thread \ {t} : held'[u] = held[u]  BY <1>1 DEF TypeOK
  <2> QED  BY <1>1, <1>6, <1>7, <2>1 DEF Frame, Same
<1>10. TypeOK'  BY <1>1, <1>4, <1>6, <1>7, <1>8, SameTypes DEF TypeOK
<1>11. ASSUME NEW u \in Status
       PROVE  /\ Part(t, u)' = Pick(l.used, {u})
              /\ Number(l.used, {u}) = Cardinality(Part(t, u)) + One(u = s)
              /\ Cardinality(Part(t, u)) \in Nat
  <2>1. Part(t, u) = Pick(q, {u})  BY <1>1 DEF Part, Pick
  <2>2. Number(l.used, {u}) = Number(q, {u}) + One(s \in {u}) /\ Number(q, {u}) \in Nat
    BY <1>1, <1>2, NumberAppend, PickFinite
  <2>3. One(s \in {u}) = One(u = s)  BY DEF One
  <2>4. Part(t, u)' = Pick(l.used, {u})  BY <1>3, <1>4, <1>7 DEF Part, Pick
  <2> QED  BY <2>1, <2>2, <2>3, <2>4 DEF Number
<1>12. Goal(t) # None /\ ~Firing(t)  BY <1>1 DEF ThreadInv, Firing
<1>13. Grown /\ Longer  BY <1>1, SameTypes, SameBuckets
<1>14. held'[t] = DOMAIN l.used /\ held'[t] = 1..Len(l.used)  BY <1>3, <1>4
<1>15. \/ Complete(l.rule, l.m) /\ pc'[t] = "consume" /\ cur'[t] = Rewound
       \/ /\ pc'[t] = "open" /\ Stacked(l, cur'[t].stack) /\ Partners(cur'[t].stack, Goal(t))
  BY <1>6, <1>7
<1>16. OneMore(t, s, l)  BY <1>8, <1>11 DEF OneMore
<1> QED  BY <1>5, <1>6, <1>7, <1>9, <1>10, <1>12, <1>13, <1>14, <1>15, <1>16

LEMMA ClaimingInv ==
  ASSUME PInv, NEW t \in Thread, NEW s, NEW l, Claiming(t, s, l)
  PROVE  PInv'
<1> USE DEF PInv, EngineInv
<1>1. /\ TypeOK' /\ Frame(t) /\ Grown /\ Longer
      /\ list'[t] = l /\ job' = job /\ Goal(t) # None
      /\ held'[t] = DOMAIN l.used /\ held'[t] = 1..Len(l.used) /\ IsFiniteSet(held'[t])
      /\ \/ Complete(l.rule, l.m) /\ pc'[t] = "consume" /\ cur'[t] = Rewound
         \/ /\ pc'[t] = "open" /\ Stacked(l, cur'[t].stack) /\ Partners(cur'[t].stack, Goal(t))
      /\ OneMore(t, s, l)
  BY ClaimingEffect
<1>2. /\ GoodList(l) /\ Tidy(l) /\ Led(l, Goal(t)) /\ Accepts(l.rule, Goal(t)) /\ con' = con
  BY DEF Claiming
<1>3. ClaimsOwned'
  <2>1. ASSUME NEW u \in Status
        PROVE  claimed'[u] + Cardinality(Part(t, u)) = claimed[u] + Cardinality(Part(t, u)')
    <3>1. /\ claimed'[u] = claimed[u] + One(u = s) /\ Part(t, u)' = Pick(l.used, {u})
          /\ Number(l.used, {u}) = Cardinality(Part(t, u)) + One(u = s)
          /\ Cardinality(Part(t, u)) \in Nat
      BY <1>1 DEF OneMore
    <3>2. claimed[u] \in Nat /\ Cardinality(Part(t, u)') = Number(l.used, {u})
      BY <3>1 DEF TypeOK, Number
    <3> QED  BY <3>1, <3>2 DEF One
  <2>2. claimed' \in [Status -> Nat]  BY <1>1 DEF TypeOK
  <2> QED  BY <1>1, <2>1, <2>2, OwnedStep
<1>4. /\ GoodList(l)' /\ Tidy(l)' /\ (Complete(l.rule, l.m) => Complete(l.rule, l.m)')
      /\ \A q : Stacked(l, q) => Stacked(l, q)'
  BY <1>1, <1>2, GoodListStable, SearchStable
<1>5. /\ GoodList(list[t])' /\ Tidy(list[t])'
      /\ Complete(l.rule, l.m) => Complete(list[t].rule, list[t].m)'
  BY <1>1, <1>4
<1>6. l.used \in Seq(Known) /\ 1 \in DOMAIN l.used
  <2>1. l.used \in Seq(Known) /\ l.used # << >>  BY <1>2 DEF GoodList, List, Led
  <2> QED  BY <2>1, LenProperties, EmptySeq
<1>7. ThreadInv(t)'
  <2>1. cur'[t] = Rewound => cur'[t].at = 1  BY DEF Rewound
  <2> QED  BY <1>1, <1>5, <1>6, <2>1 DEF ThreadInv, Matching, Whole, Empty, Goal
<1>8. \A u \in Thread \ {t} : ThreadInv(u)'  BY <1>1, OtherThreads DEF Frame
<1>9. EngineInv'  BY <1>1, <1>3, <1>7, <1>8
<1>10. SeekInv(t)'
  <2>1. Led(list[t], Goal(t))' /\ Accepts(list[t].rule, Goal(t))'
    BY <1>1, <1>2 DEF Led, Accepts, Goal
  <2>2. pc'[t] = "open" => Stacked(list[t], cur[t].stack)' /\ Partners(cur[t].stack, Goal(t))'
    <3>1. PICK q : q = cur'[t].stack  OBVIOUS
    <3>2. pc'[t] = "open" => Stacked(l, q)' /\ Partners(q, Goal(t))  BY <1>1, <1>4, <3>1
    <3> QED  BY <1>1, <3>1, <3>2 DEF Goal, Partners
  <2>3. pc'[t] \in {"consume", "open"}  BY <1>1
  <2> QED  BY <1>1, <1>5, <2>1, <2>2, <2>3 DEF SeekInv, Matching, Seeking, Looking
<1> QED  BY <1>1, <1>9, <1>10, SeekStep

\* The claim that completes a match takes its constraints; another one shows nothing.
LEMMA ClaimingStep ==
  ASSUME Orderly, PInv, PInv', NEW t \in Thread, NEW s, NEW l, Claiming(t, s, l)
  PROVE  Abstract!Next
<1> USE DEF PInv, EngineInv
<1>1. /\ Frame(t) /\ ~Firing(t) /\ list'[t] = l
      /\ \/ Complete(l.rule, l.m) /\ pc'[t] = "consume"
         \/ pc'[t] = "open"
      /\ OneMore(t, s, l)
  BY ClaimingEffect
<1>2. GoodList(l) /\ Tidy(l) /\ con' = con /\ mod' = mod /\ calls' = calls  BY DEF Claiming
<1>3. ASSUME NEW u \in Status
      PROVE  /\ pending[u] \in Nat /\ pending'[u] \in Nat
             /\ pending[u] = pending'[u] + One(u = s) /\ Part(t, u)' = Pick(l.used, {u})
             /\ Number(l.used, {u}) = Cardinality(Share(t, u)) + One(u = s)
             /\ Cardinality(Share(t, u)) \in Nat
  <2>1. Share(t, u) = Part(t, u)  BY <1>1 DEF Share, Part
  <2>2. pending[u] \in Nat /\ pending'[u] \in Nat  BY DEF TypeOK
  <2> QED  BY <1>1, <2>1, <2>2 DEF OneMore
<1>4. CASE pc'[t] = "open"
  <2>1. ~Firing(t)'  BY <1>4 DEF Firing
  <2>2. CallsDue(t)' = CallsDue(t)  BY <1>1, <1>2, <2>1 DEF CallsDue
  <2>3. ASSUME NEW u \in Status
        PROVE  pending'[u] + Cardinality(Share(t, u)') = pending[u] + Cardinality(Share(t, u))
    <3>1. Share(t, u)' = Part(t, u)'  BY <2>1 DEF Share, Part
    <3>2. Cardinality(Share(t, u)') = Number(l.used, {u})  BY <1>3, <3>1 DEF Number
    <3> QED  BY <1>3, <3>2 DEF One
  <2> QED  BY <1>1, <1>2, <2>2, <2>3, IdleStep
<1>5. CASE Complete(l.rule, l.m) /\ pc'[t] = "consume"
  <2>1. Firing(t)'  BY <1>5 DEF Firing
  <2>2. OrderlyRule(l.rule)  BY <1>2 DEF GoodList, Orderly
  <2>3. \A u \in Status : pending[u] + Cardinality(Share(t, u)) = pending'[u] + Number(l.used, {u})
    BY <1>3 DEF One
  <2> QED  BY <1>1, <1>2, <1>5, <2>1, <2>2, <2>3, FireStep
<1> QED  BY <1>1, <1>4, <1>5

LEMMA ClaimingSync ==
  ASSUME PInv, PInv', SyncInv, NEW t \in Thread, NEW s, NEW l, Claiming(t, s, l)
  PROVE  SyncInv'
<1> USE DEF PInv, EngineInv
<1>1. /\ Frame(t) /\ ~Firing(t) /\ list'[t] = l /\ job' = job /\ held'[t] = DOMAIN l.used
      /\ pc'[t] = "consume" \/ pc'[t] = "open"
      /\ OneMore(t, s, l)
  BY ClaimingEffect
<1>2. GoodList(l) /\ Led(l, Goal(t))  BY DEF Claiming
<1>3. 1 \in held'[t]
  <2>1. l.used \in Seq(Known) /\ l.used # << >>  BY <1>2 DEF GoodList, List, Led
  <2> QED  BY <1>1, <2>1, LenProperties, EmptySeq
<1>4. \A u \in Status : pending'[u] + claimed'[u] = pending[u] + claimed[u]
  <2> SUFFICES ASSUME NEW u \in Status
               PROVE  pending'[u] + claimed'[u] = pending[u] + claimed[u]
    OBVIOUS
  <2>1. /\ pending[u] \in Nat /\ claimed[u] \in Nat /\ pending'[u] \in Nat /\ claimed'[u] \in Nat
    BY DEF TypeOK
  <2>2. pending[u] = pending'[u] + One(u = s) /\ claimed'[u] = claimed[u] + One(u = s)
    BY <1>1 DEF OneMore
  <2> QED  BY <2>1, <2>2 DEF One
<1> QED  BY <1>1, <1>2, <1>3, <1>4, SyncSearches DEF Claiming, Matching
(***************************************************************************)
(* The goal loop has the goal again, or looks whether anybody has it.      *)
(***************************************************************************)
\* A thread that has claimed nothing returns without having fired.
Leaving(t) ==
  /\ pc[t] \in {"try", "recheck"}
  /\ \/ \E retry : Return(t, FALSE, retry)
     \/ Search(t, "recheck", list[t], cur[t])
  /\ UNCHANGED <<con, mod, pending, claimed, tokens, bucket, tasks, used_mode, calls, keys, held>>

LEMMA Leaves ==
  ASSUME NEW t \in Thread, Recheck(t) \/ (TryGoal(t) /\ ~(pending[Goal(t)] > 0))
  PROVE  Leaving(t)
<1>1. CASE Recheck(t)  BY <1>1 DEF Recheck, Leaving, store
<1>2. CASE TryGoal(t) /\ ~(pending[Goal(t)] > 0)
  <2>1. /\ pc[t] = "try"
        /\ IF claimed[Goal(t)] > 0 THEN Return(t, FALSE, TRUE)
           ELSE Search(t, "recheck", list[t], cur[t])
        /\ UNCHANGED <<pending, claimed, held>>
        /\ UNCHANGED <<con, mod, tokens, bucket, tasks, used_mode, calls, keys>>
    BY <1>2, Zenon DEF TryGoal
  <2>2. (\E retry : Return(t, FALSE, retry)) \/ Search(t, "recheck", list[t], cur[t])
    BY <2>1, Zenon
  <2> QED  BY <2>1, <2>2 DEF Leaving
<1> QED  BY <1>1, <1>2

LEMMA LeavingEffect ==
  ASSUME PInv, NEW t \in Thread, Leaving(t)
  PROVE  /\ EngineInv' /\ Frame(t) /\ Grown /\ Longer
         /\ ~Firing(t) /\ ~Firing(t)' /\ held[t] = {} /\ held' = held /\ Goal(t) # None
         /\ pc'[t] \notin Matching /\ list'[t] = NoList
<1> USE DEF PInv, EngineInv
<1>1. /\ pc[t] \in {"try", "recheck"}
      /\ UNCHANGED <<con, mod, pending, claimed, tokens, bucket, tasks, used_mode, calls, keys, held>>
  BY DEF Leaving
<1>2. /\ list[t] = NoList /\ held[t] = {} /\ Goal(t) # None /\ ~Firing(t)
  BY <1>1 DEF SeekInv, ThreadInv, Matching, Empty, Firing
<1>3. Longer  BY <1>1, SameBuckets
<1>4. CASE \E retry : Return(t, FALSE, retry)
  <2>1. PICK retry : Return(t, FALSE, retry)  BY <1>4
  <2>2. tokens' \in [Status -> Nat] /\ calls' \in [Thread -> Seq(Call)]  BY <1>1 DEF TypeOK
  <2>3. EngineInv' /\ Frame(t) /\ Grown  BY <1>1, <1>2, <2>1, <2>2, ReturnStep
  <2>4. pc'[t] \in Looping  BY <2>1, ReturnQuiet
  <2>5. list'[t] = NoList  BY <2>1 DEF Return, TypeOK
  <2> QED  BY <1>1, <1>2, <1>3, <2>3, <2>4, <2>5 DEF Looping, Matching, Firing
<1>5. CASE Search(t, "recheck", list[t], cur[t])
  <2>1. /\ "recheck" \in PC /\ list[t] \in List /\ cur[t] \in Cursor  BY DEF PC, TypeOK
  <2>2. Move(t, "recheck", list[t], cur[t]) /\ job' = job  BY <1>5 DEF Search
  <2>3. /\ pc' \in [Thread -> PC] /\ list' \in [Thread -> List] /\ cur' \in [Thread -> Cursor]
        /\ pc'[t] = "recheck" /\ list'[t] = list[t] /\ cur'[t] = cur[t]
        /\ \A u \in Thread \ {t} : pc'[u] = pc[u] /\ list'[u] = list[u] /\ cur'[u] = cur[u]
    BY <2>1, <2>2, MoveEffect
  <2>4. Frame(t) /\ Grown  BY <1>1, <2>2, <2>3, SameTypes DEF Frame, Same
  <2>5. TypeOK'  BY <1>1, <2>2, <2>3, SameTypes DEF TypeOK
  <2>6. ThreadInv(t)'
    BY <1>1, <1>2, <2>2, <2>3 DEF ThreadInv, Matching, Whole, Empty, Goal
  <2>7. EngineInv'  BY <1>1, <1>2, <2>4, <2>5, <2>6, QuietStep
  <2> QED  BY <1>1, <1>2, <1>3, <2>3, <2>4, <2>7 DEF Matching, Firing
<1> QED  BY <1>4, <1>5 DEF Leaving

LEMMA LeavingInv ==
  ASSUME PInv, NEW t \in Thread, Leaving(t)
  PROVE  PInv'
<1>1. /\ EngineInv' /\ Frame(t) /\ Grown /\ Longer
      /\ held'[t] = {} /\ pc'[t] \notin Matching /\ list'[t] = NoList
  BY LeavingEffect
<1> QED  BY <1>1, SeekNothing, SeekStep

LEMMA LeavingStep ==
  ASSUME PInv, PInv', NEW t \in Thread, Leaving(t)
  PROVE  Abstract!Next
BY LeavingEffect, IdleOutside DEF PInv, Leaving

LEMMA LeavingSync ==
  ASSUME PInv, PInv', SyncInv, NEW t \in Thread, Leaving(t)
  PROVE  SyncInv'
<1>1. /\ EngineInv /\ EngineInv' /\ Frame(t) /\ ~Firing(t) /\ ~Firing(t)' /\ Goal(t) # None
      /\ pc'[t] \notin Matching
  BY LeavingEffect DEF PInv
<1>2. UNCHANGED <<con, mod, pending, claimed, tokens, tasks, calls>>  BY DEF Leaving
<1>3. CASE \E retry : Return(t, FALSE, retry)  BY <1>1, <1>2, <1>3, SyncReturns
<1>4. CASE Search(t, "recheck", list[t], cur[t])
  <2>1. pc'[t] = "recheck" /\ job' = job  BY <1>1, <1>4, SearchQuiet DEF EngineInv
  <2> QED  BY <1>1, <1>2, <2>1, SyncKeepsJob
<1> QED  BY <1>3, <1>4 DEF Leaving

(***************************************************************************)
(* A claim is given back: that of the last partner when the search goes    *)
(* back, and those of all uses when the rule has failed.                   *)
(***************************************************************************)
\* Thread t has one claimed use less, of s, which is pending again.
OneLess(t, s) ==
  \A u \in Status :
    /\ pending'[u] = pending[u] + One(u = s) /\ claimed[u] = claimed'[u] + One(u = s)
    /\ Cardinality(Part(t, u)) = Cardinality(Part(t, u)') + One(u = s)
    /\ Cardinality(Part(t, u)) \in Nat /\ Cardinality(Part(t, u)') \in Nat

\* What thread t holds is claimed.
LEMMA PartClaimed ==
  ASSUME PInv, NEW t \in Thread, NEW s \in Status, NEW i \in held[t], list[t].used[i] = s
  PROVE  claimed[s] > 0
<1> USE DEF PInv, EngineInv
<1>1. \A u \in Thread : IsFiniteSet(held[u])  BY DEF ThreadInv
<1>2. IsFiniteSet(Owners(s)) /\ Cardinality(Owners(s)) \in Nat  BY <1>1, OwnersFinite
<1>3. <<t, i>> \in Owners(s)  BY OwnerIs
<1>4. Cardinality(Owners(s)) # 0  BY <1>2, <1>3, FS_EmptySet
<1> QED  BY <1>2, <1>4 DEF ClaimsOwned

LEMMA ReleaseEffect ==
  ASSUME TypeOK, NEW s \in Status, claimed[s] > 0, Release(s)
  PROVE  /\ pending' \in [Status -> Nat] /\ claimed' \in [Status -> Nat]
         /\ \A u \in Status : /\ pending'[u] = pending[u] + One(u = s)
                              /\ claimed[u] = claimed'[u] + One(u = s)
<1>1. /\ pending \in [Status -> Nat] /\ claimed \in [Status -> Nat]
      /\ pending' = [pending EXCEPT ![s] = @ + 1] /\ claimed' = [claimed EXCEPT ![s] = @ - 1]
  BY DEF Release, TypeOK
<1> QED  BY <1>1 DEF One

LEMMA LessOwned ==
  ASSUME PInv, NEW t \in Thread, NEW s, OneLess(t, s), Frame(t), IsFiniteSet(held'[t]),
         claimed' \in [Status -> Nat]
  PROVE  ClaimsOwned'
<1>1. ASSUME NEW u \in Status
      PROVE  claimed'[u] + Cardinality(Part(t, u)) = claimed[u] + Cardinality(Part(t, u)')
  <2>1. /\ claimed[u] = claimed'[u] + One(u = s)
        /\ Cardinality(Part(t, u)) = Cardinality(Part(t, u)') + One(u = s)
        /\ Cardinality(Part(t, u)') \in Nat /\ claimed'[u] \in Nat
    BY DEF OneLess
  <2> QED  BY <2>1 DEF One
<1> QED  BY <1>1, OwnedStep DEF PInv

LEMMA LessStep ==
  ASSUME PInv, PInv', NEW t \in Thread, NEW s, OneLess(t, s), Frame(t), ~Firing(t), ~Firing(t)',
         UNCHANGED <<con, mod, calls>>
  PROVE  Abstract!Next
<1>1. CallsDue(t)' = CallsDue(t)  BY DEF CallsDue
<1>2. ASSUME NEW u \in Status
      PROVE  pending'[u] + Cardinality(Share(t, u)') = pending[u] + Cardinality(Share(t, u))
  <2>1. Share(t, u) = Part(t, u) /\ Share(t, u)' = Part(t, u)'  BY DEF Share, Part
  <2>2. pending[u] \in Nat  BY DEF PInv, EngineInv, TypeOK
  <2>3. /\ pending'[u] = pending[u] + One(u = s)
        /\ Cardinality(Part(t, u)) = Cardinality(Part(t, u)') + One(u = s)
        /\ Cardinality(Part(t, u)') \in Nat
    BY DEF OneLess
  <2> QED  BY <2>1, <2>2, <2>3 DEF One
<1> QED  BY <1>1, <1>2, IdleStep DEF PInv

LEMMA LessCopies ==
  ASSUME TypeOK, TypeOK', NEW t, NEW s, OneLess(t, s)
  PROVE  \A u \in Status : pending'[u] + claimed'[u] = pending[u] + claimed[u]
<1> SUFFICES ASSUME NEW u \in Status
             PROVE  pending'[u] + claimed'[u] = pending[u] + claimed[u]
  OBVIOUS
<1>1. pending[u] \in Nat /\ claimed[u] \in Nat /\ claimed'[u] \in Nat  BY DEF TypeOK
<1>2. pending'[u] = pending[u] + One(u = s) /\ claimed[u] = claimed'[u] + One(u = s)
  BY DEF OneLess
<1> QED  BY <1>1, <1>2 DEF One

LEMMA DropAtLen ==
  ASSUME NEW S, NEW q \in Seq(S), NEW i \in DOMAIN q
  PROVE  /\ DropAt(q, i) \in Seq(S) /\ Len(DropAt(q, i)) = Len(q) - 1
         /\ DOMAIN DropAt(q, i) = 1..(Len(q) - 1)
<1>1. Len(q) \in Nat /\ i \in 1..Len(q) /\ DOMAIN q = 1..Len(q)  BY LenProperties
<1>2. \A j \in 1..(i - 1) : q[j] \in S  BY <1>1, ElementOfSeq
<1>3. \A j \in (i + 1)..Len(q) : q[j] \in S  BY <1>1, ElementOfSeq
<1> DEFINE a == SubSeq(q, 1, i - 1)
           b == SubSeq(q, i + 1, Len(q))
<1>4. a \in Seq(S) /\ Len(a) = i - 1
  <2>1. 1 \in Int /\ i - 1 \in Int  BY <1>1
  <2>2. a \in Seq(S) /\ Len(a) = IF 1 <= i - 1 THEN (i - 1) - 1 + 1 ELSE 0
    BY <1>2, <2>1, SubSeqProperties
  <2> HIDE DEF a
  <2> QED  BY <1>1, <2>2
<1>5. b \in Seq(S) /\ Len(b) = Len(q) - i
  <2>1. i + 1 \in Int /\ Len(q) \in Int  BY <1>1
  <2>2. b \in Seq(S) /\ Len(b) = IF i + 1 <= Len(q) THEN Len(q) - (i + 1) + 1 ELSE 0
    BY <1>3, <2>1, SubSeqProperties
  <2> HIDE DEF b
  <2> QED  BY <1>1, <2>2
<1> HIDE DEF a, b
<1>6. a \o b \in Seq(S) /\ Len(a \o b) = Len(a) + Len(b)  BY <1>4, <1>5, ConcatProperties
<1>7. Len(a \o b) = Len(q) - 1  BY <1>1, <1>4, <1>5, <1>6
<1>8. DOMAIN (a \o b) = 1..Len(a \o b)  BY <1>6, LenProperties
<1>9. a \o b = DropAt(q, i)  BY DEF a, b, DropAt
<1> QED  BY <1>6, <1>7, <1>8, <1>9

\* The uses after the one that is dropped move up.
LEMMA GapCloses ==
  ASSUME NEW n \in Nat, NEW i \in 1..n, NEW R, R = (1..n) \ {i}
  PROVE  {j \in R : j < i} \cup {j - 1 : j \in {k \in R : k > i}} = 1..(n - 1)
<1> DEFINE A == {j \in R : j < i}
           B == {j - 1 : j \in {k \in R : k > i}}
<1>1. \A x : x \in A <=> x \in 1..n /\ x < i  OBVIOUS
<1>2. \A x : x \in B <=> \E k \in 1..n : k > i /\ x = k - 1  OBVIOUS
<1> HIDE DEF A, B
<1>3. A \cup B \subseteq 1..(n - 1)  BY <1>1, <1>2
<1>4. ASSUME NEW x \in 1..(n - 1) PROVE x \in A \cup B
  <2>1. x < i => x \in A  BY <1>1
  <2>2. ~(x < i) => x + 1 \in 1..n /\ x + 1 > i /\ x = (x + 1) - 1  OBVIOUS
  <2>3. ~(x < i) => x \in B  BY <1>2, <2>2
  <2> QED  BY <2>1, <2>3
<1>5. A \cup B = 1..(n - 1)  BY <1>3, <1>4
<1> QED  BY <1>5 DEF A, B

\* The partner that leaves the match is one claimed use, and the rest are still all
\* the uses of the checklist.
LEMMA UndoEffect ==
  ASSUME PInv, NEW t \in Thread, Undo(t)
  PROVE  \E s \in Known : \E l :
           /\ TypeOK' /\ Frame(t) /\ Grown /\ Longer /\ ~Firing(t) /\ ~Firing(t)'
           /\ pc'[t] = "open" /\ list'[t] = l /\ cur'[t] = GoBack(cur[t]) /\ job' = job
           /\ UNCHANGED <<con, mod, tokens, tasks, calls>>
           /\ Goal(t) # None /\ IsFiniteSet(held'[t]) /\ held'[t] = DOMAIN l.used
           /\ GoodList(l) /\ Tidy(l) /\ Led(l, Goal(t)) /\ Accepts(l.rule, Goal(t))
           /\ Stacked(l, GoBack(cur[t]).stack) /\ Partners(GoBack(cur[t]).stack, Goal(t))
           /\ OneLess(t, s)
<1> USE DEF PInv, EngineInv
<1> DEFINE q == list[t].used
           n == Len(q)
<1> DEFINE uses(s) == {i \in DOMAIN q : q[i] = s}
           rest(s) == held[t] \ {CHOOSE i \in uses(s) : \A j \in uses(s) : j <= i}
           gap(s) == Least({i \in DOMAIN q : con[q[i]] = con[s]})
           left(s, l) == IF Len(l.used) = n THEN rest(s)
                         ELSE {i \in rest(s) : i < gap(s)}
                              \cup {i - 1 : i \in {j \in rest(s) : j > gap(s)}}
<1>1. PICK k : k = list[t]  OBVIOUS
<1>2. PICK s : s = Top(cur[t]).s  OBVIOUS
<1>3. PICK l : /\ l = Remove(list[t], Top(cur[t]).s)
               /\ held' = [held EXCEPT ![t] = left(Top(cur[t]).s, l)]
               /\ Search(t, "open", l, GoBack(cur[t]))
  BY DEF Undo
<1>4. /\ pc[t] = "undo" /\ Release(s) /\ l = Remove(k, s)
      /\ Search(t, "open", l, GoBack(cur[t]))
      /\ UNCHANGED <<con, mod, tokens, bucket, tasks, used_mode, calls, keys>>
      /\ held' = [held EXCEPT ![t] = left(s, l)]
  <2>1. /\ pc[t] = "undo" /\ Release(Top(cur[t]).s)
        /\ UNCHANGED <<con, mod, tokens, bucket, tasks, used_mode, calls, keys>>
    BY DEF Undo
  <2> QED  BY <1>1, <1>2, <1>3, <2>1
<1>5. /\ Goal(t) # None /\ GoodList(k) /\ Tidy(k) /\ Led(k, Goal(t)) /\ Accepts(k.rule, Goal(t))
      /\ held[t] = DOMAIN q /\ IsFiniteSet(held[t]) /\ ~Firing(t)
      /\ Stacked(k, cur[t].stack) /\ Partners(cur[t].stack, Goal(t)) /\ cur[t].stack # << >>
  BY <1>1, <1>4 DEF SeekInv, ThreadInv, Matching, Seeking, Firing
<1>6. cur[t] \in Cursor /\ list[t] \in List /\ held \in [Thread -> SUBSET Nat]  BY DEF TypeOK
<1>7. GoBack(cur[t]) \in Cursor /\ s \in Known  BY <1>2, <1>5, <1>6, GoBackTyped
<1>8. /\ GoodList(l) /\ l.rule = k.rule /\ Tidy(l) /\ Stacked(l, GoBack(cur[t]).stack)
      /\ Apart(k.rule) /\ InMatch(k, s)
  BY <1>2, <1>4, <1>5, <1>6, GoBackStacked
<1>9. Led(l, Goal(t)) /\ Partners(GoBack(cur[t]).stack, Goal(t))
  BY <1>2, <1>4, <1>5, <1>6, GoBackPartners
<1>10. PICK i \in DOMAIN q : /\ {j \in DOMAIN q : con[q[j]] = con[s]} = {i} /\ q[i] = s
                             /\ l.used = DropAt(q, i)
  <2>1. PICK h \in Heads(k.rule) : k.m[h] = s  BY <1>8 DEF InMatch
  <2>2. Known \subseteq Status  BY Stati
  <2> QED  BY <1>1, <1>4, <1>5, <1>7, <1>8, <2>1, <2>2, RemoveTidy DEF Apart
<1>11. q \in Seq(Known)  BY <1>6 DEF List
<1>12. /\ n \in Nat /\ DOMAIN q = 1..n /\ i \in 1..n
       /\ l.used \in Seq(Known) /\ Len(l.used) = n - 1 /\ DOMAIN l.used = 1..(n - 1)
  <2>1. n \in Nat /\ DOMAIN q = 1..n  BY <1>11, LenProperties
  <2> HIDE DEF q, n
  <2>2. n = Len(q)  BY DEF n
  <2>3. /\ DropAt(q, i) \in Seq(Known) /\ Len(DropAt(q, i)) = Len(q) - 1
        /\ DOMAIN DropAt(q, i) = 1..(Len(q) - 1)
    BY <1>11, DropAtLen
  <2> QED  BY <1>10, <2>1, <2>2, <2>3
<1>13. {j \in DOMAIN q : q[j] = s} = {i}  BY <1>10
<1>14. (CHOOSE j \in {i} : \A x \in {i} : x <= j) = i /\ Least({i}) = i
  <2>1. i \in Nat  BY <1>12
  <2>2. Least({i}) = i  BY <2>1, LeastIn
  <2> QED  BY <2>1, <2>2
<1> HIDE DEF q, n
<1>15. held'[t] = 1..(n - 1) /\ \A u \in Thread \ {t} : held'[u] = held[u]
  <2> DEFINE R == (1..n) \ {i}
             H == {j \in R : j < i} \cup {j - 1 : j \in {x \in R : x > i}}
  <2>1. Len(l.used) # n  BY <1>12
  <2>2. uses(s) = {i} /\ gap(s) = i  BY <1>10, <1>13, <1>14
  <2>3. rest(s) = R  BY <1>5, <1>12, <1>14, <2>2
  <2>4. left(s, l) = H  BY <2>1, <2>2, <2>3
  <2> HIDE DEF left, H
  <2>5. held' = [held EXCEPT ![t] = H]  BY <1>4, <2>4
  <2>6. H = 1..(n - 1)  BY <1>12, GapCloses DEF H
  <2> QED  BY <1>6, <2>5, <2>6
<1>16. held' \in [Thread -> SUBSET Nat] /\ IsFiniteSet(held'[t]) /\ held'[t] = DOMAIN l.used
  <2>1. 1..(n - 1) \in SUBSET Nat /\ IsFiniteSet(1..(n - 1))
    <3>1. 1 \in Int /\ n - 1 \in Int  BY <1>12
    <3> QED  BY <3>1, FS_Interval
  <2>2. DOMAIN held' = Thread /\ held' = [u \in Thread |-> held'[u]]  BY <1>4, <1>6
  <2> QED  BY <1>6, <1>12, <1>15, <2>1, <2>2
<1>17. s \in Status /\ claimed[s] > 0
  <2>1. s \in Status  BY <1>7, Stati
  <2>2. i \in held[t] /\ list[t].used[i] = s  BY <1>5, <1>10 DEF q
  <2> QED  BY <2>1, <2>2, PartClaimed
<1>18. /\ pending' \in [Status -> Nat] /\ claimed' \in [Status -> Nat]
       /\ \A u \in Status : /\ pending'[u] = pending[u] + One(u = s)
                            /\ claimed[u] = claimed'[u] + One(u = s)
  BY <1>4, <1>17, ReleaseEffect
<1>19. /\ pc' \in [Thread -> PC] /\ list' \in [Thread -> List] /\ cur' \in [Thread -> Cursor]
       /\ pc'[t] = "open" /\ list'[t] = l /\ cur'[t] = GoBack(cur[t]) /\ job' = job
       /\ \A u \in Thread \ {t} : pc'[u] = pc[u] /\ list'[u] = list[u] /\ cur'[u] = cur[u]
  <2>1. "open" \in PC /\ l \in List  BY <1>8 DEF PC, GoodList
  <2>2. Move(t, "open", l, GoBack(cur[t])) /\ job' = job  BY <1>4 DEF Search
  <2> QED  BY <1>7, <2>1, <2>2, MoveEffect
<1>20. Frame(t) /\ Grown /\ Longer
  BY <1>4, <1>15, <1>19, SameTypes, SameBuckets DEF Frame, Same
<1>21. TypeOK'  BY <1>4, <1>16, <1>18, <1>19, SameTypes DEF TypeOK
<1>22. OneLess(t, s)
  <2> SUFFICES ASSUME NEW u \in Status
               PROVE  /\ Cardinality(Part(t, u)) = Cardinality(Part(t, u)') + One(u = s)
                      /\ Cardinality(Part(t, u)) \in Nat /\ Cardinality(Part(t, u)') \in Nat
    BY <1>18 DEF OneLess
  <2>1. Part(t, u) = Pick(q, {u})  BY <1>5 DEF Part, Pick, q
  <2>2. Part(t, u)' = Pick(l.used, {u})  BY <1>16, <1>19 DEF Part, Pick
  <2>3. Number(q, {u}) = Number(l.used, {u}) + One(q[i] \in {u})
    BY <1>10, <1>11, NumberWithout DEF DropAt
  <2>4. Number(q, {u}) \in Nat /\ Number(l.used, {u}) \in Nat
    BY <1>11, <1>12, PickFinite
  <2>5. One(q[i] \in {u}) = One(u = s)  BY <1>10 DEF One
  <2> QED  BY <2>1, <2>2, <2>3, <2>4, <2>5 DEF Number
<1>23. ~Firing(t)'  BY <1>19 DEF Firing
<1> QED  BY <1>4, <1>5, <1>7, <1>8, <1>9, <1>16, <1>19, <1>20, <1>21, <1>22, <1>23

LEMMA UndoInv ==
  ASSUME PInv, NEW t \in Thread, Undo(t)
  PROVE  PInv'
<1> USE DEF PInv, EngineInv
<1> DEFINE d == GoBack(cur[t])
<1>1. PICK s, l :
        /\ s \in Known
        /\ TypeOK' /\ Frame(t) /\ Grown /\ Longer
        /\ pc'[t] = "open" /\ list'[t] = l /\ cur'[t] = d /\ job' = job /\ con' = con
        /\ Goal(t) # None /\ IsFiniteSet(held'[t]) /\ held'[t] = DOMAIN l.used
        /\ GoodList(l) /\ Tidy(l) /\ Led(l, Goal(t)) /\ Accepts(l.rule, Goal(t))
        /\ Stacked(l, d.stack) /\ Partners(d.stack, Goal(t))
        /\ OneLess(t, s)
  BY UndoEffect
<1>2. claimed' \in [Status -> Nat]  BY <1>1 DEF TypeOK
<1>3. ClaimsOwned'  BY <1>1, <1>2, LessOwned
<1>4. PICK q : q = d.stack  OBVIOUS
<1>5. GoodList(l)' /\ Tidy(l)' /\ Stacked(l, q)'  BY <1>1, <1>4, GoodListStable, SearchStable
<1>6. GoodList(list[t])' /\ Tidy(list[t])' /\ Stacked(list[t], cur[t].stack)'
  BY <1>1, <1>4, <1>5
<1> HIDE DEF d
<1>7. ThreadInv(t)'  BY <1>1, <1>6 DEF ThreadInv, Matching, Whole, Empty, Goal
<1>8. \A u \in Thread \ {t} : ThreadInv(u)'  BY <1>1, OtherThreads DEF Frame
<1>9. EngineInv'  BY <1>1, <1>3, <1>7, <1>8
<1>10. SeekInv(t)'
  <2>1. Led(list[t], Goal(t))' /\ Accepts(list[t].rule, Goal(t))'
    BY <1>1 DEF Led, Accepts, Goal
  <2>2. Partners(cur[t].stack, Goal(t))'  BY <1>1 DEF Partners, Goal
  <2> QED  BY <1>1, <1>6, <2>1, <2>2 DEF SeekInv, Matching, Seeking, Looking
<1> QED  BY <1>1, <1>9, <1>10, SeekStep

LEMMA UndoStep ==
  ASSUME PInv, PInv', NEW t \in Thread, Undo(t)
  PROVE  Abstract!Next
<1>1. PICK s \in Known :
        OneLess(t, s) /\ Frame(t) /\ ~Firing(t) /\ ~Firing(t)' /\ UNCHANGED <<con, mod, calls>>
  BY UndoEffect
<1> QED  BY <1>1, LessStep

LEMMA UndoSync ==
  ASSUME PInv, PInv', SyncInv, NEW t \in Thread, Undo(t)
  PROVE  SyncInv'
<1>1. PICK s, l :
        /\ s \in Known
        /\ Frame(t) /\ ~Firing(t) /\ pc'[t] = "open" /\ list'[t] = l /\ job' = job
        /\ UNCHANGED <<con, mod, tokens, tasks, calls>>
        /\ Led(l, Goal(t)) /\ OneLess(t, s)
  BY UndoEffect
<1>2. \A u \in Status : pending'[u] + claimed'[u] = pending[u] + claimed[u]
  BY <1>1, LessCopies DEF PInv, EngineInv
<1> QED  BY <1>1, <1>2, SyncSearches DEF PInv, Matching

\* After the last use the rules are exhausted, for there is one only.
LEMMA RollbackEffect ==
  ASSUME OneRule, PInv, NEW t \in Thread, Rollback(t)
  PROVE  \E s \in Known :
           /\ TypeOK' /\ Frame(t) /\ Grown /\ Longer /\ ~Firing(t) /\ ~Firing(t)'
           /\ UNCHANGED <<con, mod, tokens, tasks, calls>>
           /\ Goal(t) # None /\ IsFiniteSet(held'[t]) /\ OneLess(t, s)
           /\ \/ /\ Return(t, FALSE, job[t].saw) /\ pc'[t] \in Looping
                 /\ list'[t] = NoList /\ held'[t] = {}
              \/ /\ pc'[t] = "rollback" /\ list'[t] = list[t] /\ job' = job
                 /\ cur'[t].at \in DOMAIN list[t].used
                 /\ held'[t] = cur'[t].at..Len(list[t].used)
<1> USE DEF PInv, EngineInv
<1> DEFINE q == list[t].used
           n == Len(q)
           i == cur[t].at
           s == q[i]
           d == [cur[t] EXCEPT !.at = @ + 1]
<1>1. /\ pc[t] = "rollback" /\ Release(s)
      /\ held' = [held EXCEPT ![t] = @ \ {i}]
      /\ IF i = n THEN NextRule(t, "consume", job[t].saw) ELSE Search(t, "rollback", list[t], d)
      /\ UNCHANGED <<con, mod, tokens, bucket, tasks, used_mode, calls, keys>>
  BY DEF Rollback
<1>2. /\ Goal(t) # None /\ GoodList(list[t]) /\ Accepts(list[t].rule, Goal(t))
      /\ i \in DOMAIN q /\ held[t] = i..n /\ IsFiniteSet(held[t]) /\ ~Firing(t)
  BY <1>1 DEF SeekInv, ThreadInv, Matching, Firing
<1>3. cur[t] \in Cursor /\ list[t] \in List /\ held \in [Thread -> SUBSET Nat]  BY DEF TypeOK
<1>4. q \in Seq(Known) /\ n \in Nat /\ DOMAIN q = 1..n  BY <1>3, LenProperties DEF List
<1>5. i \in 1..n /\ s \in Known  BY <1>2, <1>4, ElementOfSeq
<1>6. s \in Status /\ claimed[s] > 0
  <2>1. s \in Status  BY <1>5, Stati
  <2>2. i \in held[t] /\ list[t].used[i] = s  BY <1>2, <1>4, <1>5
  <2> HIDE DEF s, i, q
  <2> QED  BY <2>1, <2>2, PartClaimed
<1>7. /\ d \in Cursor /\ d.at = i + 1
  BY <1>3 DEF Cursor
<1>8. RulesAfter(t) = {}  BY <1>2, RulesOnce DEF GoodList
<1>9. i = n => Return(t, FALSE, job[t].saw)  BY <1>1, <1>8 DEF NextRule
<1>10. i # n => Search(t, "rollback", list[t], d)  BY <1>1
<1> HIDE DEF s, q, n, i, d
<1>11. /\ pending' \in [Status -> Nat] /\ claimed' \in [Status -> Nat]
       /\ \A u \in Status : /\ pending'[u] = pending[u] + One(u = s)
                            /\ claimed[u] = claimed'[u] + One(u = s)
  BY <1>1, <1>6, ReleaseEffect
<1>12. /\ held'[t] = held[t] \ {i} /\ \A u \in Thread \ {t} : held'[u] = held[u]
       /\ held' \in [Thread -> SUBSET Nat] /\ IsFiniteSet(held'[t])
  BY <1>1, <1>2, <1>3, FS_RemoveElement
<1>13. /\ pc' \in [Thread -> PC] /\ list' \in [Thread -> List] /\ cur' \in [Thread -> Cursor]
       /\ job' \in [Thread -> Job]
       /\ \A u \in Thread \ {t} : /\ pc'[u] = pc[u] /\ job'[u] = job[u]
                                  /\ list'[u] = list[u] /\ cur'[u] = cur[u]
       /\ \/ /\ i = n /\ Return(t, FALSE, job[t].saw) /\ pc'[t] \in Looping /\ list'[t] = NoList
          \/ /\ i # n /\ pc'[t] = "rollback" /\ list'[t] = list[t] /\ cur'[t] = d /\ job' = job
  <2>1. CASE i = n
    <3>1. list'[t] = NoList  BY <1>9, <2>1 DEF Return, TypeOK
    <3> QED  BY <1>9, <2>1, <3>1, ReturnEffect
  <2>2. CASE i # n
    <3>1. Move(t, "rollback", list[t], d) /\ job' = job  BY <1>10, <2>2 DEF Search
    <3>2. "rollback" \in PC /\ job \in [Thread -> Job]  BY DEF PC, TypeOK
    <3>3. /\ pc' \in [Thread -> PC] /\ list' \in [Thread -> List] /\ cur' \in [Thread -> Cursor]
          /\ pc'[t] = "rollback" /\ list'[t] = list[t] /\ cur'[t] = d
          /\ \A u \in Thread \ {t} : pc'[u] = pc[u] /\ list'[u] = list[u] /\ cur'[u] = cur[u]
      BY <1>3, <1>7, <3>1, <3>2, MoveEffect
    <3> QED  BY <2>2, <3>1, <3>2, <3>3
  <2> QED  BY <2>1, <2>2
<1>14. Frame(t) /\ Grown /\ Longer
  BY <1>1, <1>12, <1>13, SameTypes, SameBuckets DEF Frame, Same
<1>15. TypeOK'  BY <1>1, <1>11, <1>12, <1>13, SameTypes DEF TypeOK
<1>16. i = n => held'[t] = {}  BY <1>2, <1>4, <1>5, <1>12
<1>17. i # n => i + 1 \in 1..n /\ held'[t] = (i + 1)..n  BY <1>2, <1>4, <1>5, <1>12
<1>18. OneLess(t, s)
  <2> SUFFICES ASSUME NEW u \in Status
               PROVE  /\ Cardinality(Part(t, u)) = Cardinality(Part(t, u)') + One(u = s)
                      /\ Cardinality(Part(t, u)) \in Nat /\ Cardinality(Part(t, u)') \in Nat
    BY <1>11 DEF OneLess
  <2>1. PICK A : A = Part(t, u)'  OBVIOUS
  <2>2. A = {j \in held'[t] : list'[t].used[j] = u}  BY <2>1 DEF Part
  <2>3. A = {j \in held'[t] : q[j] = u}  BY <1>13, <1>16, <2>2 DEF q
  <2>4. Part(t, u) = {j \in held[t] : q[j] = u}  BY DEF Part, q
  <2>5. A = Part(t, u) \ {i} /\ (i \in Part(t, u) <=> u = s)
    <3>1. i \in held[t] /\ q[i] = s  BY <1>2, <1>4, <1>5 DEF s
    <3> QED  BY <1>12, <2>3, <2>4, <3>1
  <2>6. IsFiniteSet(Part(t, u))
    <3>1. Part(t, u) \in SUBSET held[t]  BY <2>4
    <3> QED  BY <1>2, <3>1, FS_Subset
  <2>7. i \notin Part(t, u) => A = Part(t, u)  BY <2>5
  <2>8. IsFiniteSet(A) /\ (i \in Part(t, u) => Cardinality(A) = Cardinality(Part(t, u)) - 1)
    BY <2>5, <2>6, FS_RemoveElement
  <2>9. Cardinality(Part(t, u)) \in Nat /\ Cardinality(A) \in Nat
    BY <2>6, <2>8, FS_CardinalityType
  <2>10. Cardinality(Part(t, u)) = Cardinality(A) + One(u = s)
    <3>1. CASE u = s
      <4>1. Cardinality(A) = Cardinality(Part(t, u)) - 1  BY <2>5, <2>8, <3>1
      <4>2. One(u = s) = 1  BY <3>1 DEF One
      <4> QED  BY <2>9, <4>1, <4>2
    <3>2. CASE u # s
      <4>1. A = Part(t, u)  BY <2>5, <2>7, <3>2
      <4>2. One(u = s) = 0  BY <3>2 DEF One
      <4> QED  BY <2>9, <4>1, <4>2
    <3> QED  BY <3>1, <3>2
  <2> QED  BY <2>1, <2>9, <2>10
<1>19. ~Firing(t)'  BY <1>13 DEF Firing, Looping
<1>20. \/ /\ Return(t, FALSE, job[t].saw) /\ pc'[t] \in Looping
          /\ list'[t] = NoList /\ held'[t] = {}
       \/ /\ pc'[t] = "rollback" /\ list'[t] = list[t] /\ job' = job
          /\ cur'[t].at \in DOMAIN list[t].used
          /\ held'[t] = cur'[t].at..Len(list[t].used)
  BY <1>4, <1>7, <1>13, <1>16, <1>17 DEF q, n
<1> QED  BY <1>1, <1>2, <1>5, <1>12, <1>14, <1>15, <1>18, <1>19, <1>20

LEMMA RollbackInv ==
  ASSUME OneRule, PInv, NEW t \in Thread, Rollback(t)
  PROVE  PInv'
<1> USE DEF PInv, EngineInv
<1>1. PICK s \in Known :
        /\ TypeOK' /\ Frame(t) /\ Grown /\ Longer /\ con' = con
        /\ Goal(t) # None /\ IsFiniteSet(held'[t]) /\ OneLess(t, s)
        /\ \/ /\ Return(t, FALSE, job[t].saw) /\ pc'[t] \in Looping
              /\ list'[t] = NoList /\ held'[t] = {}
           \/ /\ pc'[t] = "rollback" /\ list'[t] = list[t] /\ job' = job
              /\ cur'[t].at \in DOMAIN list[t].used
              /\ held'[t] = cur'[t].at..Len(list[t].used)
  BY RollbackEffect
<1>2. claimed' \in [Status -> Nat]  BY <1>1 DEF TypeOK
<1>3. ClaimsOwned'  BY <1>1, <1>2, LessOwned
<1>4. \A u \in Thread \ {t} : ThreadInv(u)'  BY <1>1, OtherThreads DEF Frame
<1>5. CASE /\ Return(t, FALSE, job[t].saw) /\ pc'[t] \in Looping
           /\ list'[t] = NoList /\ held'[t] = {}
  <2>1. ThreadInv(t)'  BY <1>1, <1>5, ReturnInv
  <2>2. EngineInv'  BY <1>1, <1>3, <1>4, <2>1
  <2>3. SeekInv(t)'  BY <1>5, SeekNothing DEF Looping, Matching
  <2> QED  BY <1>1, <2>2, <2>3, SeekStep
<1>6. CASE /\ pc'[t] = "rollback" /\ list'[t] = list[t] /\ job' = job
           /\ cur'[t].at \in DOMAIN list[t].used
           /\ held'[t] = cur'[t].at..Len(list[t].used)
  <2>1. PICK l : l = list[t]  OBVIOUS
  <2>2. pc[t] = "rollback"  BY DEF Rollback
  <2>3. GoodList(l) /\ Tidy(l) /\ Led(l, Goal(t)) /\ Accepts(l.rule, Goal(t))
    BY <2>1, <2>2 DEF ThreadInv, SeekInv, Matching
  <2>4. GoodList(l)' /\ Tidy(l)'  BY <1>1, <2>3, GoodListStable, SearchStable
  <2>5. GoodList(list[t])' /\ Tidy(list[t])'  BY <1>6, <2>1, <2>4
  <2>6. Led(list[t], Goal(t))' /\ Accepts(list[t].rule, Goal(t))'
    BY <1>1, <1>6, <2>1, <2>3 DEF Led, Accepts, Goal
  <2>7. ThreadInv(t)'  BY <1>1, <1>6, <2>5 DEF ThreadInv, Matching, Whole, Empty, Goal
  <2>8. EngineInv'  BY <1>1, <1>3, <1>4, <2>7
  <2>9. held'[t] \subseteq DOMAIN list'[t].used
    <3>1. l.used \in Seq(Known)  BY <2>3 DEF GoodList, List
    <3>2. DOMAIN l.used = 1..Len(l.used) /\ Len(l.used) \in Nat  BY <3>1, LenProperties
    <3>3. cur'[t].at \in 1..Len(l.used) /\ held'[t] = cur'[t].at..Len(l.used)
      BY <1>6, <2>1, <3>2
    <3> QED  BY <1>6, <2>1, <3>2, <3>3
  <2>10. SeekInv(t)'  BY <1>6, <2>5, <2>6, <2>9 DEF SeekInv, Matching, Seeking, Looking
  <2> QED  BY <1>1, <2>8, <2>10, SeekStep
<1> QED  BY <1>1, <1>5, <1>6

LEMMA RollbackStep ==
  ASSUME OneRule, PInv, PInv', NEW t \in Thread, Rollback(t)
  PROVE  Abstract!Next
<1>1. PICK s \in Known :
        OneLess(t, s) /\ Frame(t) /\ ~Firing(t) /\ ~Firing(t)' /\ UNCHANGED <<con, mod, calls>>
  BY RollbackEffect
<1> QED  BY <1>1, LessStep

LEMMA RollbackSync ==
  ASSUME OneRule, PInv, PInv', SyncInv, NEW t \in Thread, Rollback(t)
  PROVE  SyncInv'
<1>1. PICK s \in Known :
        /\ Frame(t) /\ ~Firing(t) /\ Goal(t) # None
        /\ UNCHANGED <<con, mod, tokens, tasks, calls>> /\ OneLess(t, s)
        /\ \/ Return(t, FALSE, job[t].saw)
           \/ pc'[t] = "rollback" /\ list'[t] = list[t] /\ job' = job
  BY RollbackEffect
<1>2. \A u \in Status : pending'[u] + claimed'[u] = pending[u] + claimed[u]
  BY <1>1, LessCopies DEF PInv, EngineInv
<1>3. CASE Return(t, FALSE, job[t].saw)
  <2>1. PICK b : b = job[t].saw  OBVIOUS
  <2> QED  BY <1>1, <1>2, <1>3, <2>1, SyncReturns DEF PInv
<1>4. CASE pc'[t] = "rollback" /\ list'[t] = list[t] /\ job' = job
  <2>1. Led(list[t], Goal(t))  BY DEF Rollback, PInv, SeekInv, Matching
  <2> QED  BY <1>1, <1>2, <1>4, <2>1, SyncSearches DEF PInv, Matching
<1> QED  BY <1>1, <1>3, <1>4

(***************************************************************************)
(* The steps that the strategies share.                                    *)
(***************************************************************************)
\* A step between the searches leads to no search, and away from a checklist or on
\* with the one of a match.
LEMMA SharedList ==
  ASSUME PInv, NEW t \in Thread, NEW silent, Common(t) \/ ConsumeUse(t, silent)
  PROVE  \/ pc'[t] \notin Matching /\ list'[t] = NoList
         \/ pc'[t] \in {"consume", "token", "body"} /\ pc[t] \in {"consume", "token"}
            /\ list'[t] = list[t] /\ job' = job
<1> USE DEF PInv, EngineInv
<1>1. ASSUME NEW fired, NEW retry, Return(t, fired, retry)
      PROVE  pc'[t] \notin Matching /\ list'[t] = NoList
  BY <1>1, ReturnQuiet DEF Return, Looping, Matching, TypeOK
<1>2. ASSUME NEW p \in PC \ Matching, pc[t] \notin Matching, Jump(t, p), list' = list
      PROVE  pc'[t] \notin Matching /\ list'[t] = NoList
  BY <1>2 DEF Jump, SeekInv, TypeOK
<1>3. {"ready", "allocate", "index", "enqueue", "check", "try"} \subseteq PC \ Matching
  BY DEF PC, Matching
<1>4. ASSUME AfterUse(t)
      PROVE  pc'[t] \in {"consume", "body"} /\ list'[t] = list[t] /\ job' = job
  BY <1>4, SearchQuiet DEF AfterUse
<1>5. CASE ConsumeUse(t, silent)
  <2>1. pc[t] = "consume" /\ (AfterUse(t) \/ Search(t, "token", list[t], cur[t]))
    BY <1>5 DEF ConsumeUse
  <2>2. CASE AfterUse(t)  BY <1>4, <2>1, <2>2
  <2>3. CASE Search(t, "token", list[t], cur[t])  BY <2>1, <2>3, SearchQuiet
  <2> QED  BY <2>1, <2>2, <2>3
<1>6. CASE MakeCall(t)
  <2>1. pc[t] = "ready" /\ list' = list  BY <1>6 DEF MakeCall, InsertCounted
  <2>2. \E p \in {"allocate", "try", "enqueue"} : Jump(t, p)  BY <1>6 DEF MakeCall, InsertCounted
  <2> QED  BY <1>2, <1>3, <2>1, <2>2 DEF Matching
<1>7. CASE Allocate(t)  BY <1>2, <1>3, <1>7 DEF Allocate, Matching
<1>8. CASE Index(t)
  <2>1. pc[t] = "index" /\ list' = list  BY <1>8 DEF Index
  <2>2. \E p \in {"index", "try", "enqueue"} : Jump(t, p)  BY <1>8 DEF Index
  <2> QED  BY <1>2, <1>3, <2>1, <2>2 DEF Matching
<1>9. CASE Enqueue(t)  BY <1>2, <1>3, <1>9 DEF Enqueue, Matching
<1>10. CASE TakeTask(t)  BY <1>2, <1>3, <1>10 DEF TakeTask, Matching
<1>11. CASE CheckLive(t)
  <2>1. pc[t] = "check" /\ ((Jump(t, "try") /\ list' = list) \/ Return(t, TRUE, FALSE))
    BY <1>11 DEF CheckLive
  <2> QED  BY <1>1, <1>2, <1>3, <2>1 DEF Matching
<1>12. CASE NoMode(t) \/ PopToken(t) \/ RunBody(t)  BY <1>1, <1>12 DEF NoMode, PopToken, RunBody
<1>13. CASE NoToken(t)  BY <1>2, <1>3, <1>13 DEF NoToken, Matching
<1>14. CASE PushToken(t)  BY <1>4, <1>14 DEF PushToken
<1> QED  BY <1>5, <1>6, <1>7, <1>8, <1>9, <1>10, <1>11, <1>12, <1>13, <1>14 DEF Common

LEMMA SharedInv ==
  ASSUME PInv, NEW t \in Thread, NEW silent, Common(t) \/ ConsumeUse(t, silent)
  PROVE  PInv'
<1> USE DEF PInv, EngineInv
<1>1. EngineInv' /\ Frame(t) /\ Grown  BY CommonInv, ConsumeUseInv
<1>2. Longer /\ pc'[t] \in Between  BY CommonLonger, ConsumeUseLonger
<1>3. held'[t] \subseteq DOMAIN list'[t].used
  <2>1. ThreadInv(t)' /\ TypeOK'  BY <1>1
  <2>2. pc'[t] \in Empty => held'[t] = {}  BY <2>1 DEF ThreadInv
  <2>3. list'[t].used \in Seq(Known')  BY <2>1 DEF TypeOK, List
  <2>4. DOMAIN list'[t].used = 1..Len(list'[t].used) /\ Len(list'[t].used) \in Nat
    BY <2>3, LenProperties
  <2>5. pc'[t] \in {"consume", "token"} => cur'[t].at \in DOMAIN list'[t].used
    BY <2>1 DEF ThreadInv, Whole
  <2>6. pc'[t] = "consume" => held'[t] = cur'[t].at..Len(list'[t].used)
    BY <2>1 DEF ThreadInv
  <2>7. pc'[t] = "token" => held'[t] = (cur'[t].at + 1)..Len(list'[t].used)
    BY <2>1 DEF ThreadInv
  <2>8. pc'[t] \in {"consume", "token"} => held'[t] \subseteq DOMAIN list'[t].used
    BY <2>4, <2>5, <2>6, <2>7
  <2> QED  BY <1>2, <2>2, <2>8 DEF Between, Empty
<1>4. CASE pc'[t] \notin Matching /\ list'[t] = NoList
  <2>1. SeekInv(t)'  BY <1>3, <1>4 DEF SeekInv, Matching, Seeking, Looking
  <2> QED  BY <1>1, <1>2, <2>1, SeekStep
<1>5. CASE /\ pc'[t] \in {"consume", "token", "body"} /\ pc[t] \in {"consume", "token"}
           /\ list'[t] = list[t] /\ job' = job
  <2>1. PICK l : l = list[t]  OBVIOUS
  <2>2. /\ GoodList(l) /\ Tidy(l) /\ Led(l, Goal(t)) /\ Accepts(l.rule, Goal(t))
        /\ Goal(t) # None
    BY <1>5, <2>1 DEF ThreadInv, SeekInv, Matching
  <2>3. Tidy(l)'  BY <1>1, <2>2, SearchStable
  <2>4. Goal(t) \in Known  BY <2>2 DEF TypeOK, Job, Goal, Maybe
  <2>5. con'[Goal(t)] = con[Goal(t)]  BY <1>1, <2>4 DEF Grown
  <2>6. Tidy(list[t])' /\ Led(list[t], Goal(t))' /\ Accepts(list[t].rule, Goal(t))'
    BY <1>5, <2>1, <2>2, <2>3, <2>5 DEF Led, Accepts, Goal
  <2>7. SeekInv(t)'  BY <1>3, <1>5, <2>6 DEF SeekInv, Matching, Seeking, Looking
  <2> QED  BY <1>1, <1>2, <2>7, SeekStep
<1> QED  BY <1>4, <1>5, SharedList

(***************************************************************************)
(* All steps of try_goal_sj2, by what they do.                             *)
(***************************************************************************)
LEMMA StepKinds ==
  ASSUME Orderly, OneRule, PInv, NEW t \in Thread, Step(t)
  PROVE  \/ Common(t) \/ Consume(t) \/ Glance(t) \/ (\E s, l : Claiming(t, s, l))
         \/ Leaving(t) \/ Undo(t) \/ Rollback(t)
<1>1. CASE TryGoal(t)
  <2>1. CASE pending[Goal(t)] > 0  BY <1>1, <2>1, TryClaims
  <2>2. CASE ~(pending[Goal(t)] > 0)  BY <1>1, <2>2, Leaves
  <2> QED  BY <2>1, <2>2
<1>2. CASE Recheck(t)  BY <1>2, Leaves
<1>3. CASE \/ OpenBucket(t) \/ PeekPending(t) \/ LoadClaims(t) \/ ClaimFails(t)
           \/ SawClaims(t) \/ SawPending(t)
  BY <1>3, Glances
<1>4. CASE ClaimHere(t)  BY <1>4, FindClaims
<1> QED  BY <1>1, <1>2, <1>3, <1>4 DEF Step, Try

LEMMA SeekNext ==
  ASSUME Orderly, OneRule, PInv, NEW t \in Thread, Step(t)
  PROVE  PInv'
<1>1. CASE Common(t) \/ Consume(t)  BY <1>1, SharedInv DEF Consume
<1>2. CASE Glance(t)  BY <1>2, GlanceInv
<1>3. CASE \E s, l : Claiming(t, s, l)  BY <1>3, ClaimingInv
<1>4. CASE Leaving(t)  BY <1>4, LeavingInv
<1>5. CASE Undo(t)  BY <1>5, UndoInv
<1>6. CASE Rollback(t)  BY <1>6, RollbackInv
<1> QED  BY <1>1, <1>2, <1>3, <1>4, <1>5, <1>6, StepKinds

LEMMA SeekStutter == ASSUME PInv, UNCHANGED vars PROVE PInv'
<1> USE DEF PInv, EngineInv
<1>1. /\ UNCHANGED <<con, mod, pending, claimed, tokens, bucket, tasks, used_mode>>
      /\ UNCHANGED <<pc, calls, job, keys, list, cur, held>>
  BY DEF vars, store, local
<1>2. TypeOK'  BY <1>1, SameTypes DEF TypeOK
<1>3. ClaimsOwned'  BY <1>1 DEF ClaimsOwned, Owners, Position
<1>4. \A t \in Thread : Same(t)  BY <1>1 DEF Same
<1>5. Grown /\ Longer  BY <1>1, SameTypes, SameBuckets
<1>6. \A t \in Thread : ThreadInv(t)' /\ SeekInv(t)'
  BY <1>2, <1>4, <1>5, OtherThreads, OtherSeeks
<1> QED  BY <1>2, <1>3, <1>6

\* PInv is inductive in PESSIMISTIC_RESTART, for programs whose rules are orderly
\* and one for each constraint: a thread that seeks partners holds all uses of its
\* checklist, the goal first, and one that rolls back gives them back in order.
THEOREM Invariance == Orderly /\ OneRule => (Spec => []PInv)
<1>1. SUFFICES ASSUME Orderly, OneRule PROVE Spec => []PInv  OBVIOUS
<1>2. Init => PInv
  <2>1. ASSUME Init, NEW t \in Thread PROVE SeekInv(t)
    BY <2>1 DEF Init, SeekInv, Matching, Seeking, Looking
  <2> QED  BY <2>1, Initially DEF PInv
<1>3. PInv /\ [Next]_vars => PInv'
  BY <1>1, SeekNext, SeekStutter DEF Next, Terminated
<1> QED  BY <1>2, <1>3, PTL DEF Spec

\* Every status that a bucket, a task, a checklist or a place of a search mentions
\* has been allocated, and a thread's checklist is one of a rule of the program.
THEOREM TypeCorrect == Orderly /\ OneRule => (Spec => []TypeOK)
<1>1. SUFFICES ASSUME Orderly, OneRule PROVE Spec => []TypeOK  OBVIOUS
<1>2. PInv => TypeOK  BY DEF PInv, EngineInv
<1> QED  BY <1>1, <1>2, Invariance, PTL

\* In PESSIMISTIC_RESTART the claimed half of every status word is the number of
\* uses that searching threads have claimed and neither consumed nor rolled back,
\* though a search that goes back renumbers the uses it holds.
THEOREM ClaimsHaveOwners == Orderly /\ OneRule => (Spec => []ClaimsOwned)
<1>1. SUFFICES ASSUME Orderly, OneRule PROVE Spec => []ClaimsOwned  OBVIOUS
<1>2. PInv => ClaimsOwned  BY DEF PInv, EngineInv
<1> QED  BY <1>1, <1>2, Invariance, PTL

\* README.md:12, "immediately locked by setting their state to claimed": a thread
\* that searches for partners in PESSIMISTIC_RESTART has claimed all of its match.
THEOREM UsesClaimed == Orderly /\ OneRule => (Spec => []UsesAreClaimed)
<1>1. SUFFICES ASSUME Orderly, OneRule PROVE Spec => []UsesAreClaimed  OBVIOUS
<1>2. PInv => UsesAreClaimed  BY DEF PInv, SeekInv, UsesAreClaimed
<1> QED  BY <1>1, <1>2, Invariance, PTL

LEMMA BodiesTidy == PInv => KeptHeadsReturn /\ ClaimsAreMatched
<1>1. PInv => TypeOK /\ \A t \in Thread : pc[t] = "body" => Tidy(list[t])
  BY DEF PInv, EngineInv, SeekInv, Matching
<1> QED  BY <1>1, TidyBodies

\* Rule.h:50, "only those are consumed": in PESSIMISTIC_RESTART a simpagation rule
\* adds again what its kept heads matched and nothing else.
THEOREM KeptReturn == Orderly /\ OneRule => (Spec => []KeptHeadsReturn)
<1>1. SUFFICES ASSUME Orderly, OneRule PROVE Spec => []KeptHeadsReturn  OBVIOUS
<1> QED  BY <1>1, BodiesTidy, Invariance, PTL

\* README.md:16, "the found constraints are locked": in PESSIMISTIC_RESTART what a
\* thread has claimed when its rule fires is what the rule's heads matched.
THEOREM MatchedClaimed == Orderly /\ OneRule => (Spec => []ClaimsAreMatched)
<1>1. SUFFICES ASSUME Orderly, OneRule PROVE Spec => []ClaimsAreMatched  OBVIOUS
<1> QED  BY <1>1, BodiesTidy, Invariance, PTL

LEMMA SyncKept ==
  ASSUME Orderly, OneRule, PInv, PInv', SyncInv, NEW t \in Thread, Step(t)
  PROVE  SyncInv'
<1>1. CASE Common(t)
  <2>1. pc[t] = "body" => Tidy(list[t])  BY DEF PInv, SeekInv, Matching
  <2> QED  BY <1>1, <2>1, CommonSync DEF PInv
<1>2. CASE Consume(t)  BY <1>2, ConsumeSync DEF PInv
<1>3. CASE Glance(t)  BY <1>3, GlanceSync
<1>4. CASE \E s, l : Claiming(t, s, l)  BY <1>4, ClaimingSync
<1>5. CASE Leaving(t)  BY <1>5, LeavingSync
<1>6. CASE Undo(t)  BY <1>6, UndoSync
<1>7. CASE Rollback(t)  BY <1>7, RollbackSync
<1> QED  BY <1>1, <1>2, <1>3, <1>4, <1>5, <1>6, <1>7, StepKinds

\* In PESSIMISTIC_RESTART no caller of sync waits for a constraint that was taken
\* without leaving it a token, and no token lets a caller return whose constraint is
\* not taken, though a goal is claimed while its own search may still fail.
THEOREM SyncsAreServed == Orderly /\ OneRule => (Spec => []SyncServed)
<1>1. SUFFICES ASSUME Orderly, OneRule PROVE Spec => []SyncServed  OBVIOUS
<1>2. PInv /\ PInv' /\ SyncInv /\ [Next]_vars => SyncInv'
  BY <1>1, SyncKept, SyncStutter DEF Next, Terminated
<1>3. Init => SyncInv  BY SyncInitially
<1>4. SyncInv => SyncServed  BY DEF SyncInv
<1> QED  BY <1>1, <1>2, <1>3, <1>4, Invariance, PTL DEF Spec

LEMMA StepRewrites ==
  ASSUME Orderly, OneRule, PInv, PInv', NEW t \in Thread, Step(t)
  PROVE  Abstract!Next
<1>1. EngineInv /\ EngineInv' /\ HeldIn  BY DEF PInv, SeekInv, HeldIn
<1>2. CASE Common(t)  BY <1>1, <1>2, CommonStep
<1>3. CASE Consume(t)  BY <1>1, <1>3, AfterUseStep DEF Consume
<1>4. CASE Glance(t)  BY <1>4, GlanceStep
<1>5. CASE \E s, l : Claiming(t, s, l)  BY <1>5, ClaimingStep
<1>6. CASE Leaving(t)  BY <1>6, LeavingStep
<1>7. CASE Undo(t)  BY <1>7, UndoStep
<1>8. CASE Rollback(t)  BY <1>8, RollbackStep
<1> QED  BY <1>2, <1>3, <1>4, <1>5, <1>6, <1>7, <1>8, StepKinds

\* PESSIMISTIC_RESTART refines CHR: the claims, the partners taken back, the
\* rollbacks, consumes and re-adds of all threads, in any order, lose, duplicate or
\* mismatch no constraint, and no two rules take the same one.
THEOREM Rewriting == Orderly /\ OneRule => (Spec => MultisetRewriting)
<1>1. SUFFICES ASSUME Orderly, OneRule PROVE Spec => MultisetRewriting  OBVIOUS
<1>2. PInv /\ PInv' /\ [Next]_vars => [Abstract!Next]_<<Live, Owed>>
  BY <1>1, StepRewrites, StutterStep DEF Next, Terminated
<1>3. Init => Abstract!Init  BY InitRewrites
<1> QED  BY <1>1, <1>2, <1>3, Invariance, PTL DEF Spec, MultisetRewriting, Abstract!Spec
==============================================================================
