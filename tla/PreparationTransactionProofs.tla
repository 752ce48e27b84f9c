-------------------- MODULE PreparationTransactionProofs --------------------
(***************************************************************************)
(* Proofs about PreparationTransaction, for any secrets, any depth and any *)
(* number of preparations, kills, faults and edits.                        *)
(***************************************************************************)
EXTENDS PreparationTransaction, FiniteSetTheorems, TLAPS

\* SetToSeq lists a finite set, each member once.
LEMMA SeqOfSet ==
  ASSUME NEW S, IsFiniteSet(S)
  PROVE  /\ Cardinality(S) \in Nat
         /\ SetToSeq(S) \in [1..Cardinality(S) -> S]
         /\ \A i, k \in 1..Cardinality(S) : SetToSeq(S)[i] = SetToSeq(S)[k] => i = k
         /\ \A s \in S : \E i \in 1..Cardinality(S) : SetToSeq(S)[i] = s
<1> DEFINE n == Cardinality(S)
<1>1. n \in Nat /\ ExistsBijection(1..n, S)
  BY FS_CardinalityType
<1>2. PICK g \in [1..n -> S] : IsInjective(g)
  BY <1>1 DEF ExistsBijection, Bijection, Injection
<1>3. SetToSeq(S) \in [1..n -> S] /\ IsInjective(SetToSeq(S))
  BY <1>2 DEF SetToSeq
<1>4. \A i, k \in 1..n : SetToSeq(S)[i] = SetToSeq(S)[k] => i = k
  BY <1>3 DEF IsInjective
<1>5. \A s \in S : \E i \in 1..n : SetToSeq(S)[i] = s
  <2> DEFINE f == SetToSeq(S)
             T == {f[i] : i \in 1..n}
  <2>1. T \subseteq S
    BY <1>3
  <2>2. f \in [1..n -> T]
    BY <1>3
  <2> HIDE DEF f
  <2>3. f \in Bijection(1..n, T)
    BY <2>2, <1>4 DEF Bijection, Injection, Surjection, IsInjective, f
  <2>4. IsFiniteSet(1..n) /\ Cardinality(1..n) = n
    BY <1>1, FS_Interval
  <2>5. IsFiniteSet(T) /\ Cardinality(T) = n
    BY <2>3, <2>4, FS_Bijection DEF ExistsBijection
  <2>6. T = S
    BY <2>1, <2>5, FS_Subset
  <2> QED
    BY <2>6 DEF f
<1> QED
  BY <1>1, <1>3, <1>4, <1>5

\* The sequence of one kind of operation, place by place.
LEMMA SeqFrom ==
  ASSUME NEW n \in Nat, NEW R, NEW f, f = [i \in 1..n |-> f[i]],
         \A i \in 1..n : f[i] \in R
  PROVE  f \in Seq(R) /\ Len(f) = n
<1>1. f \in [1..n -> R]
  OBVIOUS
<1> QED
  BY <1>1

\* Which of two parts of a concatenation a place falls in.
LEMMA Followed ==
  ASSUME NEW R, NEW s \in Seq(R), NEW t \in Seq(R), NEW n \in Nat, Len(s) = n, Len(t) = 1
  PROVE  /\ s \o t \in Seq(R) /\ Len(s \o t) = n + 1
         /\ \A i \in 1..n : (s \o t)[i] = s[i]
         /\ (s \o t)[n + 1] = t[1]
<1>1. PICK k \in Nat : k = 1
  OBVIOUS
<1>2. Len(t) = k
  BY <1>1
<1>3. /\ s \o t \in Seq(R) /\ Len(s \o t) = n + k
      /\ \A i \in 1..n : (s \o t)[i] = s[i]
      /\ \A i \in 1..k : (s \o t)[n + i] = t[i]
  BY <1>2
<1> QED
  BY <1>1, <1>3

\* The plan, place by place.
LEMMA PlanIs ==
  LET d == Depth + 1
      e == Cardinality(Existing)
      n == Cardinality(Secrets)
  IN  /\ Len(Plan) = d + e + n + 1
      /\ \A q \in 1..Depth : Plan[q] = Op("mkdir", q)
      /\ Plan[d] = Op("chmod", "root")
      /\ \A i \in 1..e : Plan[d + i] = Op("active_to_backup", SetToSeq(Existing)[i])
      /\ \A i \in 1..n : Plan[d + e + i] = Op("staging_to_active", SetToSeq(Secrets)[i])
      /\ Plan[d + e + n + 1] = Op("env_replace", "env")
<1> DEFINE d == Depth + 1
           e == Cardinality(Existing)
           n == Cardinality(Secrets)
           A == OpsOn("mkdir", [i \in 1..Depth |-> i])
           B == <<Op("chmod", "root")>>
           C == OpsOn("active_to_backup", SetToSeq(Existing))
           D == OpsOn("staging_to_active", SetToSeq(Secrets))
           F == <<Op("env_replace", "env")>>
           R == {A[i] : i \in 1..Depth} \cup {B[1], F[1]}
                \cup {C[i] : i \in 1..e} \cup {D[i] : i \in 1..n}
<1>1. /\ Depth \in Nat /\ IsFiniteSet(Existing) /\ IsFiniteSet(Secrets)
      /\ Existing \subseteq Secrets
  BY Bounds, FS_Subset
<1>2. /\ e \in Nat /\ SetToSeq(Existing) \in [1..e -> Existing]
      /\ n \in Nat /\ SetToSeq(Secrets) \in [1..n -> Secrets]
  BY <1>1, SeqOfSet
<1>3. /\ Len([i \in 1..Depth |-> i]) = Depth
      /\ Len(SetToSeq(Existing)) = e /\ Len(SetToSeq(Secrets)) = n
  BY <1>1, <1>2
<1>4. /\ A = [i \in 1..Depth |-> Op("mkdir", i)] 
      /\ C = [i \in 1..e |-> Op("active_to_backup", SetToSeq(Existing)[i])]
      /\ D = [i \in 1..n |-> Op("staging_to_active", SetToSeq(Secrets)[i])]
  BY <1>3, <1>1 DEF OpsOn
<1> HIDE DEF A, B, C, D, F
<1>5. A \in Seq(R) /\ Len(A) = Depth
  BY <1>4, <1>1
<1>6. B \in Seq(R) /\ Len(B) = 1
  BY DEF B
<1>7. C \in Seq(R) /\ Len(C) = e
  <2>1. C = [i \in 1..e |-> C[i]] /\ \A i \in 1..e : C[i] \in R
    BY <1>4
  <2>2. e \in Nat
    BY <1>2
  <2> HIDE DEF R, e
  <2> QED
    BY <2>1, <2>2, SeqFrom
<1>8. D \in Seq(R) /\ Len(D) = n
  <2>1. D = [i \in 1..n |-> D[i]] /\ \A i \in 1..n : D[i] \in R
    BY <1>4
  <2>2. n \in Nat
    BY <1>2
  <2> HIDE DEF R, n
  <2> QED
    BY <2>1, <2>2, SeqFrom
<1>9. F \in Seq(R) /\ Len(F) = 1
  BY DEF F
<1> HIDE DEF R, d, e, n
<1> DEFINE AB == A \o B
           ABC == AB \o C
           ABCD == ABC \o D
<1>10. AB \in Seq(R) /\ Len(AB) = d /\ (\A i \in 1..Depth : AB[i] = A[i]) /\ AB[d] = B[1]
  <2> HIDE DEF AB
  <2>1. AB = A \o B
    BY DEF AB
  <2> QED
    BY <1>5, <1>6, <1>1, <2>1, Followed DEF d
<1>11. d \in Nat /\ d = Depth + 1 /\ e \in Nat /\ n \in Nat /\ Depth \in Nat
  BY <1>1, <1>2 DEF d
<1> HIDE DEF AB
<1>12. /\ ABC \in Seq(R) /\ Len(ABC) = d + e
       /\ \A i \in 1..d : ABC[i] = AB[i]
       /\ \A i \in 1..e : ABC[d + i] = C[i]
  BY <1>10, <1>7, <1>11
<1> HIDE DEF ABC
<1>13. /\ ABCD \in Seq(R) /\ Len(ABCD) = d + e + n
       /\ \A i \in 1..(d + e) : ABCD[i] = ABC[i]
       /\ \A i \in 1..n : ABCD[d + e + i] = D[i]
  BY <1>12, <1>8, <1>11
<1> HIDE DEF ABCD
<1>14. Plan = ABCD \o F
  BY DEF Plan, A, B, C, D, F, AB, ABC, ABCD
<1>15. /\ Plan \in Seq(R) /\ Len(Plan) = d + e + n + 1
       /\ \A i \in 1..(d + e + n) : Plan[i] = ABCD[i]
       /\ Plan[d + e + n + 1] = F[1]
  <2> DEFINE m == d + e + n
  <2>1. m \in Nat
    BY <1>11
  <2>2. Len(ABCD) = m
    BY <1>13
  <2> HIDE DEF m
  <2> QED
    BY <1>13, <1>14, <1>9, <2>1, <2>2, Followed DEF m
<1>16. \A q \in 1..Depth : Plan[q] = Op("mkdir", q)
  BY <1>15, <1>13, <1>12, <1>10, <1>11, <1>4
<1>17. Plan[d] = Op("chmod", "root")
  <2>1. AB[d] = Op("chmod", "root")
    BY <1>10 DEF B
  <2> QED
    BY <2>1, <1>15, <1>13, <1>12, <1>11
<1>18. \A i \in 1..e : Plan[d + i] = Op("active_to_backup", SetToSeq(Existing)[i])
  <2>1. \A i \in 1..e : C[i] = Op("active_to_backup", SetToSeq(Existing)[i])
    BY <1>4
  <2>2. \A i \in 1..e : d + i \in 1..(d + e) /\ d + i \in 1..(d + e + n)
    BY <1>11
  <2> QED
    BY <2>1, <2>2, <1>15, <1>13, <1>12
<1>19. \A i \in 1..n : Plan[d + e + i] = Op("staging_to_active", SetToSeq(Secrets)[i])
  BY <1>15, <1>13, <1>11, <1>4
<1>20. Plan[d + e + n + 1] = Op("env_replace", "env")
  BY <1>15 DEF F
<1> QED
  BY <1>15, <1>16, <1>17, <1>18, <1>19, <1>20 DEF d, e, n

\* What an operation is.
Kinds == {"mkdir", "chmod", "active_to_backup", "staging_to_active", "env_replace"}

\* Each operation, by its kind.
PlanElement ==
  /\ Len(Plan) \in Nat \ {0}
  /\ \A q \in Numbers :
       /\ Plan[q].kind \in Kinds
       /\ Plan[q] = Op(Plan[q].kind, Plan[q].on)
       /\ Plan[q].kind = "mkdir" => Plan[q].on = q /\ q \in 1..Depth
       /\ Plan[q].kind = "chmod" => Plan[q].on = "root"
       /\ Plan[q].kind = "active_to_backup" => Plan[q].on \in Existing
       /\ Plan[q].kind = "staging_to_active" => Plan[q].on \in Secrets
       /\ Plan[q].kind = "env_replace" <=> q = Len(Plan)

\* Nothing is missing from the plan.
PlanCovers ==
  /\ \A d \in 1..Depth : \E q \in Numbers : Plan[q] = Op("mkdir", d)
  /\ \E q \in Numbers : Plan[q] = Op("chmod", "root")
  /\ \A s \in Existing : \E q \in Numbers : Plan[q] = Op("active_to_backup", s)
  /\ \A s \in Secrets : \E q \in Numbers : Plan[q] = Op("staging_to_active", s)

\* Nothing is in it twice.
PlanDistinct ==
  \A q, r \in Numbers : Plan[q].kind = Plan[r].kind /\ Plan[q].on = Plan[r].on => q = r

\* It is undone from its end.
PlanOrdered ==
  \A q, r \in Numbers : q > r => Priority[Plan[q].kind] <= Priority[Plan[r].kind]

\* The plan of a preparation has the four properties.
LEMMA PlanHasFacts == PlanElement /\ PlanCovers /\ PlanDistinct /\ PlanOrdered
<1> DEFINE d == Depth + 1
           e == Cardinality(Existing)
           n == Cardinality(Secrets)
           E == SetToSeq(Existing)
           A == SetToSeq(Secrets)
<1>1. /\ Depth \in Nat /\ e \in Nat /\ n \in Nat /\ d = Depth + 1
      /\ E \in [1..e -> Existing] /\ A \in [1..n -> Secrets]
      /\ \A i, k \in 1..e : E[i] = E[k] => i = k
      /\ \A i, k \in 1..n : A[i] = A[k] => i = k
      /\ \A s \in Existing : \E i \in 1..e : E[i] = s
      /\ \A s \in Secrets : \E i \in 1..n : A[i] = s
  BY Bounds, FS_Subset, SeqOfSet
<1>2. /\ Len(Plan) = d + e + n + 1
      /\ \A q \in 1..Depth : Plan[q] = Op("mkdir", q)
      /\ Plan[d] = Op("chmod", "root")
      /\ \A i \in 1..e : Plan[d + i] = Op("active_to_backup", E[i])
      /\ \A i \in 1..n : Plan[d + e + i] = Op("staging_to_active", A[i])
      /\ Plan[d + e + n + 1] = Op("env_replace", "env")
  BY PlanIs
<1> HIDE DEF d, e, n, E, A
<1>3. \A q \in Numbers :
        \/ q \in 1..Depth
        \/ q = d
        \/ \E i \in 1..e : q = d + i
        \/ \E i \in 1..n : q = d + e + i
        \/ q = d + e + n + 1
  <2> SUFFICES ASSUME NEW q \in Numbers, q \notin 1..Depth, q # d, q # d + e + n + 1
               PROVE (\E i \in 1..e : q = d + i) \/ (\E i \in 1..n : q = d + e + i)
    OBVIOUS
  <2>1. q \in Nat /\ q > d /\ q <= d + e + n
    BY <1>1, <1>2 DEF Numbers
  <2>2. CASE q <= d + e
    <3>1. q - d \in 1..e /\ q = d + (q - d)
      BY <2>1, <2>2, <1>1
    <3> QED
      BY <3>1
  <2>3. CASE q > d + e
    <3>1. q - (d + e) \in 1..n /\ q = d + e + (q - (d + e))
      BY <2>1, <2>3, <1>1
    <3> QED
      BY <3>1
  <2> QED
    BY <2>2, <2>3, <2>1, <1>1
<1> DEFINE At1(q) == q \in 1..Depth /\ Plan[q].kind = "mkdir" /\ Plan[q].on = q
           At2(q) == q = d /\ Plan[q].kind = "chmod" /\ Plan[q].on = "root"
           At3(q) == \E i \in 1..e : q = d + i /\ Plan[q].kind = "active_to_backup"
                                      /\ Plan[q].on = E[i]
           At4(q) == \E i \in 1..n : q = d + e + i /\ Plan[q].kind = "staging_to_active"
                                      /\ Plan[q].on = A[i]
           At5(q) == q = d + e + n + 1 /\ Plan[q].kind = "env_replace" /\ Plan[q].on = "env"
<1>4. \A q \in Numbers : /\ At1(q) \/ At2(q) \/ At3(q) \/ At4(q) \/ At5(q)
                         /\ Plan[q] = Op(Plan[q].kind, Plan[q].on)
  <2> SUFFICES ASSUME NEW q \in Numbers
               PROVE  /\ At1(q) \/ At2(q) \/ At3(q) \/ At4(q) \/ At5(q)
                      /\ Plan[q] = Op(Plan[q].kind, Plan[q].on)
    OBVIOUS
  <2>1. CASE q \in 1..Depth
    <3>1. Plan[q] = Op("mkdir", q)
      BY <2>1, <1>2
    <3>2. At1(q) /\ Plan[q] = Op(Plan[q].kind, Plan[q].on)
      BY <3>1, <2>1 DEF Op
    <3> QED
      BY <3>2
  <2>2. CASE q = d
    BY <2>2, <1>2 DEF Op
  <2>3. CASE \E i \in 1..e : q = d + i
    <3>1. PICK i \in 1..e : q = d + i
      BY <2>3
    <3>2. Plan[q] = Op("active_to_backup", E[i])
      BY <3>1, <1>2
    <3>3. At3(q) /\ Plan[q] = Op(Plan[q].kind, Plan[q].on)
      BY <3>1, <3>2 DEF Op
    <3> QED
      BY <3>3
  <2>4. CASE \E i \in 1..n : q = d + e + i
    <3>1. PICK i \in 1..n : q = d + e + i
      BY <2>4
    <3>2. Plan[q] = Op("staging_to_active", A[i])
      BY <3>1, <1>2
    <3>3. At4(q) /\ Plan[q] = Op(Plan[q].kind, Plan[q].on)
      BY <3>1, <3>2 DEF Op
    <3> QED
      BY <3>3
  <2>5. CASE q = d + e + n + 1
    BY <2>5, <1>2 DEF Op
  <2> QED
    BY <1>3, <2>1, <2>2, <2>3, <2>4, <2>5
<1>5. Len(Plan) \in Nat \ {0} /\ Len(Plan) = d + e + n + 1
  BY <1>1, <1>2
<1>6. \A q \in Numbers :
       /\ Plan[q].kind \in Kinds
       /\ Plan[q].kind = "mkdir" => Plan[q].on = q /\ q \in 1..Depth
       /\ Plan[q].kind = "chmod" => Plan[q].on = "root"
       /\ Plan[q].kind = "active_to_backup" => Plan[q].on \in Existing
       /\ Plan[q].kind = "staging_to_active" => Plan[q].on \in Secrets
       /\ Plan[q].kind = "env_replace" <=> q = Len(Plan)
  <2> TAKE q \in Numbers
  <2>1. CASE At1(q)
    BY <2>1, <1>1, <1>5 DEF Kinds
  <2>2. CASE At2(q)
    BY <2>2, <1>1, <1>5 DEF Kinds
  <2>3. CASE At3(q)
    BY <2>3, <1>1, <1>5 DEF Kinds
  <2>4. CASE At4(q)
    BY <2>4, <1>1, <1>5 DEF Kinds
  <2>5. CASE At5(q)
    BY <2>5, <1>1, <1>5 DEF Kinds
  <2> HIDE DEF At1, At2, At3, At4, At5
  <2> QED
    BY <1>4, <2>1, <2>2, <2>3, <2>4, <2>5
<1>7. /\ \A q \in 1..Depth : q \in Numbers
      /\ d \in Numbers
      /\ \A i \in 1..e : d + i \in Numbers
      /\ \A i \in 1..n : d + e + i \in Numbers
  <2>1. Numbers = 1..(d + e + n + 1)
    BY <1>2 DEF Numbers
  <2> HIDE DEF At1, At2, At3, At4, At5
  <2> QED
    BY <2>1, <1>1
<1>8. \A x \in 1..Depth : \E q \in Numbers : Plan[q] = Op("mkdir", x)
  BY <1>2, <1>7
<1>9. \E q \in Numbers : Plan[q] = Op("chmod", "root")
  BY <1>2, <1>7
<1>10. ASSUME NEW s \in Existing
       PROVE  \E q \in Numbers : Plan[q] = Op("active_to_backup", s)
  <2>1. PICK i \in 1..e : E[i] = s
    BY <1>1
  <2> QED
    BY <2>1, <1>2, <1>7
<1>11. ASSUME NEW s \in Secrets
       PROVE  \E q \in Numbers : Plan[q] = Op("staging_to_active", s)
  <2>1. PICK i \in 1..n : A[i] = s
    BY <1>1
  <2> QED
    BY <2>1, <1>2, <1>7
<1>12. ASSUME NEW q \in Numbers, NEW r \in Numbers,
              Plan[q].kind = Plan[r].kind, Plan[q].on = Plan[r].on
       PROVE  q = r
  <2>1. CASE At1(q)
    BY <2>1, <1>6, <1>12
  <2>2. CASE At2(q)
    <3>1. At2(r)
      BY <2>2, <1>4, <1>12
    <3> QED
      BY <2>2, <3>1
  <2>3. CASE At3(q)
    <3>1. At3(r)
      BY <2>3, <1>4, <1>12
    <3> QED
      BY <2>3, <3>1, <1>1, <1>12
  <2>4. CASE At4(q)
    <3>1. At4(r)
      BY <2>4, <1>4, <1>12
    <3> QED
      BY <2>4, <3>1, <1>1, <1>12
  <2>5. CASE At5(q)
    BY <2>5, <1>6, <1>12
  <2> HIDE DEF At1, At2, At3, At4, At5
  <2> QED
    BY <1>4, <2>1, <2>2, <2>3, <2>4, <2>5
<1>13. \A q, r \in Numbers : q > r => Priority[Plan[q].kind] <= Priority[Plan[r].kind]
  BY <1>1, <1>4, SMTT(60) DEF Priority, Numbers
<1> QED
  BY <1>4, <1>5, <1>6, <1>8, <1>9, <1>10, <1>11, <1>12, <1>13
     DEF PlanElement, PlanCovers, PlanDistinct, PlanOrdered

\* One operation of the plan.
LEMMA PlanOf ==
  ASSUME NEW q \in Numbers
  PROVE  /\ Plan[q].kind \in Kinds
         /\ Plan[q].kind = "mkdir" => Plan[q].on = q /\ Plan[q].on \in 1..Depth
         /\ Plan[q].kind = "chmod" => Plan[q].on = "root"
         /\ Plan[q].kind = "active_to_backup" => Plan[q].on \in Existing
         /\ Plan[q].kind = "staging_to_active" => Plan[q].on \in Secrets
         /\ Plan[q].kind = "env_replace" <=> q = Len(Plan)
BY PlanHasFacts DEF PlanElement

\* The plan is not empty: its last operation is the environment.
LEMMA Length == Len(Plan) \in Nat /\ Len(Plan) > 0 /\ Len(Plan) \in Numbers
BY PlanHasFacts DEF PlanElement, Numbers

\* Sorting by kind undoes the operations from the last to the first.
LEMMA LastFirst ==
  /\ \A q, r \in Numbers : UndoneBefore(q, r) <=> q > r
  /\ \A n \in 0..Len(Plan) : \A i \in 1..n : RollbackOrder[n][i] = n + 1 - i
<1> USE PlanHasFacts DEF PlanElement, PlanOrdered
<1>1. \A q \in Numbers : Priority[Plan[q].kind] \in Nat
  BY DEF Kinds, Priority
<1>2. \A q, r \in Numbers : UndoneBefore(q, r) <=> q > r
  BY <1>1 DEF UndoneBefore, Numbers
<1>3. ASSUME NEW n \in 0..Len(Plan), NEW i \in 1..n
      PROVE  RollbackOrder[n][i] = n + 1 - i
  <2> DEFINE Before(q) == {r \in 1..n : UndoneBefore(r, q)}
  <2>1. ASSUME NEW q \in 1..n
        PROVE  Cardinality(Before(q)) = n - q
    <3>1. Before(q) = (q + 1)..n
      BY <1>2 DEF Numbers
    <3>2. q + 1 \in Int /\ n \in Int /\ q \in Int /\ q <= n
      BY DEF Numbers
    <3>3. Cardinality((q + 1)..n) = IF q + 1 > n THEN 0 ELSE n - (q + 1) + 1
      BY <3>2, FS_Interval
    <3> HIDE DEF Before
    <3> QED
      BY <3>1, <3>2, <3>3
  <2>2. n + 1 - i \in 1..n
    OBVIOUS
  <2> HIDE DEF Before
  <2>3. \A q \in 1..n : Cardinality(Before(q)) = i - 1 <=> q = n + 1 - i
    BY <2>1
  <2>4. (CHOOSE q \in 1..n : Cardinality(Before(q)) = i - 1) = n + 1 - i
    BY <2>2, <2>3
  <2>5. RollbackOrder[n][i] = CHOOSE q \in 1..n : Cardinality(Before(q)) = i - 1
    BY DEF RollbackOrder, Before
  <2> QED
    BY <2>4, <2>5
<1> QED
  BY <1>2, <1>3
-----------------------------------------------------------------------------
(* The invariants.                                                         *)

\* What a tree shows of the operation q (Happened, of any tree).
Shows(t, q) ==
    \/ Plan[q].kind = "mkdir" /\ Plan[q].on \in t.made
    \/ Plan[q].kind = "chmod" /\ t.private
    \/ Plan[q].kind = "active_to_backup" /\ Plan[q].on \in t.kept
    \/ Plan[q].kind = "staging_to_active" /\ t.active[Plan[q].on] = "new"
    \/ Plan[q].kind = "env_replace" /\ t.env = "after"

\* The phases that say how a transaction ended.
Decided == RolledBack \cup Committed

\* One that may still go either way.
Undecided == wal.phase \notin Decided

\* Where a process can be.
Places == {"idle", "create", "companion", "save", "stage", "manifest", "intent", "mutate",
           "exchange", "settle", "done", "rollback", "forward_env", "undo", "receipt",
           "metadata", "remove_companion", "complete_receipt", "bury", "remove_tombstone",
           "unlink_metadata"}

\* TypeOK, with the places and the counters.
Types ==
    /\ TypeOK
    /\ proc \in [pc : Places, at : Nat]
    /\ spent \in [prepares : Nat, kills : Nat, faults : Nat, edits : Nat]

\* Where the process is, and what the journal's directory and the records of
\* the clean-up say at that place.
Stages ==
    /\ At("create") => journal = "bare"
    /\ journal = "bare" => /\ wal = NewWal /\ cleanup.metadata = "none"
                           /\ ~cleanup.companion
    /\ Preparing => /\ journal = "open" /\ wal.phase = "planned"
                    /\ wal.undone = {} /\ wal.intents = {} /\ cleanup.metadata = "none"
    /\ proc.pc \in {"companion", "save", "stage"} => wal.logged = 0 /\ wal.done = {}
    /\ Preparing /\ ~At("companion") => cleanup.companion
    /\ At("intent") => wal.logged < Len(Plan) /\ wal.manifest = wal.logged + 1
    /\ proc.pc \in {"mutate", "exchange", "settle", "done"} => wal.logged > 0
    /\ proc.pc \in {"exchange", "settle"} => wal.logged = Len(Plan) /\ wal.forward
    /\ At("rollback") => /\ journal = "open"
                         /\ wal.phase \in {"planned", "rollback_in_progress"}
    /\ proc.pc \in {"forward_env", "undo"} =>
        journal = "open" /\ wal.phase = "rollback_in_progress"
    /\ At("undo") => ~wal.forward /\ proc.at \in 1..(wal.logged + 1)
    /\ Cleaning => ~Undecided /\ journal # "bare"
    /\ cleanup.metadata # "none" =>
        ~Undecided /\ (cleanup.metadata = "committed" <=> wal.phase \in Committed)
    /\ proc.pc \in {"remove_companion", "complete_receipt", "bury", "remove_tombstone",
                    "unlink_metadata"} => cleanup.metadata # "none"
    /\ proc.pc \in {"complete_receipt", "bury", "remove_tombstone", "unlink_metadata"} =>
        ~cleanup.companion
    /\ proc.pc \in {"remove_tombstone", "unlink_metadata"} => journal # "open"
    /\ At("unlink_metadata") => journal # "tombstone"
    /\ journal \in {"none", "tombstone"} => ~cleanup.companion
    /\ journal = "tombstone" => cleanup.metadata # "none"
    /\ Undecided /\ wal.logged > 0 => cleanup.companion /\ wal.backup # "none"
    /\ Preparing /\ proc.pc \notin {"companion", "save"} => wal.backup # "none"
    /\ Preparing /\ wal.forward => proc.pc \in {"exchange", "settle"}
    /\ Undecided => wal.done \cup wal.undone \cup wal.intents \subseteq 1..wal.logged

\* What the tree holds while the transaction is undecided.
Underway ==
    Undecided =>
        /\ \A s \in Existing : s \in tree.kept <=> tree.active[s] # "old"
        /\ \A s \in Secrets \ Existing : tree.active[s] # "old"
        /\ wal.logged > 0 \/ (Preparing /\ proc.pc \notin {"companion", "save", "stage"}) =>
            \A s \in Secrets : s \in tree.staged <=> tree.active[s] # "new"
        /\ \A q \in Numbers : Shows(tree, q) => q <= wal.logged

\* What a preparation logged, it did; the last operation may be ahead of it.
Exact ==
    Preparing => \A q \in 1..wal.logged :
        Shows(tree, q) \/ q = Len(Plan) \/ (q = wal.logged /\ At("mutate"))

\* What a rollback passed is undone.
Undone ==
    At("undo") => \A q \in Numbers : q + proc.at > wal.logged + 1 => ~Shows(tree, q)

\* What the tree holds once the transaction is decided, and when there is none.
Ended ==
    /\ tree.candidate # "none" => wal.forward
    /\ ~cleanup.companion => tree.staged = {} /\ tree.kept = {}
    /\ journal = "bare" => tree = Untouched
    /\ journal \in {"none", "tombstone"} /\ Undecided => tree = Untouched
    /\ wal.phase \in RolledBack =>
        /\ tree.active = Untouched.active /\ tree.kept = {} /\ tree.made = {}
        /\ ~tree.private /\ tree.env # "after" /\ tree.candidate = "none"
    /\ wal.phase \in Committed =>
        /\ \A s \in Secrets : tree.active[s] = "new"
        /\ tree.staged = {} /\ tree.made = 1..Depth /\ tree.private
        /\ tree.candidate = "none" /\ tree.env # "before"

\* What the tree holds, in all.
TreeInv == Underway /\ Exact /\ Undone /\ Ended

\* The operations that a rollback has not passed yet.
Left == IF At("undo") THEN (wal.logged + 1) - proc.at ELSE wal.logged

\* With one kill and no other trouble there is one rollback, after the kill, and
\* it meets what the preparation left.
Quiet == Calm /\ spent.kills <= 1

\* When that rollback comes, and that it does not fail.
OneRollback ==
    Quiet =>
        /\ wal.phase # "rollback_failed"
        /\ proc.pc \in {"rollback", "forward_env", "undo"} =>
            spent.kills = 1 /\ wal.manifest = wal.logged
        /\ At("rollback") => wal.phase = "planned"
        /\ wal.phase = "rollback_in_progress" => proc.pc \in {"forward_env", "undo"}
        /\ At("idle") /\ journal = "open" /\ Undecided => spent.kills = 1

\* The environment is not edited, and a cut exchange is on one side or the other.
EnvironmentKnown ==
    Quiet =>
        /\ tree.env # "edited"
        /\ Preparing =>
            /\ tree.env = "after" <=>
                wal.logged = Len(Plan) /\ proc.pc \in {"settle", "done", "manifest"}
            /\ proc.pc \notin {"companion", "save"} => wal.backup = "before"
        /\ wal.logged > 0 => wal.backup = "before"
        /\ wal.forward /\ Undecided =>
            /\ wal.backup = "before"
            /\ \/ tree.env = "before" /\ tree.candidate = "new"
               \/ tree.env = "after" /\ tree.candidate = "old"

\* What the rollback has not reached is as the preparation left it, but for the
\* operation whose reversal is announced.
UndoneInTurn ==
    Quiet /\ journal = "open" /\ Undecided =>
        /\ \A q \in Numbers : (q < wal.logged \/ q \in wal.done) /\ q <= Left =>
            Shows(tree, q) \/ q \in wal.intents
        /\ \A q \in wal.undone : q > Left
        /\ wal.intents \subseteq {Left}

\* The one-kill invariant.
OnePass == OneRollback /\ EnvironmentKnown /\ UndoneInTurn

-----------------------------------------------------------------------------
(* Types.                                                                  *)

\* The records of TypeOK.
Trees == [active : [Secrets -> {"none", "old", "new"}], staged : SUBSET Secrets,
          kept : SUBSET Existing, made : SUBSET (1..Depth), private : BOOLEAN,
          env : {"before", "after", "edited"}, candidate : {"none", "new", "old"}]

\* The constants.
LEMMA Given == Depth \in Nat /\ Existing \subseteq Secrets
  BY Bounds

\* What an operation does to the tree, by its kind.
LEMMA MutatedIs ==
  ASSUME tree \in Trees, NEW q \in Numbers, Plan[q].kind # "env_replace"
  PROVE  /\ Mutated(Plan[q]) \in Trees
         /\ Mutated(Plan[q]).env = tree.env /\ Mutated(Plan[q]).candidate = tree.candidate
<1> USE DEF Kinds, Trees, Mutated
<1>1. CASE Plan[q].kind = "mkdir"
  BY <1>1, PlanOf
<1>2. CASE Plan[q].kind = "chmod"
  BY <1>2
<1>3. CASE Plan[q].kind = "active_to_backup"
  <2>1. Plan[q].on \in Existing
    BY <1>3, PlanOf, Given
  <2> DEFINE act == [tree.active EXCEPT ![Plan[q].on] = "none"]
             set == tree.kept \cup {Plan[q].on}
  <2>2. act \in [Secrets -> {"none", "old", "new"}]
    OBVIOUS
  <2>3. set \in SUBSET Existing
    BY <2>1
  <2>4. Mutated(Plan[q]) = [tree EXCEPT !.active = act, !.kept = set]
    BY <1>3
  <2> HIDE DEF Mutated, act, set
  <2> QED
    BY <2>2, <2>3, <2>4
<1>4. CASE Plan[q].kind = "staging_to_active"
  <2>1. Plan[q].on \in Secrets
    BY <1>4, PlanOf, Given
  <2> DEFINE act == [tree.active EXCEPT ![Plan[q].on] = "new"]
             set == tree.staged \ {Plan[q].on}
  <2>2. act \in [Secrets -> {"none", "old", "new"}]
    OBVIOUS
  <2>3. set \in SUBSET Secrets
    BY <2>1
  <2>4. Mutated(Plan[q]) = [tree EXCEPT !.active = act, !.staged = set]
    BY <1>4
  <2> HIDE DEF Mutated, act, set
  <2> QED
    BY <2>2, <2>3, <2>4
<1> QED
  BY PlanOf, <1>1, <1>2, <1>3, <1>4

\* What its reversal does.
LEMMA ReversedIs ==
  ASSUME tree \in Trees, NEW q \in Numbers, wal.backup \in {"before",
         "edited"} \/ Plan[q].kind # "env_replace"
  PROVE  /\ Reversed(Plan[q]) \in Trees
         /\ Reversed(Plan[q]).candidate = tree.candidate
<1> USE DEF Kinds, Trees, Reversed, Env
<1>1. CASE Plan[q].kind = "mkdir"
  BY <1>1, PlanOf
<1>2. CASE Plan[q].kind = "chmod"
  BY <1>2
<1>3. CASE Plan[q].kind = "active_to_backup"
  <2>1. Plan[q].on \in Existing
    BY <1>3, PlanOf, Given
  <2> DEFINE act == [tree.active EXCEPT ![Plan[q].on] = "old"]
             set == tree.kept \ {Plan[q].on}
  <2>2. act \in [Secrets -> {"none", "old", "new"}]
    OBVIOUS
  <2>3. set \in SUBSET Existing
    BY <2>1
  <2>4. Reversed(Plan[q]) = [tree EXCEPT !.active = act, !.kept = set]
    BY <1>3
  <2> HIDE DEF Reversed, act, set
  <2> QED
    BY <2>2, <2>3, <2>4
<1>4. CASE Plan[q].kind = "staging_to_active"
  <2>1. Plan[q].on \in Secrets
    BY <1>4, PlanOf, Given
  <2> DEFINE act == [tree.active EXCEPT ![Plan[q].on] = "none"]
             set == tree.staged \cup {Plan[q].on}
  <2>2. act \in [Secrets -> {"none", "old", "new"}]
    OBVIOUS
  <2>3. set \in SUBSET Secrets
    BY <2>1
  <2>4. Reversed(Plan[q]) = [tree EXCEPT !.active = act, !.staged = set]
    BY <1>4
  <2> HIDE DEF Reversed, act, set
  <2> QED
    BY <2>2, <2>3, <2>4
<1>5. CASE Plan[q].kind = "env_replace"
  BY <1>5
<1> QED
  BY PlanOf, <1>1, <1>2, <1>3, <1>4, <1>5

\* The journal's files.
Wals == [phase : Phases, manifest : 0..Len(Plan), logged : 0..Len(Plan),
         done : SUBSET Numbers, undone : SUBSET Numbers, intents : SUBSET Numbers,
         backup : {"none", "before", "edited"}, forward : BOOLEAN]

\* The companion and the records in history.
Cleanups == [companion : BOOLEAN, receipt : {"none", "pending", "complete"},
             metadata : {"none", "rollback", "committed"}]

\* TypeOK with its records named.
LEMMA TypesAre ==
  Types <=> /\ tree \in Trees /\ wal \in Wals /\ cleanup \in Cleanups
            /\ journal \in {"none", "bare", "open", "tombstone", "quarantined"}
            /\ proc \in [pc : Places, at : Nat]
            /\ spent \in [prepares : Nat, kills : Nat, faults : Nat, edits : Nat]
BY Zenon DEF Types, TypeOK, Trees, Wals, Cleanups

\* The same of the next state.
LEMMA TypesAreAfter ==
  Types' <=> /\ tree' \in Trees /\ wal' \in Wals /\ cleanup' \in Cleanups
             /\ journal' \in {"none", "bare", "open", "tombstone", "quarantined"}
             /\ proc' \in [pc : Places, at : Nat]
             /\ spent' \in [prepares : Nat, kills : Nat, faults : Nat, edits : Nat]
BY Zenon DEF Types, TypeOK, Trees, Wals, Cleanups

\* The fields that a step sets.
LEMMA EnvironmentSet ==
  ASSUME NEW t \in Trees, NEW e \in {"before", "after", "edited"},
         NEW c \in {"none", "new", "old"}
  PROVE  [t EXCEPT !.env = e, !.candidate = c] \in Trees
BY ZenonT(30) DEF Trees

\* The material in the companion.
LEMMA MaterialSet ==
  ASSUME NEW t \in Trees, NEW s \in SUBSET Secrets, NEW k \in SUBSET Existing
  PROVE  [t EXCEPT !.staged = s, !.kept = k] \in Trees
BY ZenonT(30) DEF Trees

\* The file of a cut exchange.
LEMMA ForwardSet ==
  ASSUME NEW w \in Wals, NEW b \in BOOLEAN
  PROVE  [w EXCEPT !.forward = b] \in Wals
BY SMT DEF Wals

\* The companion's presence.
LEMMA CompanionSet ==
  ASSUME NEW c \in Cleanups, NEW b \in BOOLEAN
  PROVE  [c EXCEPT !.companion = b] \in Cleanups
BY SMT DEF Cleanups

\* The operation a rollback is at.
LEMMA UndoingIs ==
  ASSUME Types, Stages, MoreToUndo
  PROVE  /\ Undoing = (wal.logged + 1) - proc.at
         /\ Undoing \in 1..wal.logged /\ Undoing \in Numbers /\ Undoing > 0
<1>1. wal.logged \in 0..Len(Plan) /\ Len(Plan) \in Nat
  BY Length, TypesAre DEF Wals
<1>2. proc.at \in 1..wal.logged
  BY <1>1 DEF MoreToUndo, Stages
<1>3. Undoing = (wal.logged + 1) - proc.at
  BY <1>1, <1>2, LastFirst DEF Undoing
<1> QED
  BY <1>1, <1>2, <1>3 DEF Numbers

\* Every step keeps the types.
LEMMA TypesStep ==
  ASSUME Types, Stages, Underway, [Next]_vars
  PROVE  Types'
<1>0. /\ tree \in Trees /\ wal \in Wals /\ cleanup \in Cleanups
      /\ journal \in {"none", "bare", "open", "tombstone", "quarantined"}
      /\ proc \in [pc : Places, at : Nat]
      /\ spent \in [prepares : Nat, kills : Nat, faults : Nat, edits : Nat]
      /\ Len(Plan) \in Nat
  BY TypesAre, Length
<1> SUFFICES
      /\ tree' \in Trees /\ wal' \in Wals /\ cleanup' \in Cleanups
      /\ journal' \in {"none", "bare", "open", "tombstone", "quarantined"}
      /\ proc' \in [pc : Places, at : Nat]
      /\ spent' \in [prepares : Nat, kills : Nat, faults : Nat, edits : Nat]
  BY TypesAreAfter
<1> USE <1>0 DEF At, Go, Places
<1>1. CASE Prepare
  BY <1>1, SMTT(60) DEF Prepare, NoIncompleteTransactions, Untouched, NewWal, Wals,
     Phases, ForwardPhases, Cleanups
<1>2. CASE CreateJournal
  BY <1>2, SMTT(60) DEF CreateJournal
<1>3. CASE CreateCompanion
  <2>1. cleanup' \in Cleanups
    BY <1>3, CompanionSet DEF CreateCompanion
  <2> QED
    BY <2>1, <1>3 DEF CreateCompanion
<1>4. CASE PersistEnvBackup
  <2>1. tree.env \in {"none", "before", "edited"}
    <3>1. Undecided /\ wal.logged = 0
      BY <1>4 DEF PersistEnvBackup, Stages, Preparing, Undecided, Decided, RolledBack,
         Committed
    <3>2. Plan[Len(Plan)].kind = "env_replace" /\ Len(Plan) \in Numbers /\ Len(Plan) > 0
      BY Length, PlanOf
    <3>3. ~Shows(tree, Len(Plan))
      BY <3>1, <3>2 DEF Underway
    <3> QED
      BY <3>2, <3>3 DEF Shows, Trees
  <2>2. wal' \in Wals
    BY <2>1, <1>4 DEF PersistEnvBackup, Wals
  <2> QED
    BY <2>2, <1>4 DEF PersistEnvBackup
<1>5. CASE Stage
  BY <1>5, SMTT(60) DEF Stage, Trees
<1>6. CASE WriteManifest
  BY <1>6, SMTT(60) DEF WriteManifest, Env, Wals
<1>7. CASE WriteIntent
  BY <1>7, SMTT(60) DEF WriteIntent, Wals, Stages
<1>8. CASE Mutate
  <2>1. wal.logged \in Numbers
    BY <1>8 DEF Mutate, At, Numbers, Stages, Wals
  <2>2. tree' \in Trees
    BY <2>1, <1>8, MutatedIs DEF Mutate, Current
  <2> QED
    BY <2>2, <1>8 DEF Mutate
<1>9. CASE WriteCandidate
  <2>1. tree' \in Trees
    BY <1>9, SMTT(60) DEF WriteCandidate, Trees
  <2>2. wal' \in Wals
    BY <1>9, ForwardSet DEF WriteCandidate
  <2> QED
    BY <2>1, <2>2, <1>9 DEF WriteCandidate
<1>10. CASE ExchangeEnvironment
  <2>1. tree' \in Trees
    BY <1>10, EnvironmentSet DEF ExchangeEnvironment
  <2> QED
    BY <2>1, <1>10 DEF ExchangeEnvironment
<1>11. CASE SettleEnvironment
  <2>1. tree' \in Trees
    BY <1>11, SMTT(60) DEF SettleEnvironment, Trees
  <2>2. wal' \in Wals
    BY <1>11, ForwardSet DEF SettleEnvironment
  <2> QED
    BY <2>1, <2>2, <1>11 DEF SettleEnvironment
<1>12. CASE RecordDone
  <2>1. wal.logged \in Numbers
    BY <1>12 DEF RecordDone, At, Numbers, Stages, Wals
  <2> QED
    BY <2>1, <1>12 DEF RecordDone, Wals
<1>13. CASE Commit
  BY <1>13, SMTT(60) DEF Commit, Verified, Wals, Phases, ForwardPhases, RolledBack,
     Committed
<1>14. CASE GiveUp
  BY <1>14, SMTT(60) DEF GiveUp, Refused, ExchangeAllowed
<1>15. CASE StartRollback
  BY <1>15, SMTT(60) DEF StartRollback, Wals, Phases, ForwardPhases, RolledBack, Committed
<1>16. CASE ResumeForwardEnvironment
  <2>1. tree' \in Trees
    BY <1>16, SMTT(60) DEF ResumeForwardEnvironment, Trees
  <2>2. wal' \in Wals
    BY <1>16, ForwardSet DEF ResumeForwardEnvironment
  <2> QED
    BY <2>1, <2>2, <1>16 DEF ResumeForwardEnvironment
<1>17. CASE SkipCompleted
  BY <1>17, SMTT(60) DEF SkipCompleted, MoreToUndo, NextOperation
<1>18. CASE RecordUndone
  <2>1. Undoing \in Numbers
    BY <1>18, UndoingIs DEF RecordUndone
  <2>2. wal' \in Wals
    BY <2>1, <1>18 DEF RecordUndone, Wals
  <2> QED
    BY <2>2, <1>18 DEF RecordUndone, NextOperation
<1>19. CASE RecordRollbackIntent
  <2>1. Undoing \in Numbers
    BY <1>19, UndoingIs DEF RecordRollbackIntent
  <2> QED
    BY <2>1, <1>19 DEF RecordRollbackIntent, Wals
<1>20. CASE ReverseOperation
  <2>1. MoreToUndo
    BY <1>20 DEF ReverseOperation
  <2>2. Undoing \in Numbers /\ wal.logged > 0
    BY <2>1, UndoingIs DEF Wals
  <2>3. wal.backup \in {"before", "edited"}
    BY <2>1, <2>2 DEF MoreToUndo, Stages, Wals, Undecided, Decided, RolledBack, Committed
  <2>4. tree' \in Trees
    BY <2>2, <2>3, <1>20, ReversedIs DEF ReverseOperation
  <2> QED
    BY <2>4, <1>20 DEF ReverseOperation
<1>21. CASE FailRollback
  BY <1>21, SMTT(60) DEF FailRollback, Conflict, MoreToUndo, Idle, Wals, Phases,
     ForwardPhases, RolledBack, Committed
<1>22. CASE CompleteRollback
  BY <1>22, SMTT(60) DEF CompleteRollback, Wals, Phases, ForwardPhases, RolledBack,
     Committed
<1>23. CASE WriteReceipt
  BY <1>23, SMTT(60) DEF WriteReceipt, Cleanups
<1>24. CASE WriteMetadata
  BY <1>24, SMTT(60) DEF WriteMetadata, Outcome, Cleanups
<1>25. CASE RemoveCompanion
  <2>1. tree' \in Trees
    BY <1>25, MaterialSet DEF RemoveCompanion
  <2>2. cleanup' \in Cleanups
    BY <1>25, CompanionSet DEF RemoveCompanion
  <2> QED
    BY <2>1, <2>2, <1>25 DEF RemoveCompanion, Outcome
<1>26. CASE MarkReceiptComplete
  BY <1>26, SMTT(60) DEF MarkReceiptComplete, Cleanups
<1>27. CASE Bury
  BY <1>27, SMTT(60) DEF Bury
<1>28. CASE RemoveTombstone
  BY <1>28, SMTT(60) DEF RemoveTombstone
<1>29. CASE UnlinkMetadata
  BY <1>29, SMTT(60) DEF UnlinkMetadata, Idle, Cleanups
<1>30. CASE ResumeRollback
  BY <1>30, SMTT(60) DEF ResumeRollback, Openable, Opened, ManifestMatches,
     NotRolledBack, Wals, Phases, ForwardPhases, RolledBack, Committed
<1>31. CASE FinalizeCleanup
  BY <1>31, SMTT(60) DEF FinalizeCleanup, Finalizable, Outcome
<1>32. CASE AcknowledgeRepaired
  BY <1>32 DEF AcknowledgeRepaired
<1>33. CASE Kill
  BY <1>33, SMTT(60) DEF Kill, Idle
<1>34. CASE Fail
  BY <1>34, SMTT(60) DEF Fail, CreationFails, PreparationFails, RollbackFails,
     CleanupFails, MarkFailure, Outcome, Idle, Wals, Phases, ForwardPhases, RolledBack,
     Committed
<1>35. CASE EditEnvironment
  BY <1>35, SMTT(60) DEF EditEnvironment, Trees
<1>36. CASE UNCHANGED vars
  BY <1>36, SMTT(60) DEF vars
<1> QED
  BY <1>1, <1>2, <1>3, <1>4, <1>5, <1>6, <1>7, <1>8, <1>9, <1>10, <1>11, <1>12, <1>13,
     <1>14, <1>15, <1>16, <1>17, <1>18, <1>19, <1>20, <1>21, <1>22, <1>23, <1>24, <1>25,
     <1>26, <1>27, <1>28, <1>29, <1>30, <1>31, <1>32, <1>33, <1>34, <1>35, <1>36
     DEF Next, Forward, Rollback, Clean, Command

-----------------------------------------------------------------------------
(* The stages of the process.                                              *)

\* Every step leaves the journal as its next place expects it.
LEMMA StagesStep ==
  ASSUME Types, Stages, [Next]_vars
  PROVE  Stages'
<1>0. /\ tree \in Trees /\ wal \in Wals /\ cleanup \in Cleanups
      /\ journal \in {"none", "bare", "open", "tombstone", "quarantined"}
      /\ proc \in [pc : Places, at : Nat]
      /\ Len(Plan) \in Nat /\ Len(Plan) > 0
  BY TypesAre, Length
<1> USE <1>0 DEF Places, Wals, Cleanups, At, Go, Stages, Preparing, Cleaning, Undecided,
         Decided, RolledBack, Committed
<1>1. CASE Prepare
  BY <1>1, SMTT(60) DEF Prepare, NoIncompleteTransactions, Untouched, NewWal
<1>2. CASE CreateJournal
  BY <1>2, SMTT(60) DEF CreateJournal, NewWal
<1>3. CASE CreateCompanion
  BY <1>3, SMTT(60) DEF CreateCompanion
<1>4. CASE PersistEnvBackup
  BY <1>4, SMTT(60) DEF PersistEnvBackup, Trees
<1>5. CASE Stage
  BY <1>5, SMTT(60) DEF Stage
<1>6. CASE WriteManifest
  BY <1>6, SMTT(60) DEF WriteManifest, Env
<1>7. CASE WriteIntent
  BY <1>7, SMTT(60) DEF WriteIntent
<1>8. CASE Mutate
  BY <1>8, SMTT(60) DEF Mutate, Current
<1>9. CASE WriteCandidate
  <2>1. wal.logged \in Numbers /\ Current.kind = "env_replace"
    BY <1>9 DEF WriteCandidate, Numbers
  <2>2. wal.logged = Len(Plan)
    BY <2>1, PlanOf DEF Current
  <2> QED
    BY <2>2, <1>9 DEF WriteCandidate
<1>10. CASE ExchangeEnvironment
  BY <1>10, SMTT(60) DEF ExchangeEnvironment, ExchangeAllowed, Env
<1>11. CASE SettleEnvironment
  BY <1>11, SMTT(60) DEF SettleEnvironment
<1>12. CASE RecordDone
  BY <1>12, SMTT(60) DEF RecordDone
<1>13. CASE Commit
  BY <1>13, SMTT(60) DEF Commit, Verified
<1>14. CASE GiveUp
  BY <1>14, SMTT(60) DEF GiveUp, Refused, ExchangeAllowed
<1>15. CASE StartRollback
  BY <1>15, SMTT(60) DEF StartRollback
<1>16. CASE ResumeForwardEnvironment
  BY <1>16, SMTT(60) DEF ResumeForwardEnvironment, ManifestMatches, CandidateKnown, Env
<1>17. CASE SkipCompleted
  BY <1>17, SMTT(60) DEF SkipCompleted, MoreToUndo, NextOperation
<1>18. CASE RecordUndone
  <2>1. Undoing \in 1..wal.logged
    BY <1>18, UndoingIs DEF RecordUndone
  <2> QED
    BY <2>1, <1>18 DEF RecordUndone, NextOperation, MoreToUndo
<1>19. CASE RecordRollbackIntent
  <2>1. Undoing \in 1..wal.logged
    BY <1>19, UndoingIs DEF RecordRollbackIntent
  <2> QED
    BY <2>1, <1>19 DEF RecordRollbackIntent, MoreToUndo
<1>20. CASE ReverseOperation
  BY <1>20, SMTT(60) DEF ReverseOperation, MoreToUndo
<1>21. CASE FailRollback
  BY <1>21, SMTT(60) DEF FailRollback, Conflict, MoreToUndo, Idle
<1>22. CASE CompleteRollback
  BY <1>22, SMTT(60) DEF CompleteRollback
<1>23. CASE WriteReceipt
  BY <1>23, SMTT(60) DEF WriteReceipt
<1>24. CASE WriteMetadata
  BY <1>24, SMTT(60) DEF WriteMetadata, Outcome
<1>25. CASE RemoveCompanion
  BY <1>25, SMTT(60) DEF RemoveCompanion, Outcome
<1>26. CASE MarkReceiptComplete
  BY <1>26, SMTT(60) DEF MarkReceiptComplete
<1>27. CASE Bury
  BY <1>27, SMTT(60) DEF Bury
<1>28. CASE RemoveTombstone
  BY <1>28, SMTT(60) DEF RemoveTombstone
<1>29. CASE UnlinkMetadata
  BY <1>29, SMTT(60) DEF UnlinkMetadata, Idle
<1>30. CASE ResumeRollback
  BY <1>30, SMTT(60) DEF ResumeRollback, Openable, Opened, ManifestMatches,
     NotRolledBack, Phases, ForwardPhases
<1>31. CASE FinalizeCleanup
  BY <1>31, SMTT(60) DEF FinalizeCleanup, Finalizable, Outcome
<1>32. CASE AcknowledgeRepaired
  BY <1>32, SMTT(60) DEF AcknowledgeRepaired
<1>33. CASE Kill
  BY <1>33, SMTT(60) DEF Kill, Idle
<1>34. CASE Fail
  BY <1>34, SMTT(60) DEF Fail, CreationFails, PreparationFails, RollbackFails,
     CleanupFails, MarkFailure, Outcome, Idle
<1>35. CASE EditEnvironment
  BY <1>35, SMTT(60) DEF EditEnvironment
<1>36. CASE UNCHANGED vars
  BY <1>36, SMTT(60) DEF vars
<1> QED
  BY <1>1, <1>2, <1>3, <1>4, <1>5, <1>6, <1>7, <1>8, <1>9, <1>10, <1>11, <1>12, <1>13,
     <1>14, <1>15, <1>16, <1>17, <1>18, <1>19, <1>20, <1>21, <1>22, <1>23, <1>24, <1>25,
     <1>26, <1>27, <1>28, <1>29, <1>30, <1>31, <1>32, <1>33, <1>34, <1>35, <1>36
     DEF Next, Forward, Rollback, Clean, Command

-----------------------------------------------------------------------------
(* What the tree shows.                                                    *)

\* Shows is the model's Happened.
LEMMA HappenedIs == \A q \in Numbers : Happened(Plan[q]) <=> Shows(tree, q)
<1> TAKE q \in Numbers
<1> USE DEF Happened, Shows
<1>1. CASE Plan[q].kind = "mkdir"
  BY <1>1
<1>2. CASE Plan[q].kind = "chmod"
  BY <1>2
<1>3. CASE Plan[q].kind = "active_to_backup"
  BY <1>3
<1>4. CASE Plan[q].kind = "staging_to_active"
  BY <1>4
<1>5. CASE Plan[q].kind = "env_replace"
  BY <1>5
<1> QED
  BY PlanOf, <1>1, <1>2, <1>3, <1>4, <1>5 DEF Kinds

\* What the change of an operation does to one secret.
LEMMA MutatedFields ==
  ASSUME tree \in Trees, NEW c \in Numbers, Plan[c].kind # "env_replace",
         NEW t, t = Mutated(Plan[c])
  PROVE  /\ Plan[c].kind = "mkdir" =>
              /\ t.made = tree.made \cup {Plan[c].on}
              /\ t.active = tree.active /\ t.staged = tree.staged /\ t.kept = tree.kept
              /\ t.private = tree.private /\ t.env = tree.env
         /\ Plan[c].kind = "chmod" =>
              /\ t.private = TRUE
              /\ t.active = tree.active /\ t.staged = tree.staged /\ t.kept = tree.kept
              /\ t.made = tree.made /\ t.env = tree.env
         /\ Plan[c].kind = "active_to_backup" =>
              /\ t.active = [tree.active EXCEPT ![Plan[c].on] = "none"]
              /\ t.kept = tree.kept \cup {Plan[c].on}
              /\ t.staged = tree.staged /\ t.made = tree.made
              /\ t.private = tree.private /\ t.env = tree.env
         /\ Plan[c].kind = "staging_to_active" =>
              /\ t.active = [tree.active EXCEPT ![Plan[c].on] = "new"]
              /\ t.staged = tree.staged \ {Plan[c].on}
              /\ t.kept = tree.kept /\ t.made = tree.made /\ t.private = tree.private
              /\ t.env = tree.env
<1> USE DEF Mutated, Trees
<1>1. CASE Plan[c].kind = "mkdir"
  BY <1>1
<1>2. CASE Plan[c].kind = "chmod"
  BY <1>2
<1>3. CASE Plan[c].kind = "active_to_backup"
  BY <1>3
<1>4. CASE Plan[c].kind = "staging_to_active"
  BY <1>4
<1> QED
  BY PlanOf, <1>1, <1>2, <1>3, <1>4 DEF Kinds

\* What the reversal of an operation does.
LEMMA ReversedFields ==
  ASSUME tree \in Trees, NEW c \in Numbers, NEW t, t = Reversed(Plan[c])
  PROVE  /\ Plan[c].kind = "mkdir" =>
              /\ t.made = tree.made \ {Plan[c].on}
              /\ t.active = tree.active /\ t.staged = tree.staged /\ t.kept = tree.kept
              /\ t.private = tree.private /\ t.env = tree.env
         /\ Plan[c].kind = "chmod" =>
              /\ t.private = FALSE
              /\ t.active = tree.active /\ t.staged = tree.staged /\ t.kept = tree.kept
              /\ t.made = tree.made /\ t.env = tree.env
         /\ Plan[c].kind = "active_to_backup" =>
              /\ t.active = [tree.active EXCEPT ![Plan[c].on] = "old"]
              /\ t.kept = tree.kept \ {Plan[c].on}
              /\ t.staged = tree.staged /\ t.made = tree.made
              /\ t.private = tree.private /\ t.env = tree.env
         /\ Plan[c].kind = "staging_to_active" =>
              /\ t.active = [tree.active EXCEPT ![Plan[c].on] = "none"]
              /\ t.staged = tree.staged \cup {Plan[c].on}
              /\ t.kept = tree.kept /\ t.made = tree.made /\ t.private = tree.private
              /\ t.env = tree.env
         /\ Plan[c].kind = "env_replace" =>
              /\ t.env = wal.backup
              /\ t.active = tree.active /\ t.staged = tree.staged /\ t.kept = tree.kept
              /\ t.made = tree.made /\ t.private = tree.private
<1> USE DEF Reversed, Env, Trees
<1>1. CASE Plan[c].kind = "mkdir"
  BY <1>1
<1>2. CASE Plan[c].kind = "chmod"
  BY <1>2
<1>3. CASE Plan[c].kind = "active_to_backup"
  BY <1>3
<1>4. CASE Plan[c].kind = "staging_to_active"
  BY <1>4
<1>5. CASE Plan[c].kind = "env_replace"
  BY <1>5
<1> QED
  BY PlanOf, <1>1, <1>2, <1>3, <1>4, <1>5 DEF Kinds

\* A change shows only its own operation.
LEMMA MutatedShows ==
  ASSUME tree \in Trees, NEW c \in Numbers, Plan[c].kind # "env_replace",
         NEW t, t = Mutated(Plan[c])
  PROVE  /\ Shows(t, c)
         /\ \A q \in Numbers : Shows(t, q) => q = c \/ Shows(tree, q)
         /\ \A q \in Numbers : Shows(tree, q) =>
              \/ Shows(t, q)
              \/ /\ Plan[c].kind = "active_to_backup"
                 /\ Plan[q].kind = "staging_to_active" /\ Plan[q].on = Plan[c].on
<1>a. tree.active \in [Secrets -> {"none", "old", "new"}]
  BY DEF Trees
<1>b. \A q \in Numbers :
        /\ Plan[q].kind \in Kinds
        /\ Plan[q].kind = "active_to_backup" => Plan[q].on \in Secrets
        /\ Plan[q].kind = "staging_to_active" => Plan[q].on \in Secrets
  BY PlanOf, Given
<1>c. \A q \in Numbers : Plan[q].kind = Plan[c].kind /\ Plan[q].on = Plan[c].on => q = c
  BY PlanHasFacts DEF PlanDistinct
<1>d. \A q \in Numbers : Plan[q].kind = "chmod" /\ Plan[c].kind = "chmod" => q = c
  BY <1>c, PlanOf
<1>1. CASE Plan[c].kind = "mkdir"
  <2>1. /\ t.made = tree.made \cup {Plan[c].on}
        /\ t.active = tree.active /\ t.staged = tree.staged /\ t.kept = tree.kept
        /\ t.private = tree.private /\ t.env = tree.env
    BY <1>1, MutatedFields
  <2>2. Plan[c].on \in 1..Depth
    BY <1>1, PlanOf, Given
  <2> QED
    BY <1>1, <2>1, <2>2, <1>a, <1>b, <1>c, <1>d DEF Kinds, Shows
<1>2. CASE Plan[c].kind = "chmod"
  <2>1. /\ t.private = TRUE
        /\ t.active = tree.active /\ t.staged = tree.staged /\ t.kept = tree.kept
        /\ t.made = tree.made /\ t.env = tree.env
    BY <1>2, MutatedFields
  <2>2. Plan[c].kind # "mkdir"
    BY <1>2, PlanOf, Given
  <2> QED
    BY <1>2, <2>1, <2>2, <1>a, <1>b, <1>c, <1>d DEF Kinds, Shows
<1>3. CASE Plan[c].kind = "active_to_backup"
  <2>1. /\ t.active = [tree.active EXCEPT ![Plan[c].on] = "none"]
        /\ t.kept = tree.kept \cup {Plan[c].on}
        /\ t.staged = tree.staged /\ t.made = tree.made /\ t.private = tree.private
        /\ t.env = tree.env
    BY <1>3, MutatedFields
  <2>2. Plan[c].on \in Secrets
    BY <1>3, PlanOf, Given
  <2> QED
    BY <1>3, <2>1, <2>2, <1>a, <1>b, <1>c, <1>d DEF Kinds, Shows
<1>4. CASE Plan[c].kind = "staging_to_active"
  <2>1. /\ t.active = [tree.active EXCEPT ![Plan[c].on] = "new"]
        /\ t.staged = tree.staged \ {Plan[c].on}
        /\ t.kept = tree.kept /\ t.made = tree.made /\ t.private = tree.private
        /\ t.env = tree.env
    BY <1>4, MutatedFields
  <2>2. Plan[c].on \in Secrets
    BY <1>4, PlanOf, Given
  <2> QED
    BY <1>4, <2>1, <2>2, <1>a, <1>b, <1>c, <1>d DEF Kinds, Shows
<1> QED
  BY <1>b, <1>1, <1>2, <1>3, <1>4 DEF Kinds

\* A reversal makes nothing happen.
LEMMA ReversedShows ==
  ASSUME tree \in Trees, NEW c \in Numbers, wal.backup # "after",
         NEW t, t = Reversed(Plan[c])
  PROVE  \A q \in Numbers : Shows(t, q) => Shows(tree, q)
<1>a. tree.active \in [Secrets -> {"none", "old", "new"}]
  BY DEF Trees
<1>b. \A q \in Numbers :
        /\ Plan[q].kind \in Kinds
        /\ Plan[q].kind = "active_to_backup" => Plan[q].on \in Secrets
        /\ Plan[q].kind = "staging_to_active" => Plan[q].on \in Secrets
  BY PlanOf, Given
<1>1. CASE Plan[c].kind = "mkdir"
  <2>1. /\ t.made = tree.made \ {Plan[c].on}
        /\ t.active = tree.active /\ t.staged = tree.staged /\ t.kept = tree.kept
        /\ t.private = tree.private /\ t.env = tree.env
    BY <1>1, ReversedFields
  <2>2. Plan[c].on \in 1..Depth
    BY <1>1, PlanOf, Given
  <2> QED
    BY <1>1, <2>1, <2>2, <1>a, <1>b DEF Kinds, Shows
<1>2. CASE Plan[c].kind = "chmod"
  <2>1. /\ t.private = FALSE
        /\ t.active = tree.active /\ t.staged = tree.staged /\ t.kept = tree.kept
        /\ t.made = tree.made /\ t.env = tree.env
    BY <1>2, ReversedFields
  <2>2. Plan[c].kind # "mkdir"
    BY <1>2, PlanOf, Given
  <2> QED
    BY <1>2, <2>1, <2>2, <1>a, <1>b DEF Kinds, Shows
<1>3. CASE Plan[c].kind = "active_to_backup"
  <2>1. /\ t.active = [tree.active EXCEPT ![Plan[c].on] = "old"]
        /\ t.kept = tree.kept \ {Plan[c].on}
        /\ t.staged = tree.staged /\ t.made = tree.made /\ t.private = tree.private
        /\ t.env = tree.env
    BY <1>3, ReversedFields
  <2>2. Plan[c].on \in Secrets
    BY <1>3, PlanOf, Given
  <2> QED
    BY <1>3, <2>1, <2>2, <1>a, <1>b DEF Kinds, Shows
<1>4. CASE Plan[c].kind = "staging_to_active"
  <2>1. /\ t.active = [tree.active EXCEPT ![Plan[c].on] = "none"]
        /\ t.staged = tree.staged \cup {Plan[c].on}
        /\ t.kept = tree.kept /\ t.made = tree.made /\ t.private = tree.private
        /\ t.env = tree.env
    BY <1>4, ReversedFields
  <2>2. Plan[c].on \in Secrets
    BY <1>4, PlanOf, Given
  <2> QED
    BY <1>4, <2>1, <2>2, <1>a, <1>b DEF Kinds, Shows
<1>5. CASE Plan[c].kind = "env_replace"
  <2>1. /\ t.env = wal.backup
        /\ t.active = tree.active /\ t.staged = tree.staged /\ t.kept = tree.kept
        /\ t.made = tree.made /\ t.private = tree.private
    BY <1>5, ReversedFields
  <2>2. Plan[c].kind # "mkdir"
    BY <1>5, PlanOf, Given
  <2> QED
    BY <1>5, <2>1, <2>2, <1>a, <1>b DEF Kinds, Shows
<1> QED
  BY <1>b, <1>1, <1>2, <1>3, <1>4, <1>5 DEF Kinds

-----------------------------------------------------------------------------
(* The tree while the transaction is undecided.                            *)

\* A secret is published after the old one is put aside.
LEMMA KeptFirst ==
  ASSUME NEW q \in Numbers, NEW r \in Numbers, Plan[q].kind = "active_to_backup",
         Plan[r].kind = "staging_to_active"
  PROVE  q < r
<1>1. ~(q > r)
  BY PlanHasFacts DEF PlanOrdered, Priority
<1>2. q # r
  OBVIOUS
<1> QED
  BY <1>1, <1>2 DEF Numbers

\* Where an undecided transaction comes from.
LEMMA UndecidedBefore ==
  ASSUME Types, Stages, [Next]_vars, Undecided'
  PROVE  /\ Undecided \/ Prepare
         /\ ~Prepare => wal'.logged >= wal.logged
         /\ /\ wal'.logged > 0 \/ (Preparing /\ proc.pc \notin {"companion", "save", "stage"})'
            /\ ~Prepare /\ ~Stage
            => wal.logged > 0 \/ (Preparing /\ proc.pc \notin {"companion", "save", "stage"})
<1>0. wal \in Wals /\ proc \in [pc : Places, at : Nat] /\ Len(Plan) \in Nat
  BY TypesAre, Length
<1> USE <1>0 DEF Wals, Places, At, Go, Stages, Preparing, Cleaning, Undecided, Decided,
      RolledBack,
         Committed
<1>1. CASE Prepare
  BY <1>1, SMTT(60) DEF Prepare, NoIncompleteTransactions, Untouched, NewWal
<1>2. CASE CreateJournal
  BY <1>2, SMTT(60) DEF CreateJournal
<1>3. CASE CreateCompanion
  BY <1>3, SMTT(60) DEF CreateCompanion
<1>4. CASE PersistEnvBackup
  BY <1>4, SMTT(60) DEF PersistEnvBackup
<1>5. CASE Stage
  BY <1>5, SMTT(60) DEF Stage
<1>6. CASE WriteManifest
  BY <1>6, SMTT(60) DEF WriteManifest, Env
<1>7. CASE WriteIntent
  BY <1>7, SMTT(60) DEF WriteIntent
<1>8. CASE Mutate
  BY <1>8, SMTT(60) DEF Mutate, Current
<1>9. CASE WriteCandidate
  BY <1>9, SMTT(60) DEF WriteCandidate, Current
<1>10. CASE ExchangeEnvironment
  BY <1>10, SMTT(60) DEF ExchangeEnvironment, ExchangeAllowed, Env
<1>11. CASE SettleEnvironment
  BY <1>11, SMTT(60) DEF SettleEnvironment
<1>12. CASE RecordDone
  BY <1>12, SMTT(60) DEF RecordDone
<1>13. CASE Commit
  BY <1>13, SMTT(60) DEF Commit, Verified
<1>14. CASE GiveUp
  BY <1>14, SMTT(60) DEF GiveUp, Refused, ExchangeAllowed
<1>15. CASE StartRollback
  BY <1>15, SMTT(60) DEF StartRollback
<1>16. CASE ResumeForwardEnvironment
  BY <1>16, SMTT(60) DEF ResumeForwardEnvironment, ManifestMatches, CandidateKnown, Env
<1>17. CASE SkipCompleted
  BY <1>17, SMTT(60) DEF SkipCompleted, MoreToUndo, NextOperation
<1>18. CASE RecordUndone
  BY <1>18, SMTT(60) DEF RecordUndone, MoreToUndo, NextOperation
<1>19. CASE RecordRollbackIntent
  BY <1>19, SMTT(60) DEF RecordRollbackIntent, MoreToUndo
<1>20. CASE ReverseOperation
  BY <1>20, SMTT(60) DEF ReverseOperation, MoreToUndo
<1>21. CASE FailRollback
  BY <1>21, SMTT(60) DEF FailRollback, Conflict, MoreToUndo, Idle
<1>22. CASE CompleteRollback
  BY <1>22, SMTT(60) DEF CompleteRollback
<1>23. CASE WriteReceipt
  BY <1>23, SMTT(60) DEF WriteReceipt
<1>24. CASE WriteMetadata
  BY <1>24, SMTT(60) DEF WriteMetadata, Outcome
<1>25. CASE RemoveCompanion
  BY <1>25, SMTT(60) DEF RemoveCompanion, Outcome
<1>26. CASE MarkReceiptComplete
  BY <1>26, SMTT(60) DEF MarkReceiptComplete
<1>27. CASE Bury
  BY <1>27, SMTT(60) DEF Bury
<1>28. CASE RemoveTombstone
  BY <1>28, SMTT(60) DEF RemoveTombstone
<1>29. CASE UnlinkMetadata
  BY <1>29, SMTT(60) DEF UnlinkMetadata, Idle
<1>30. CASE ResumeRollback
  BY <1>30, SMTT(60) DEF ResumeRollback, Openable, Opened, ManifestMatches, NotRolledBack
<1>31. CASE FinalizeCleanup
  BY <1>31, SMTT(60) DEF FinalizeCleanup, Finalizable, Outcome
<1>32. CASE AcknowledgeRepaired
  BY <1>32, SMTT(60) DEF AcknowledgeRepaired
<1>33. CASE Kill
  BY <1>33, SMTT(60) DEF Kill, Idle
<1>34. CASE Fail
  BY <1>34, SMTT(60) DEF Fail, CreationFails, PreparationFails, RollbackFails,
     CleanupFails, MarkFailure, Outcome, Idle
<1>35. CASE EditEnvironment
  BY <1>35, SMTT(60) DEF EditEnvironment
<1>36. CASE UNCHANGED vars
  BY <1>36, SMTT(60) DEF vars
<1> QED
  BY <1>1, <1>2, <1>3, <1>4, <1>5, <1>6, <1>7, <1>8, <1>9, <1>10, <1>11, <1>12, <1>13,
     <1>14, <1>15, <1>16, <1>17, <1>18, <1>19, <1>20, <1>21, <1>22, <1>23, <1>24, <1>25,
     <1>26, <1>27, <1>28, <1>29, <1>30, <1>31, <1>32, <1>33, <1>34, <1>35, <1>36
     DEF Next, Forward, Rollback, Clean, Command

\* A step that leaves the secrets alone keeps it.
LEMMA UnderwayKept ==
  ASSUME Underway, Undecided, wal.logged \in Nat, wal'.logged \in Nat,
         tree'.active = tree.active, tree'.staged = tree.staged, tree'.kept = tree.kept,
         \A q \in Numbers : Shows(tree', q) => Shows(tree, q) \/ q <= wal'.logged,
         wal'.logged >= wal.logged,
         wal'.logged > 0 \/ (Preparing /\ proc.pc \notin {"companion", "save", "stage"})'
         => wal.logged > 0 \/ (Preparing /\ proc.pc \notin {"companion", "save", "stage"})
  PROVE  Underway'
<1> HIDE DEF Shows
<1>1. \A q \in Numbers : Shows(tree', q) => q <= wal'.logged
  BY DEF Underway, Numbers
<1> QED
  BY <1>1 DEF Underway

\* The secrets after a change.
LEMMA MutateUnderway ==
  ASSUME Types, Stages, Underway, Exact, Undecided, Mutate
  PROVE  /\ \A s \in Existing : s \in tree'.kept <=> tree'.active[s] # "old"
         /\ \A s \in Secrets \ Existing : tree'.active[s] # "old"
         /\ \A s \in Secrets : s \in tree'.staged <=> tree'.active[s] # "new"
         /\ \A q \in Numbers : Shows(tree', q) => q <= wal.logged
<1> DEFINE c == wal.logged
<1>0. /\ tree \in Trees /\ wal \in Wals /\ Len(Plan) \in Nat /\ Existing \subseteq Secrets
      /\ tree.active \in [Secrets -> {"none", "old", "new"}]
  BY TypesAre, Length, Given DEF Trees
<1>1. /\ At("mutate") /\ Preparing /\ c \in Numbers /\ c \in Nat
      /\ Plan[c].kind # "env_replace"
      /\ tree' = Mutated(Plan[c])
  BY <1>0 DEF Mutate, At, Preparing, Stages, Current, Wals, Numbers
<1>2. /\ \A s \in Existing : s \in tree.kept <=> tree.active[s] # "old"
      /\ \A s \in Secrets \ Existing : tree.active[s] # "old"
      /\ \A s \in Secrets : s \in tree.staged <=> tree.active[s] # "new"
      /\ \A q \in Numbers : Shows(tree, q) => q <= c
  BY <1>1 DEF Underway, At
<1>3. \A q \in Numbers : Shows(tree', q) => q <= c
  <2>1. \A q \in Numbers : Shows(tree', q) => q = c \/ Shows(tree, q)
    BY <1>0, <1>1, MutatedShows
  <2> QED
    BY <2>1, <1>2, <1>1
<1> HIDE DEF c
<1>7. /\ Plan[c].kind = "active_to_backup" =>
           /\ tree'.active = [tree.active EXCEPT ![Plan[c].on] = "none"]
           /\ tree'.kept = tree.kept \cup {Plan[c].on}
           /\ tree'.staged = tree.staged
      /\ Plan[c].kind = "staging_to_active" =>
           /\ tree'.active = [tree.active EXCEPT ![Plan[c].on] = "new"]
           /\ tree'.staged = tree.staged \ {Plan[c].on}
           /\ tree'.kept = tree.kept
  <2>1. /\ tree \in Trees /\ c \in Numbers /\ Plan[c].kind # "env_replace"
        /\ tree' = Mutated(Plan[c])
    BY <1>0, <1>1
  <2>2. CASE Plan[c].kind = "active_to_backup"
    BY <2>1, <2>2, MutatedFields
  <2>3. CASE Plan[c].kind = "staging_to_active"
    BY <2>1, <2>3, MutatedFields
  <2> QED
    BY <2>2, <2>3
<1> DEFINE x == Plan[c].on
<1>4. CASE Plan[c].kind \in {"mkdir", "chmod"}
  <2>1. tree'.active = tree.active /\ tree'.staged = tree.staged /\ tree'.kept = tree.kept
    <3>1. /\ tree \in Trees /\ c \in Numbers /\ Plan[c].kind # "env_replace"
          /\ tree' = Mutated(Plan[c])
      BY <1>0, <1>1
    <3>2. CASE Plan[c].kind = "mkdir"
      BY <3>1, <3>2, MutatedFields
    <3>3. CASE Plan[c].kind = "chmod"
      BY <3>1, <3>3, MutatedFields
    <3> QED
      BY <1>4, <3>2, <3>3
  <2> QED
    BY <2>1, <1>2, <1>3 DEF c
<1>5. CASE Plan[c].kind = "active_to_backup"
  <2>1. /\ tree'.active = [tree.active EXCEPT ![x] = "none"]
        /\ tree'.kept = tree.kept \cup {x}
        /\ tree'.staged = tree.staged
    BY <1>5, <1>7
  <2>2. x \in Existing /\ x \in Secrets
    BY <1>0, <1>1, <1>5, PlanOf
  <2>3. tree.active[x] # "new"
    <3>1. PICK q \in Numbers : Plan[q] = Op("staging_to_active", x)
      BY <2>2, PlanHasFacts DEF PlanCovers
    <3>2. Plan[q].kind = "staging_to_active" /\ Plan[q].on = x
      BY <3>1 DEF Op
    <3>3. c < q
      BY <3>2, <1>1, <1>5, KeptFirst
    <3>4. ~Shows(tree, q)
      BY <3>3, <1>2, <1>1 DEF Numbers
    <3> QED
      BY <3>2, <3>4 DEF Shows
  <2> HIDE DEF x, c
  <2>4. \A s \in Existing : s \in tree'.kept <=> tree'.active[s] # "old"
    BY <2>1, <2>2, <2>3, <1>0, <1>2
  <2>5. \A s \in Secrets \ Existing : tree'.active[s] # "old"
    BY <2>1, <2>2, <2>3, <1>0, <1>2
  <2>6. \A s \in Secrets : s \in tree'.staged <=> tree'.active[s] # "new"
    BY <2>1, <2>2, <2>3, <1>0, <1>2
  <2> QED
    BY <2>4, <2>5, <2>6, <1>3 DEF c
<1>6. CASE Plan[c].kind = "staging_to_active"
  <2>1. /\ tree'.active = [tree.active EXCEPT ![x] = "new"] 
        /\ tree'.staged = tree.staged \ {x}
        /\ tree'.kept = tree.kept
    BY <1>6, <1>7
  <2>2. x \in Secrets
    BY <1>1, <1>6, PlanOf
  <2>3. x \in Existing => x \in tree.kept
    <3> SUFFICES ASSUME x \in Existing PROVE x \in tree.kept
      OBVIOUS
    <3>1. PICK q \in Numbers : Plan[q] = Op("active_to_backup", x)
      BY PlanHasFacts DEF PlanCovers
    <3>2. Plan[q].kind = "active_to_backup" /\ Plan[q].on = x
      BY <3>1 DEF Op
    <3>3. q < c
      BY <3>2, <1>1, <1>6, KeptFirst
    <3>4. Shows(tree, q)
      BY <3>2, <3>3, <1>1, <1>0, PlanOf DEF Exact, Numbers, c
    <3> QED
      BY <3>2, <3>4 DEF Shows
  <2> HIDE DEF x, c
  <2>4. \A s \in Existing : s \in tree'.kept <=> tree'.active[s] # "old"
    BY <2>1, <2>2, <2>3, <1>0, <1>2
  <2>5. \A s \in Secrets \ Existing : tree'.active[s] # "old"
    BY <2>1, <2>2, <2>3, <1>0, <1>2
  <2>6. \A s \in Secrets : s \in tree'.staged <=> tree'.active[s] # "new"
    BY <2>1, <2>2, <2>3, <1>0, <1>2
  <2> QED
    BY <2>4, <2>5, <2>6, <1>3 DEF c
<1> QED
  BY <1>1, <1>4, <1>5, <1>6, PlanOf DEF Kinds

\* The secrets after a reversal.
LEMMA ReverseUnderway ==
  ASSUME Types, Stages, Underway, Undecided, ReverseOperation
  PROVE  /\ \A s \in Existing : s \in tree'.kept <=> tree'.active[s] # "old"
         /\ \A s \in Secrets \ Existing : tree'.active[s] # "old"
         /\ \A s \in Secrets : s \in tree'.staged <=> tree'.active[s] # "new"
         /\ \A q \in Numbers : Shows(tree', q) => Shows(tree, q)
<1> DEFINE c == Undoing
<1>0. /\ tree \in Trees /\ wal \in Wals /\ Len(Plan) \in Nat /\ Existing \subseteq Secrets
      /\ tree.active \in [Secrets -> {"none", "old", "new"}]
  BY TypesAre, Length, Given DEF Trees
<1>1. /\ c \in Numbers /\ wal.logged > 0 /\ Classify(Plan[c]) = "executed"
      /\ tree' = Reversed(Plan[c])
  <2>1. MoreToUndo /\ c \in 1..wal.logged /\ c \in Numbers
    BY UndoingIs DEF ReverseOperation
  <2>2. wal.logged > 0
    BY <2>1, <1>0 DEF Wals
  <2> QED
    BY <2>1, <2>2 DEF ReverseOperation
<1>2. /\ \A s \in Existing : s \in tree.kept <=> tree.active[s] # "old"
      /\ \A s \in Secrets \ Existing : tree.active[s] # "old"
      /\ \A s \in Secrets : s \in tree.staged <=> tree.active[s] # "new"
  BY <1>1 DEF Underway
<1> HIDE DEF c
<1>3. \A q \in Numbers : Shows(tree', q) => Shows(tree, q)
  BY <1>0, <1>1, ReversedShows DEF Wals
<1> DEFINE x == Plan[c].on
<1>4. CASE Plan[c].kind \in {"mkdir", "chmod", "env_replace"}
  <2>1. tree'.active = tree.active /\ tree'.staged = tree.staged /\ tree'.kept = tree.kept
    BY <1>0, <1>1, <1>4, ReversedFields, ZenonT(60)
  <2> QED
    BY <2>1, <1>2, <1>3
<1>5. CASE Plan[c].kind = "active_to_backup"
  <2>1. /\ tree'.active = [tree.active EXCEPT ![x] = "old"] /\ tree'.staged = tree.staged
        /\ tree'.kept = tree.kept \ {x}
    BY <1>0, <1>1, <1>5, ReversedFields, ZenonT(60)
  <2>2. x \in Existing /\ x \in Secrets
    BY <1>0, <1>1, <1>5, PlanOf
  <2>3. tree.active[x] = "none"
    BY <1>1, <1>5 DEF Classify
  <2> HIDE DEF x
  <2>4. \A s \in Existing : s \in tree'.kept <=> tree'.active[s] # "old"
    BY <2>1, <2>2, <2>3, <1>0, <1>2
  <2>5. \A s \in Secrets \ Existing : tree'.active[s] # "old"
    BY <2>1, <2>2, <2>3, <1>0, <1>2
  <2>6. \A s \in Secrets : s \in tree'.staged <=> tree'.active[s] # "new"
    BY <2>1, <2>2, <2>3, <1>0, <1>2
  <2> QED
    BY <2>4, <2>5, <2>6, <1>3
<1>6. CASE Plan[c].kind = "staging_to_active"
  <2>1. /\ tree'.active = [tree.active EXCEPT ![x] = "none"] 
        /\ tree'.staged = tree.staged \cup {x}
        /\ tree'.kept = tree.kept
    BY <1>0, <1>1, <1>6, ReversedFields, ZenonT(60)
  <2>2. x \in Secrets
    BY <1>1, <1>6, PlanOf
  <2>3. x \notin tree.staged
    BY <1>1, <1>6 DEF Classify
  <2> HIDE DEF x
  <2>4. \A s \in Existing : s \in tree'.kept <=> tree'.active[s] # "old"
    BY <2>1, <2>2, <2>3, <1>0, <1>2
  <2>5. \A s \in Secrets \ Existing : tree'.active[s] # "old"
    BY <2>1, <2>2, <2>3, <1>0, <1>2
  <2>6. \A s \in Secrets : s \in tree'.staged <=> tree'.active[s] # "new"
    BY <2>1, <2>2, <2>3, <1>0, <1>2
  <2> QED
    BY <2>4, <2>5, <2>6, <1>3
<1> QED
  BY <1>1, <1>4, <1>5, <1>6, PlanOf DEF Kinds

\* Every step keeps the tree of an undecided transaction in line with its journal.
LEMMA UnderwayStep ==
  ASSUME Types, Stages, Underway, Exact, [Next]_vars
  PROVE  Underway'
<1> SUFFICES ASSUME Undecided' PROVE Underway'
  BY DEF Underway
<1>0. /\ tree \in Trees /\ wal \in Wals /\ Len(Plan) \in Nat
  BY TypesAre, Length
<1>u. /\ Undecided \/ Prepare
      /\ ~Prepare => wal'.logged >= wal.logged
      /\ /\ wal'.logged > 0 \/ (Preparing /\ proc.pc \notin {"companion", "save", "stage"})'
         /\ ~Prepare /\ ~Stage
         => wal.logged > 0 \/ (Preparing /\ proc.pc \notin {"companion", "save", "stage"})
  BY UndecidedBefore
<1>l. wal.logged \in Nat /\ wal'.logged \in Nat
  BY <1>0, TypesStep, TypesAreAfter DEF Wals
<1> USE <1>0
<1>p. CASE Prepare
  <2>1. /\ tree' = Untouched /\ wal' = NewWal
        /\ ~(Preparing /\ proc.pc \notin {"companion", "save", "stage"})'
    BY <1>p, TypesStep, TypesAreAfter DEF Prepare, Go, Preparing, At, Places
  <2>2. \A q \in Numbers : ~Shows(Untouched, q)
    BY Given, PlanOf DEF Untouched, Shows
  <2>3. /\ tree'.active = [s \in Secrets |-> IF s \in Existing THEN "old" ELSE "none"]
        /\ tree'.kept = {} /\ wal'.logged = 0
    BY <2>1 DEF Untouched, NewWal
  <2> HIDE DEF Shows
  <2> QED
    BY <2>1, <2>2, <2>3, Given DEF Underway
<1>s. CASE Stage
  <2>1. /\ Undecided /\ wal.logged = 0
        /\ tree' = [tree EXCEPT !.staged = Secrets] /\ UNCHANGED wal
    BY <1>s DEF Stage, Stages, Preparing, At, Undecided, Decided, RolledBack, Committed
  <2>2. ASSUME NEW s \in Secrets PROVE tree.active[s] # "new"
    <3>1. PICK q \in Numbers : Plan[q] = Op("staging_to_active", s)
      BY PlanHasFacts DEF PlanCovers
    <3>2. ~Shows(tree, q)
      BY <2>1 DEF Numbers, Underway
    <3> QED
      BY <3>1, <3>2 DEF Shows, Op
  <2>3. /\ tree'.active = tree.active /\ tree'.staged = Secrets /\ tree'.kept = tree.kept
        /\ tree'.made = tree.made /\ tree'.private = tree.private /\ tree'.env = tree.env
    BY <2>1 DEF Trees
  <2>4. \A q \in Numbers : Shows(tree', q) => Shows(tree, q)
    BY <2>3 DEF Shows
  <2> QED
    BY <2>1, <2>2, <2>3, <2>4 DEF Underway
<1> SUFFICES ASSUME ~Prepare, ~Stage PROVE Underway'
  BY <1>p, <1>s
<1>1. CASE CreateJournal
  <2>1. UNCHANGED tree
    BY <1>1 DEF CreateJournal
  <2> QED
    BY <2>1, <1>u, <1>l, UnderwayKept
<1>2. CASE CreateCompanion
  <2>1. UNCHANGED tree
    BY <1>2 DEF CreateCompanion
  <2> QED
    BY <2>1, <1>u, <1>l, UnderwayKept
<1>3. CASE PersistEnvBackup
  <2>1. UNCHANGED tree
    BY <1>3 DEF PersistEnvBackup
  <2> QED
    BY <2>1, <1>u, <1>l, UnderwayKept
<1>4. CASE WriteManifest
  <2>1. UNCHANGED tree
    BY <1>4 DEF WriteManifest
  <2> QED
    BY <2>1, <1>u, <1>l, UnderwayKept
<1>5. CASE WriteIntent
  <2>1. UNCHANGED tree
    BY <1>5 DEF WriteIntent
  <2> QED
    BY <2>1, <1>u, <1>l, UnderwayKept
<1>6. CASE Mutate
  <2>1. Undecided /\ UNCHANGED wal
    BY <1>6, <1>u DEF Mutate
  <2> QED
    BY <2>1, <1>6, MutateUnderway DEF Underway
<1>7. CASE WriteCandidate
  <2>1. /\ tree'.active = tree.active /\ tree'.staged = tree.staged
        /\ tree'.kept = tree.kept
        /\ tree'.made = tree.made /\ tree'.private = tree.private
        /\ tree'.env = tree.env
    BY <1>7 DEF WriteCandidate, Trees
  <2>2. \A q \in Numbers : Shows(tree', q) => Shows(tree, q) \/ q <= wal'.logged
    BY <2>1 DEF Shows
  <2> QED
    BY <2>1, <2>2, <1>u, <1>l, UnderwayKept
<1>8. CASE ExchangeEnvironment
  <2>1. /\ tree'.active = tree.active /\ tree'.staged = tree.staged
        /\ tree'.kept = tree.kept
        /\ tree'.made = tree.made /\ tree'.private = tree.private
        /\ wal'.logged = Len(Plan)
    BY <1>8 DEF ExchangeEnvironment, Trees, Stages, At
  <2>2. \A q \in Numbers : Shows(tree', q) => Shows(tree, q) \/ q <= wal'.logged
    BY <2>1, PlanOf DEF Shows
  <2> QED
    BY <2>1, <2>2, <1>u, <1>l, UnderwayKept
<1>9. CASE SettleEnvironment
  <2>1. /\ tree'.active = tree.active /\ tree'.staged = tree.staged
        /\ tree'.kept = tree.kept
        /\ tree'.made = tree.made /\ tree'.private = tree.private
        /\ tree'.env = tree.env
    BY <1>9 DEF SettleEnvironment, Trees
  <2>2. \A q \in Numbers : Shows(tree', q) => Shows(tree, q) \/ q <= wal'.logged
    BY <2>1 DEF Shows
  <2> QED
    BY <2>1, <2>2, <1>u, <1>l, UnderwayKept
<1>10. CASE RecordDone
  <2>1. UNCHANGED tree
    BY <1>10 DEF RecordDone
  <2> QED
    BY <2>1, <1>u, <1>l, UnderwayKept
<1>11. CASE Commit
  <2>1. UNCHANGED tree
    BY <1>11 DEF Commit
  <2> QED
    BY <2>1, <1>u, <1>l, UnderwayKept
<1>12. CASE GiveUp
  <2>1. UNCHANGED tree
    BY <1>12 DEF GiveUp, Refused
  <2> QED
    BY <2>1, <1>u, <1>l, UnderwayKept
<1>13. CASE StartRollback
  <2>1. UNCHANGED tree
    BY <1>13 DEF StartRollback
  <2> QED
    BY <2>1, <1>u, <1>l, UnderwayKept
<1>14. CASE ResumeForwardEnvironment
  <2>1. /\ tree'.active = tree.active /\ tree'.staged = tree.staged
        /\ tree'.kept = tree.kept
        /\ tree'.made = tree.made /\ tree'.private = tree.private
        /\ tree'.env = tree.env
    BY <1>14 DEF ResumeForwardEnvironment, Trees
  <2>2. \A q \in Numbers : Shows(tree', q) => Shows(tree, q) \/ q <= wal'.logged
    BY <2>1 DEF Shows
  <2> QED
    BY <2>1, <2>2, <1>u, <1>l, UnderwayKept
<1>15. CASE SkipCompleted
  <2>1. UNCHANGED tree
    BY <1>15 DEF SkipCompleted, MoreToUndo
  <2> QED
    BY <2>1, <1>u, <1>l, UnderwayKept
<1>16. CASE RecordUndone
  <2>1. UNCHANGED tree
    BY <1>16 DEF RecordUndone, MoreToUndo
  <2> QED
    BY <2>1, <1>u, <1>l, UnderwayKept
<1>17. CASE RecordRollbackIntent
  <2>1. UNCHANGED tree
    BY <1>17 DEF RecordRollbackIntent, MoreToUndo
  <2> QED
    BY <2>1, <1>u, <1>l, UnderwayKept
<1>18. CASE ReverseOperation
  <2>1. Undecided /\ UNCHANGED wal
    BY <1>18, <1>u DEF ReverseOperation
  <2>2. \A q \in Numbers : Shows(tree, q) => q <= wal.logged
    BY <2>1 DEF Underway
  <2> QED
    BY <2>1, <2>2, <1>18, ReverseUnderway DEF Underway
<1>19. CASE FailRollback
  <2>1. UNCHANGED tree
    BY <1>19 DEF FailRollback, Conflict, MoreToUndo
  <2> QED
    BY <2>1, <1>u, <1>l, UnderwayKept
<1>20. CASE CompleteRollback
  <2>1. UNCHANGED tree
    BY <1>20 DEF CompleteRollback
  <2> QED
    BY <2>1, <1>u, <1>l, UnderwayKept
<1>21. CASE WriteReceipt
  <2>1. UNCHANGED tree
    BY <1>21 DEF WriteReceipt
  <2> QED
    BY <2>1, <1>u, <1>l, UnderwayKept
<1>22. CASE WriteMetadata
  <2>1. UNCHANGED tree
    BY <1>22 DEF WriteMetadata
  <2> QED
    BY <2>1, <1>u, <1>l, UnderwayKept
<1>23. CASE RemoveCompanion
  <2>1. ~Undecided
    BY <1>23 DEF RemoveCompanion, Stages, Cleaning, At
  <2> QED
    BY <2>1, <1>u
<1>24. CASE MarkReceiptComplete
  <2>1. UNCHANGED tree
    BY <1>24 DEF MarkReceiptComplete
  <2> QED
    BY <2>1, <1>u, <1>l, UnderwayKept
<1>25. CASE Bury
  <2>1. UNCHANGED tree
    BY <1>25 DEF Bury
  <2> QED
    BY <2>1, <1>u, <1>l, UnderwayKept
<1>26. CASE RemoveTombstone
  <2>1. UNCHANGED tree
    BY <1>26 DEF RemoveTombstone
  <2> QED
    BY <2>1, <1>u, <1>l, UnderwayKept
<1>27. CASE UnlinkMetadata
  <2>1. UNCHANGED tree
    BY <1>27 DEF UnlinkMetadata
  <2> QED
    BY <2>1, <1>u, <1>l, UnderwayKept
<1>28. CASE ResumeRollback
  <2>1. UNCHANGED tree
    BY <1>28 DEF ResumeRollback
  <2> QED
    BY <2>1, <1>u, <1>l, UnderwayKept
<1>29. CASE FinalizeCleanup
  <2>1. UNCHANGED tree
    BY <1>29 DEF FinalizeCleanup
  <2> QED
    BY <2>1, <1>u, <1>l, UnderwayKept
<1>30. CASE AcknowledgeRepaired
  <2>1. UNCHANGED tree
    BY <1>30 DEF AcknowledgeRepaired
  <2> QED
    BY <2>1, <1>u, <1>l, UnderwayKept
<1>31. CASE Kill
  <2>1. UNCHANGED tree
    BY <1>31 DEF Kill
  <2> QED
    BY <2>1, <1>u, <1>l, UnderwayKept
<1>32. CASE Fail
  <2>1. UNCHANGED tree
    BY <1>32 DEF Fail, CreationFails, PreparationFails, RollbackFails, CleanupFails,
       Preparing, Cleaning
  <2> QED
    BY <2>1, <1>u, <1>l, UnderwayKept
<1>33. CASE EditEnvironment
  <2>1. /\ tree'.active = tree.active /\ tree'.staged = tree.staged
        /\ tree'.kept = tree.kept
        /\ tree'.made = tree.made /\ tree'.private = tree.private
        /\ tree'.env = "edited"
    BY <1>33 DEF EditEnvironment, Trees
  <2>2. \A q \in Numbers : Shows(tree', q) => Shows(tree, q) \/ q <= wal'.logged
    BY <2>1 DEF Shows
  <2> QED
    BY <2>1, <2>2, <1>u, <1>l, UnderwayKept
<1>34. CASE UNCHANGED vars
  BY <1>34, <1>u, <1>l, UnderwayKept DEF vars
<1> QED
  BY <1>1, <1>2, <1>3, <1>4, <1>5, <1>6, <1>7, <1>8, <1>9, <1>10, <1>11, <1>12, <1>13,
     <1>14, <1>15, <1>16, <1>17, <1>18, <1>19, <1>20, <1>21, <1>22, <1>23, <1>24, <1>25,
     <1>26, <1>27, <1>28, <1>29, <1>30, <1>31, <1>32, <1>33, <1>34
     DEF Next, Forward, Rollback, Clean, Command

-----------------------------------------------------------------------------
(* What was done and what was undone.                                      *)

\* What looks undone did not happen.
LEMMA SafeShowsNot ==
  ASSUME Types, Stages, NEW q \in Numbers,
         ReverseStateIsSafe(Plan[q]) \/ Classify(Plan[q]) = "not_executed"
  PROVE  ~Shows(tree, q)
<1>0. wal.backup # "after" /\ Plan[q].kind \in Kinds
  BY TypesAre, PlanOf DEF Wals
<1> USE <1>0 DEF ReverseStateIsSafe, Classify, Shows, Env
<1>1. CASE Plan[q].kind = "mkdir"
  BY <1>1
<1>2. CASE Plan[q].kind = "chmod"
  BY <1>2
<1>3. CASE Plan[q].kind = "active_to_backup"
  BY <1>3
<1>4. CASE Plan[q].kind = "staging_to_active"
  BY <1>4
<1>5. CASE Plan[q].kind = "env_replace"
  BY <1>5
<1> QED
  BY <1>1, <1>2, <1>3, <1>4, <1>5 DEF Kinds

\* Only the environment operation depends on the environment.
LEMMA ShowsBesidesEnv ==
  ASSUME NEW q \in Numbers, q # Len(Plan), NEW t, NEW u,
         u.active = t.active, u.kept = t.kept, u.made = t.made, u.private = t.private
  PROVE  Shows(u, q) <=> Shows(t, q)
BY PlanOf DEF Shows

\* A preparation does what it logs.
LEMMA ExactStep ==
  ASSUME Types, Stages, Exact, [Next]_vars
  PROVE  Exact'
<1> SUFFICES ASSUME Preparing' PROVE Exact'
  BY DEF Exact
<1>0. /\ tree \in Trees /\ wal \in Wals /\ proc \in [pc : Places, at : Nat]
      /\ Len(Plan) \in Nat
  BY TypesAre, Length
<1> USE <1>0 DEF Stages, Preparing, At, Go, Places
<1>1. CASE Prepare
  <2>1. ~Preparing'
    BY <1>1 DEF Prepare
  <2> QED
    BY <2>1
<1>2. CASE CreateJournal
  <2>1. wal'.logged = 0
    BY <1>2 DEF CreateJournal, NewWal
  <2> QED
    BY <2>1, <1>0 DEF Exact
<1>3. CASE CreateCompanion
  <2>1. wal'.logged = 0
    BY <1>3 DEF CreateCompanion
  <2> QED
    BY <2>1, <1>0 DEF Exact
<1>4. CASE PersistEnvBackup
  <2>1. wal'.logged = 0
    BY <1>4 DEF PersistEnvBackup, Wals
  <2> QED
    BY <2>1, <1>0 DEF Exact
<1>5. CASE Stage
  <2>1. wal'.logged = 0
    BY <1>5 DEF Stage
  <2> QED
    BY <2>1, <1>0 DEF Exact
<1>6. CASE WriteManifest
  <2>1. UNCHANGED tree /\ wal'.logged = wal.logged /\ Preparing /\ ~At("mutate")
    BY <1>6 DEF WriteManifest, Wals
  <2> QED
    BY <2>1 DEF Exact
<1>7. CASE WriteIntent
  <2>1. /\ UNCHANGED tree /\ wal'.logged = wal.logged + 1 /\ Preparing /\ ~At("mutate")
        /\ At("mutate")' /\ wal.logged \in Nat
    BY <1>7 DEF WriteIntent, Wals
  <2> QED
    BY <2>1 DEF Exact
<1>8. CASE Mutate
  <2> DEFINE c == wal.logged
  <2>1. /\ c \in Numbers /\ Plan[c].kind # "env_replace" /\ tree' = Mutated(Plan[c])
        /\ UNCHANGED wal /\ Preparing /\ Len(Plan) \in Nat /\ c \in Nat
    BY <1>8 DEF Mutate, Current, Numbers, Wals
  <2>2. SUFFICES ASSUME NEW q \in 1..c, q # Len(Plan)
                 PROVE  Shows(tree', q)
    BY <2>1 DEF Exact
  <2>3. q \in Numbers
    BY <2>1 DEF Numbers
  <2>4. CASE q = c
    BY <2>1, <2>4, <1>0, MutatedShows
  <2>5. CASE q # c
    <3>1. Shows(tree, q)
      BY <2>1, <2>2, <2>5 DEF Exact
    <3>2. ~(Plan[c].kind = "active_to_backup" /\ Plan[q].kind = "staging_to_active")
      BY <2>1, <2>2, <2>3, KeptFirst DEF Numbers
    <3> QED
      BY <2>1, <2>3, <3>1, <3>2, <1>0, MutatedShows
  <2> QED
    BY <2>4, <2>5
<1>9. CASE WriteCandidate
  <2>0. wal.logged = Len(Plan)
    <3>1. wal.logged \in Numbers /\ Current.kind = "env_replace"
      BY <1>9 DEF WriteCandidate, Numbers, Wals
    <3> QED
      BY <3>1, PlanOf DEF Current
  <2>1. /\ tree'.active = tree.active /\ tree'.staged = tree.staged
        /\ tree'.kept = tree.kept
        /\ tree'.made = tree.made /\ tree'.private = tree.private
        /\ wal'.logged = wal.logged /\ Preparing /\ Len(Plan) \in Nat
        /\ wal.logged \in 0..Len(Plan)
    BY <1>9 DEF WriteCandidate, Trees, Wals
  <2>2. ~At("mutate") \/ wal.logged = Len(Plan) \/ At("mutate")'
    BY <1>9, <2>0 DEF WriteCandidate
  <2>3. ASSUME NEW q \in 1..wal.logged, q # Len(Plan)
        PROVE  Shows(tree', q) <=> Shows(tree, q)
    <3>1. q \in Numbers
      BY <2>1 DEF Numbers
    <3> HIDE DEF Shows
    <3> QED
      BY <2>1, <2>3, <3>1, ShowsBesidesEnv
  <2> HIDE DEF Shows
  <2> QED
    BY <2>1, <2>2, <2>3 DEF Exact
<1>10. CASE ExchangeEnvironment
  <2>1. /\ tree'.active = tree.active /\ tree'.staged = tree.staged
        /\ tree'.kept = tree.kept
        /\ tree'.made = tree.made /\ tree'.private = tree.private
        /\ wal'.logged = wal.logged /\ Preparing /\ Len(Plan) \in Nat
        /\ wal.logged \in 0..Len(Plan)
    BY <1>10 DEF ExchangeEnvironment, Trees, Wals
  <2>2. ~At("mutate") \/ wal.logged = Len(Plan) \/ At("mutate")'
    BY <1>10 DEF ExchangeEnvironment
  <2>3. ASSUME NEW q \in 1..wal.logged, q # Len(Plan)
        PROVE  Shows(tree', q) <=> Shows(tree, q)
    <3>1. q \in Numbers
      BY <2>1 DEF Numbers
    <3> HIDE DEF Shows
    <3> QED
      BY <2>1, <2>3, <3>1, ShowsBesidesEnv
  <2> HIDE DEF Shows
  <2> QED
    BY <2>1, <2>2, <2>3 DEF Exact
<1>11. CASE SettleEnvironment
  <2>1. /\ tree'.active = tree.active /\ tree'.staged = tree.staged
        /\ tree'.kept = tree.kept
        /\ tree'.made = tree.made /\ tree'.private = tree.private
        /\ wal'.logged = wal.logged /\ Preparing /\ Len(Plan) \in Nat
        /\ wal.logged \in 0..Len(Plan)
    BY <1>11 DEF SettleEnvironment, Trees, Wals
  <2>2. ~At("mutate") \/ wal.logged = Len(Plan) \/ At("mutate")'
    BY <1>11 DEF SettleEnvironment
  <2>3. ASSUME NEW q \in 1..wal.logged, q # Len(Plan)
        PROVE  Shows(tree', q) <=> Shows(tree, q)
    <3>1. q \in Numbers
      BY <2>1 DEF Numbers
    <3> HIDE DEF Shows
    <3> QED
      BY <2>1, <2>3, <3>1, ShowsBesidesEnv
  <2> HIDE DEF Shows
  <2> QED
    BY <2>1, <2>2, <2>3 DEF Exact
<1>12. CASE RecordDone
  <2>1. UNCHANGED tree /\ wal'.logged = wal.logged /\ Preparing /\ ~At("mutate")
    BY <1>12 DEF RecordDone, Wals
  <2> QED
    BY <2>1 DEF Exact
<1>13. CASE Commit
  <2>1. ~Preparing'
    BY <1>13 DEF Commit
  <2> QED
    BY <2>1
<1>14. CASE GiveUp
  <2>1. ~Preparing'
    BY <1>14 DEF GiveUp
  <2> QED
    BY <2>1
<1>15. CASE StartRollback
  <2>1. ~Preparing'
    BY <1>15 DEF StartRollback
  <2> QED
    BY <2>1
<1>16. CASE ResumeForwardEnvironment
  <2>1. ~Preparing'
    BY <1>16 DEF ResumeForwardEnvironment
  <2> QED
    BY <2>1
<1>17. CASE SkipCompleted
  <2>1. ~Preparing'
    BY <1>17 DEF SkipCompleted, MoreToUndo, NextOperation
  <2> QED
    BY <2>1
<1>18. CASE RecordUndone
  <2>1. ~Preparing'
    BY <1>18 DEF RecordUndone, MoreToUndo, NextOperation
  <2> QED
    BY <2>1
<1>19. CASE RecordRollbackIntent
  <2>1. ~Preparing'
    BY <1>19 DEF RecordRollbackIntent, MoreToUndo
  <2> QED
    BY <2>1
<1>20. CASE ReverseOperation
  <2>1. ~Preparing'
    BY <1>20 DEF ReverseOperation, MoreToUndo
  <2> QED
    BY <2>1
<1>21. CASE FailRollback
  <2>1. ~Preparing'
    BY <1>21 DEF FailRollback, Idle
  <2> QED
    BY <2>1
<1>22. CASE CompleteRollback
  <2>1. ~Preparing'
    BY <1>22 DEF CompleteRollback
  <2> QED
    BY <2>1
<1>23. CASE WriteReceipt
  <2>1. ~Preparing'
    BY <1>23 DEF WriteReceipt
  <2> QED
    BY <2>1
<1>24. CASE WriteMetadata
  <2>1. ~Preparing'
    BY <1>24 DEF WriteMetadata
  <2> QED
    BY <2>1
<1>25. CASE RemoveCompanion
  <2>1. ~Preparing'
    BY <1>25 DEF RemoveCompanion
  <2> QED
    BY <2>1
<1>26. CASE MarkReceiptComplete
  <2>1. ~Preparing'
    BY <1>26 DEF MarkReceiptComplete
  <2> QED
    BY <2>1
<1>27. CASE Bury
  <2>1. ~Preparing'
    BY <1>27 DEF Bury
  <2> QED
    BY <2>1
<1>28. CASE RemoveTombstone
  <2>1. ~Preparing'
    BY <1>28 DEF RemoveTombstone
  <2> QED
    BY <2>1
<1>29. CASE UnlinkMetadata
  <2>1. ~Preparing'
    BY <1>29 DEF UnlinkMetadata, Idle
  <2> QED
    BY <2>1
<1>30. CASE ResumeRollback
  <2>1. ~Preparing'
    BY <1>30 DEF ResumeRollback
  <2> QED
    BY <2>1
<1>31. CASE FinalizeCleanup
  <2>1. ~Preparing'
    BY <1>31 DEF FinalizeCleanup
  <2> QED
    BY <2>1
<1>32. CASE AcknowledgeRepaired
  <2>1. ~Preparing'
    BY <1>32 DEF AcknowledgeRepaired
  <2> QED
    BY <2>1
<1>33. CASE Kill
  <2>1. ~Preparing'
    BY <1>33 DEF Kill, Idle
  <2> QED
    BY <2>1
<1>34. CASE Fail
  <2>1. ~Preparing'
    BY <1>34 DEF Fail, CreationFails, PreparationFails, RollbackFails, CleanupFails, Idle
  <2> QED
    BY <2>1
<1>35. CASE EditEnvironment
  <2>1. /\ tree'.active = tree.active /\ tree'.staged = tree.staged
        /\ tree'.kept = tree.kept
        /\ tree'.made = tree.made /\ tree'.private = tree.private
        /\ wal'.logged = wal.logged /\ Preparing /\ Len(Plan) \in Nat
        /\ wal.logged \in 0..Len(Plan)
    BY <1>35 DEF EditEnvironment, Trees, Wals
  <2>2. ~At("mutate") \/ wal.logged = Len(Plan) \/ At("mutate")'
    BY <1>35 DEF EditEnvironment
  <2>3. ASSUME NEW q \in 1..wal.logged, q # Len(Plan)
        PROVE  Shows(tree', q) <=> Shows(tree, q)
    <3>1. q \in Numbers
      BY <2>1 DEF Numbers
    <3> HIDE DEF Shows
    <3> QED
      BY <2>1, <2>3, <3>1, ShowsBesidesEnv
  <2> HIDE DEF Shows
  <2> QED
    BY <2>1, <2>2, <2>3 DEF Exact
<1>36. CASE UNCHANGED vars
  BY <1>36, SMTT(60) DEF vars, Exact
<1> QED
  BY <1>1, <1>2, <1>3, <1>4, <1>5, <1>6, <1>7, <1>8, <1>9, <1>10, <1>11, <1>12, <1>13,
     <1>14, <1>15, <1>16, <1>17, <1>18, <1>19, <1>20, <1>21, <1>22, <1>23, <1>24, <1>25,
     <1>26, <1>27, <1>28, <1>29, <1>30, <1>31, <1>32, <1>33, <1>34, <1>35, <1>36
     DEF Next, Forward, Rollback, Clean, Command

\* A rollback leaves behind it only what is undone.
LEMMA UndoneStep ==
  ASSUME Types, Stages, Underway, Undone, [Next]_vars
  PROVE  Undone'
<1> SUFFICES ASSUME At("undo")' PROVE Undone'
  BY DEF Undone
<1>0. /\ tree \in Trees /\ wal \in Wals /\ proc \in [pc : Places, at : Nat]
      /\ Len(Plan) \in Nat
  BY TypesAre, Length
<1> USE <1>0 DEF Stages, At, Go, Places
<1>1. CASE Prepare
  <2>1. ~At("undo")'
    BY <1>1 DEF Prepare
  <2> QED
    BY <2>1
<1>2. CASE CreateJournal
  <2>1. ~At("undo")'
    BY <1>2 DEF CreateJournal
  <2> QED
    BY <2>1
<1>3. CASE CreateCompanion
  <2>1. ~At("undo")'
    BY <1>3 DEF CreateCompanion
  <2> QED
    BY <2>1
<1>4. CASE PersistEnvBackup
  <2>1. ~At("undo")'
    BY <1>4 DEF PersistEnvBackup
  <2> QED
    BY <2>1
<1>5. CASE Stage
  <2>1. ~At("undo")'
    BY <1>5 DEF Stage
  <2> QED
    BY <2>1
<1>6. CASE WriteManifest
  <2>1. ~At("undo")'
    BY <1>6 DEF WriteManifest
  <2> QED
    BY <2>1
<1>7. CASE WriteIntent
  <2>1. ~At("undo")'
    BY <1>7 DEF WriteIntent
  <2> QED
    BY <2>1
<1>8. CASE Mutate
  <2>1. ~At("undo")'
    BY <1>8 DEF Mutate
  <2> QED
    BY <2>1
<1>9. CASE WriteCandidate
  <2>1. ~At("undo")'
    BY <1>9 DEF WriteCandidate
  <2> QED
    BY <2>1
<1>10. CASE ExchangeEnvironment
  <2>1. ~At("undo")'
    BY <1>10 DEF ExchangeEnvironment
  <2> QED
    BY <2>1
<1>11. CASE SettleEnvironment
  <2>1. ~At("undo")'
    BY <1>11 DEF SettleEnvironment
  <2> QED
    BY <2>1
<1>12. CASE RecordDone
  <2>1. ~At("undo")'
    BY <1>12 DEF RecordDone
  <2> QED
    BY <2>1
<1>13. CASE Commit
  <2>1. ~At("undo")'
    BY <1>13 DEF Commit
  <2> QED
    BY <2>1
<1>14. CASE GiveUp
  <2>1. ~At("undo")'
    BY <1>14 DEF GiveUp
  <2> QED
    BY <2>1
<1>15. CASE StartRollback
  <2>1. ~At("undo")'
    BY <1>15 DEF StartRollback
  <2> QED
    BY <2>1
<1>16. CASE ResumeForwardEnvironment
  <2>1. /\ tree'.active = tree.active /\ tree'.staged = tree.staged
        /\ tree'.kept = tree.kept
        /\ tree'.made = tree.made /\ tree'.private = tree.private
        /\ tree'.env = tree.env
        /\ wal'.logged = wal.logged /\ wal.logged \in Nat /\ proc'.at = 1
    BY <1>16 DEF ResumeForwardEnvironment, Trees, Wals
  <2>2. \A q \in Numbers : Shows(tree', q) => q <= wal.logged
    BY <2>1, <1>16 DEF ResumeForwardEnvironment, Underway, Shows, Undecided, Decided,
       RolledBack, Committed
  <2> QED
    BY <2>1, <2>2 DEF Undone, Numbers
<1>17. CASE SkipCompleted
  <2> DEFINE c == Undoing
  <2>1. /\ UNCHANGED tree /\ wal'.logged = wal.logged /\ proc'.at = proc.at + 1
        /\ At("undo") /\ MoreToUndo /\ wal.logged \in Nat /\ proc.at \in Nat
    BY <1>17 DEF SkipCompleted, NextOperation, MoreToUndo, Wals
  <2>2. c = (wal.logged + 1) - proc.at /\ c \in Numbers
    BY <2>1, UndoingIs
  <2>3. ~Shows(tree, c)
    BY <2>2, <1>17, SafeShowsNot DEF SkipCompleted
  <2> HIDE DEF c
  <2>4. \A q \in Numbers : q + proc.at > wal.logged + 1 => ~Shows(tree, q)
    BY <2>1 DEF Undone
  <2> QED
    BY <2>1, <2>2, <2>3, <2>4 DEF Undone, Numbers
<1>18. CASE RecordUndone
  <2> DEFINE c == Undoing
  <2>1. /\ UNCHANGED tree /\ wal'.logged = wal.logged /\ proc'.at = proc.at + 1
        /\ At("undo") /\ MoreToUndo /\ wal.logged \in Nat /\ proc.at \in Nat
    BY <1>18 DEF RecordUndone, NextOperation, MoreToUndo, Wals
  <2>2. c = (wal.logged + 1) - proc.at /\ c \in Numbers
    BY <2>1, UndoingIs
  <2>3. ~Shows(tree, c)
    BY <2>2, <1>18, SafeShowsNot DEF RecordUndone, MayRecordUndone
  <2> HIDE DEF c
  <2>4. \A q \in Numbers : q + proc.at > wal.logged + 1 => ~Shows(tree, q)
    BY <2>1 DEF Undone
  <2> QED
    BY <2>1, <2>2, <2>3, <2>4 DEF Undone, Numbers
<1>19. CASE RecordRollbackIntent
  <2>1. UNCHANGED <<tree, proc>> /\ wal'.logged = wal.logged
    BY <1>19 DEF RecordRollbackIntent, Wals
  <2> QED
    BY <2>1 DEF Undone
<1>20. CASE ReverseOperation
  <2>1. UNCHANGED <<wal, proc>> /\ MoreToUndo /\ tree' = Reversed(Plan[Undoing])
        /\ wal.backup # "after"
    BY <1>20 DEF ReverseOperation, Wals
  <2>2. Undoing \in Numbers
    BY <2>1, UndoingIs
  <2>3. \A q \in Numbers : Shows(tree', q) => Shows(tree, q)
    BY <2>1, <2>2, <1>0, ReversedShows
  <2> QED
    BY <2>1, <2>3 DEF Undone
<1>21. CASE FailRollback
  <2>1. ~At("undo")'
    BY <1>21 DEF FailRollback, Idle
  <2> QED
    BY <2>1
<1>22. CASE CompleteRollback
  <2>1. ~At("undo")'
    BY <1>22 DEF CompleteRollback
  <2> QED
    BY <2>1
<1>23. CASE WriteReceipt
  <2>1. ~At("undo")'
    BY <1>23 DEF WriteReceipt
  <2> QED
    BY <2>1
<1>24. CASE WriteMetadata
  <2>1. ~At("undo")'
    BY <1>24 DEF WriteMetadata
  <2> QED
    BY <2>1
<1>25. CASE RemoveCompanion
  <2>1. ~At("undo")'
    BY <1>25 DEF RemoveCompanion
  <2> QED
    BY <2>1
<1>26. CASE MarkReceiptComplete
  <2>1. ~At("undo")'
    BY <1>26 DEF MarkReceiptComplete
  <2> QED
    BY <2>1
<1>27. CASE Bury
  <2>1. ~At("undo")'
    BY <1>27 DEF Bury
  <2> QED
    BY <2>1
<1>28. CASE RemoveTombstone
  <2>1. ~At("undo")'
    BY <1>28 DEF RemoveTombstone
  <2> QED
    BY <2>1
<1>29. CASE UnlinkMetadata
  <2>1. ~At("undo")'
    BY <1>29 DEF UnlinkMetadata, Idle
  <2> QED
    BY <2>1
<1>30. CASE ResumeRollback
  <2>1. ~At("undo")'
    BY <1>30 DEF ResumeRollback
  <2> QED
    BY <2>1
<1>31. CASE FinalizeCleanup
  <2>1. ~At("undo")'
    BY <1>31 DEF FinalizeCleanup
  <2> QED
    BY <2>1
<1>32. CASE AcknowledgeRepaired
  BY <1>32 DEF AcknowledgeRepaired
<1>33. CASE Kill
  <2>1. ~At("undo")'
    BY <1>33 DEF Kill, Idle
  <2> QED
    BY <2>1
<1>34. CASE Fail
  <2>1. ~At("undo")'
    BY <1>34 DEF Fail, CreationFails, PreparationFails, RollbackFails, CleanupFails, Idle
  <2> QED
    BY <2>1
<1>35. CASE EditEnvironment
  <2>1. /\ tree'.active = tree.active /\ tree'.staged = tree.staged
        /\ tree'.kept = tree.kept
        /\ tree'.made = tree.made /\ tree'.private = tree.private
        /\ tree'.env = "edited"
        /\ UNCHANGED <<wal, proc>>
    BY <1>35 DEF EditEnvironment, Trees
  <2>2. \A q \in Numbers : Shows(tree', q) => Shows(tree, q)
    BY <2>1 DEF Shows
  <2> HIDE DEF Shows
  <2> QED
    BY <2>1, <2>2 DEF Undone
<1>36. CASE UNCHANGED vars
  BY <1>36, SMTT(60) DEF vars, Undone
<1> QED
  BY <1>1, <1>2, <1>3, <1>4, <1>5, <1>6, <1>7, <1>8, <1>9, <1>10, <1>11, <1>12, <1>13,
     <1>14, <1>15, <1>16, <1>17, <1>18, <1>19, <1>20, <1>21, <1>22, <1>23, <1>24, <1>25,
     <1>26, <1>27, <1>28, <1>29, <1>30, <1>31, <1>32, <1>33, <1>34, <1>35, <1>36
     DEF Next, Forward, Rollback, Clean, Command

-----------------------------------------------------------------------------
(* What a transaction leaves.                                              *)

\* Nothing shown: the tree is as it was.
LEMMA NothingShown ==
  ASSUME Types, Underway, Undecided, \A q \in Numbers : ~Shows(tree, q)
  PROVE  /\ tree.active = Untouched.active /\ tree.kept = {} /\ tree.made = {}
         /\ ~tree.private /\ tree.env # "after"
<1>0. /\ tree.active \in [Secrets -> {"none", "old", "new"}]
      /\ tree.kept \in SUBSET Existing
      /\ tree.made \in SUBSET (1..Depth)
  BY TypesAre DEF Trees
<1>1. tree.kept = {}
  <2>1. ASSUME NEW s \in Existing PROVE s \notin tree.kept
    <3>1. PICK q \in Numbers : Plan[q] = Op("active_to_backup", s)
      BY PlanHasFacts DEF PlanCovers
    <3> QED
      BY <3>1 DEF Shows, Op
  <2> QED
    BY <1>0, <2>1
<1>2. tree.made = {}
  <2>1. ASSUME NEW d \in 1..Depth PROVE d \notin tree.made
    <3>1. PICK q \in Numbers : Plan[q] = Op("mkdir", d)
      BY PlanHasFacts DEF PlanCovers
    <3> QED
      BY <3>1 DEF Shows, Op
  <2> QED
    BY <1>0, <2>1
<1>3. ~tree.private
  <2>1. PICK q \in Numbers : Plan[q] = Op("chmod", "root")
    BY PlanHasFacts DEF PlanCovers
  <2> QED
    BY <2>1 DEF Shows, Op
<1>4. \A s \in Secrets : tree.active[s] # "new"
  <2> TAKE s \in Secrets
  <2>1. PICK q \in Numbers : Plan[q] = Op("staging_to_active", s)
    BY PlanHasFacts DEF PlanCovers
  <2> QED
    BY <2>1 DEF Shows, Op
<1>5. tree.env # "after"
  BY Length, PlanOf DEF Shows
<1>6. tree.active = [s \in Secrets |-> IF s \in Existing THEN "old" ELSE "none"]
  BY <1>0, <1>1, <1>4 DEF Underway
<1> QED
  BY <1>1, <1>2, <1>3, <1>5, <1>6 DEF Untouched

\* Everything shown: the tree is published.
LEMMA AllShown ==
  ASSUME Types, Underway, Undecided, wal.logged > 0,
         \A q \in Numbers : Shows(tree, q) \/ q = Len(Plan)
  PROVE  /\ \A s \in Secrets : tree.active[s] = "new"
         /\ tree.staged = {} /\ tree.made = 1..Depth /\ tree.private
<1>0. tree.made \in SUBSET (1..Depth) /\ tree.staged \in SUBSET Secrets
  BY TypesAre DEF Trees
<1>1. tree.made = 1..Depth
  <2>1. ASSUME NEW d \in 1..Depth PROVE d \in tree.made
    <3>1. PICK q \in Numbers : Plan[q] = Op("mkdir", d)
      BY PlanHasFacts DEF PlanCovers
    <3>2. Plan[q].kind = "mkdir" /\ Plan[q].on = d
      BY <3>1 DEF Op
    <3> QED
      BY <3>2, PlanOf DEF Shows
  <2> QED
    BY <1>0, <2>1
<1>2. tree.private
  <2>1. PICK q \in Numbers : Plan[q] = Op("chmod", "root")
    BY PlanHasFacts DEF PlanCovers
  <2>2. Plan[q].kind = "chmod"
    BY <2>1 DEF Op
  <2> QED
    BY <2>2, PlanOf DEF Shows
<1>3. \A s \in Secrets : tree.active[s] = "new"
  <2> TAKE s \in Secrets
  <2>1. PICK q \in Numbers : Plan[q] = Op("staging_to_active", s)
    BY PlanHasFacts DEF PlanCovers
  <2>2. Plan[q].kind = "staging_to_active" /\ Plan[q].on = s
    BY <2>1 DEF Op
  <2> QED
    BY <2>2, PlanOf DEF Shows
<1>4. tree.staged = {}
  BY <1>0, <1>3 DEF Underway
<1> QED
  BY <1>1, <1>2, <1>3, <1>4

\* A decision is true of the tree, and stays true.
LEMMA EndedStep ==
  ASSUME Types, Stages, Underway, Exact, Undone, Ended, [Next]_vars
  PROVE  Ended'
<1>0. /\ tree \in Trees /\ wal \in Wals /\ cleanup \in Cleanups
      /\ journal \in {"none", "bare", "open", "tombstone", "quarantined"}
      /\ proc \in [pc : Places, at : Nat] /\ Len(Plan) \in Nat /\ Len(Plan) > 0
  BY TypesAre, Length
<1> USE <1>0 DEF Places, Wals, Cleanups, Trees, At, Go, Ended, Stages, Preparing,
      Cleaning, Undecided,
         Decided, RolledBack, Committed
<1>1. CASE Prepare
  BY <1>1, SMTT(60) DEF Prepare, NoIncompleteTransactions, Untouched, NewWal
<1>2. CASE CreateJournal
  BY <1>2, SMTT(60) DEF CreateJournal, NewWal
<1>3. CASE CreateCompanion
  BY <1>3, SMTT(60) DEF CreateCompanion
<1>4. CASE PersistEnvBackup
  BY <1>4, SMTT(60) DEF PersistEnvBackup
<1>5. CASE Stage
  BY <1>5, SMTT(60) DEF Stage
<1>6. CASE WriteManifest
  BY <1>6, SMTT(60) DEF WriteManifest, Env
<1>7. CASE WriteIntent
  BY <1>7, SMTT(60) DEF WriteIntent
<1>8. CASE Mutate
  <2>1. tree'.candidate = tree.candidate
    <3>1. wal.logged \in Numbers
      BY <1>8 DEF Mutate, Numbers
    <3> QED
      BY <3>1, <1>8, MutatedIs DEF Mutate, Current
  <2>2. UNCHANGED <<journal, wal, cleanup>> /\ Preparing /\ ~At("companion")
    BY <1>8 DEF Mutate
  <2> QED
    BY <2>1, <2>2
<1>9. CASE WriteCandidate
  BY <1>9, SMTT(60) DEF WriteCandidate, Current
<1>10. CASE ExchangeEnvironment
  BY <1>10, SMTT(60) DEF ExchangeEnvironment, ExchangeAllowed, Env
<1>11. CASE SettleEnvironment
  BY <1>11, SMTT(60) DEF SettleEnvironment
<1>12. CASE RecordDone
  BY <1>12, SMTT(60) DEF RecordDone
<1>13. CASE Commit
  <2>1. /\ UNCHANGED <<tree, journal, cleanup>> /\ At("manifest") /\ Undecided
        /\ Preparing
        /\ wal.logged = Len(Plan) /\ tree.env = "after"
        /\ wal' = [wal EXCEPT !.phase = "committed"]
    BY <1>13 DEF Commit, Verified
  <2>2. \A q \in Numbers : Shows(tree, q) \/ q = Len(Plan)
    BY <2>1 DEF Exact, Numbers
  <2>3. /\ \A s \in Secrets : tree.active[s] = "new"
        /\ tree.staged = {} /\ tree.made = 1..Depth /\ tree.private
    BY <2>1, <2>2, AllShown
  <2> QED
    BY <2>1, <2>3
<1>14. CASE GiveUp
  BY <1>14, SMTT(60) DEF GiveUp, Refused, ExchangeAllowed
<1>15. CASE StartRollback
  BY <1>15, SMTT(60) DEF StartRollback
<1>16. CASE ResumeForwardEnvironment
  BY <1>16, SMTT(60) DEF ResumeForwardEnvironment, ManifestMatches, CandidateKnown, Env
<1>17. CASE SkipCompleted
  BY <1>17, SMTT(60) DEF SkipCompleted, MoreToUndo, NextOperation
<1>18. CASE RecordUndone
  BY <1>18, SMTT(60) DEF RecordUndone, MoreToUndo, NextOperation
<1>19. CASE RecordRollbackIntent
  BY <1>19, SMTT(60) DEF RecordRollbackIntent, MoreToUndo
<1>20. CASE ReverseOperation
  <2>1. tree' \in Trees /\ tree'.candidate = tree.candidate
    <3>1. MoreToUndo
      BY <1>20 DEF ReverseOperation
    <3>2. Undoing \in Numbers /\ wal.logged > 0
      BY <3>1, UndoingIs DEF MoreToUndo
    <3>3. wal.backup \in {"before", "edited"}
      BY <3>1, <3>2 DEF MoreToUndo
    <3> QED
      BY <3>2, <3>3, <1>20, ReversedIs DEF ReverseOperation
  <2>2. UNCHANGED <<journal, wal, cleanup, proc>> /\ At("undo") /\ wal.logged > 0
    BY <1>20 DEF ReverseOperation, MoreToUndo
  <2> QED
    BY <2>1, <2>2
<1>21. CASE FailRollback
  BY <1>21, SMTT(60) DEF FailRollback, Conflict, MoreToUndo, Idle
<1>22. CASE CompleteRollback
  <2>1. /\ UNCHANGED <<tree, journal, cleanup>> /\ At("undo") /\ Undecided
        /\ proc.at = wal.logged + 1 /\ wal.logged \in Nat
        /\ wal' = [wal EXCEPT !.phase = "rollback_complete"]
    BY <1>22 DEF CompleteRollback
  <2>2. \A q \in Numbers : ~Shows(tree, q)
    BY <2>1 DEF Undone, Numbers
  <2>3. /\ tree.active = Untouched.active /\ tree.kept = {} /\ tree.made = {}
        /\ ~tree.private /\ tree.env # "after"
    BY <2>1, <2>2, NothingShown
  <2> QED
    BY <2>1, <2>3
<1>23. CASE WriteReceipt
  BY <1>23, SMTT(60) DEF WriteReceipt
<1>24. CASE WriteMetadata
  BY <1>24, SMTT(60) DEF WriteMetadata, Outcome
<1>25. CASE RemoveCompanion
  BY <1>25, SMTT(60) DEF RemoveCompanion, Outcome
<1>26. CASE MarkReceiptComplete
  BY <1>26, SMTT(60) DEF MarkReceiptComplete
<1>27. CASE Bury
  BY <1>27, SMTT(60) DEF Bury
<1>28. CASE RemoveTombstone
  BY <1>28, SMTT(60) DEF RemoveTombstone
<1>29. CASE UnlinkMetadata
  BY <1>29, SMTT(60) DEF UnlinkMetadata, Idle
<1>30. CASE ResumeRollback
  BY <1>30, SMTT(60) DEF ResumeRollback, Openable, Opened, ManifestMatches,
     NotRolledBack, Phases, ForwardPhases
<1>31. CASE FinalizeCleanup
  BY <1>31, SMTT(60) DEF FinalizeCleanup, Finalizable, Outcome
<1>32. CASE AcknowledgeRepaired
  BY <1>32, SMTT(60) DEF AcknowledgeRepaired
<1>33. CASE Kill
  BY <1>33, SMTT(60) DEF Kill, Idle
<1>34. CASE Fail
  BY <1>34, SMTT(60) DEF Fail, CreationFails, PreparationFails, RollbackFails,
     CleanupFails, MarkFailure, Outcome, Idle
<1>35. CASE EditEnvironment
  BY <1>35, SMTT(60) DEF EditEnvironment
<1>36. CASE UNCHANGED vars
  BY <1>36, SMTT(60) DEF vars
<1> QED
  BY <1>1, <1>2, <1>3, <1>4, <1>5, <1>6, <1>7, <1>8, <1>9, <1>10, <1>11, <1>12, <1>13,
     <1>14, <1>15, <1>16, <1>17, <1>18, <1>19, <1>20, <1>21, <1>22, <1>23, <1>24, <1>25,
     <1>26, <1>27, <1>28, <1>29, <1>30, <1>31, <1>32, <1>33, <1>34, <1>35, <1>36
     DEF Next, Forward, Rollback, Clean, Command

-----------------------------------------------------------------------------
(* The theorems.                                                           *)

\* The inductive invariant.
PrepInv == Types /\ Stages /\ TreeInv

\* It holds before the first preparation.
LEMMA PrepInvInit == Init => PrepInv
<1> SUFFICES ASSUME Init PROVE PrepInv
  OBVIOUS
<1>0. Len(Plan) \in Nat /\ Len(Plan) > 0 /\ Existing \subseteq Secrets
  BY Length, Given
<1> USE <1>0 DEF Init
<1>1. Untouched \in Trees
  BY DEF Untouched, Trees
<1>2. Types
  BY <1>1, TypesAre DEF NewWal, Wals, Phases, ForwardPhases, Cleanups, Idle, Places
<1>3. Stages
  BY DEF Stages, At, Idle, Preparing, Cleaning, NewWal, Undecided, Decided, RolledBack,
     Committed
<1>4. \A q \in Numbers : ~Shows(Untouched, q)
  BY PlanOf DEF Untouched, Shows
<1>5. Underway
  <2>1. /\ tree.active = [s \in Secrets |-> IF s \in Existing THEN "old" ELSE "none"]
        /\ tree.kept = {} /\ wal.logged = 0 /\ ~Preparing
    BY DEF Untouched, NewWal, Preparing, Idle
  <2> QED
    BY <2>1, <1>4 DEF Underway
<1>6. Exact /\ Undone
  BY DEF Exact, Undone, Preparing, At, Idle
<1>7. Ended
  BY DEF Ended, NewWal, Untouched, Undecided, Decided, RolledBack, Committed
<1> QED
  BY <1>2, <1>3, <1>5, <1>6, <1>7 DEF PrepInv, TreeInv

LEMMA PrepInvKept == PrepInv /\ [Next]_vars => PrepInv'
BY TypesStep, StagesStep, UnderwayStep, ExactStep, UndoneStep, EndedStep DEF PrepInv, TreeInv

\* Every state of the transaction satisfies the invariant.
THEOREM PrepInvariant == Spec => []PrepInv
BY PrepInvInit, PrepInvKept, PTL DEF Spec

\* The journal is ahead of the tree and well formed, and when no transaction is
\* incomplete the tree is as it was or completely published.
THEOREM JournalIsTrue == Spec => []JournalTrue
<1>1. PrepInv => JournalSound
  <2> SUFFICES ASSUME PrepInv PROVE JournalSound
    OBVIOUS
  <2>1. TypeOK
    BY DEF PrepInv, Types
  <2>2. ASSUME wal.phase \notin Committed \cup RolledBack
        PROVE  /\ \A q \in Numbers : Happened(Plan[q]) => q <= wal.logged
               /\ wal.done \cup wal.undone \cup wal.intents \subseteq 1..wal.logged
    <3>1. Undecided
      BY <2>2 DEF Undecided, Decided
    <3>2. \A q \in Numbers : Shows(tree, q) => q <= wal.logged
      BY <3>1 DEF PrepInv, TreeInv, Underway
    <3>3. wal.done \cup wal.undone \cup wal.intents \subseteq 1..wal.logged
      BY <3>1 DEF PrepInv, Stages
    <3> QED
      BY <3>2, <3>3, HappenedIs
  <2> QED
    BY <2>1, <2>2 DEF JournalSound
<1>2. PrepInv => WholeWhenClear
  <2> SUFFICES ASSUME PrepInv, NoIncompleteTransactions, journal = "none"
               PROVE  Restored \/ (PublishedTree /\ tree.env \in {"after", "edited"})
    BY DEF WholeWhenClear
  <2>1. tree \in Trees /\ ~cleanup.companion /\ Ended
    BY TypesAre DEF PrepInv, TreeInv, NoIncompleteTransactions
  <2>2. tree.staged = {} /\ tree.kept = {}
    BY <2>1 DEF Ended
  <2>3. CASE Undecided
    <3>1. tree = Untouched
      BY <2>1, <2>3 DEF Ended
    <3> QED
      BY <3>1 DEF Restored, Untouched
  <2>4. CASE wal.phase \in RolledBack
    <3>1. /\ tree.active = Untouched.active /\ tree.made = {}
          /\ tree.private = FALSE /\ tree.env # "after" /\ tree.candidate = "none"
      BY <2>1, <2>4 DEF Ended, Trees
    <3> DEFINE t == [tree EXCEPT !.env = "before"]
    <3>2. /\ t = [active |-> tree.active, staged |-> tree.staged, kept |-> tree.kept,
                  made |-> tree.made, private |-> tree.private, env |-> "before",
                  candidate |-> tree.candidate]
      BY <2>1 DEF Trees
    <3>3. Untouched = [active |-> Untouched.active, staged |-> {}, kept |-> {}, made |-> {},
                       private |-> FALSE, env |-> "before", candidate |-> "none"]
      BY DEF Untouched
    <3>4. t = Untouched
      BY <2>2, <3>1, <3>2, <3>3
    <3> QED
      BY <3>1, <3>4 DEF Restored
  <2>5. CASE wal.phase \in Committed
    <3>1. /\ \A s \in Secrets : tree.active[s] = "new"
          /\ tree.staged = {} /\ tree.made = 1..Depth /\ tree.private
          /\ tree.candidate = "none" /\ tree.env # "before"
      BY <2>1, <2>5 DEF Ended
    <3>2. tree.env \in {"after", "edited"}
      BY <2>1, <3>1 DEF Trees
    <3> QED
      BY <2>2, <3>1, <3>2 DEF PublishedTree
  <2> QED
    BY <2>3, <2>4, <2>5 DEF Undecided, Decided
<1> QED
  BY PrepInvariant, <1>1, <1>2, PTL DEF JournalTrue

\* A rotated secret is never lost before the transaction is committed.
THEOREM OldSecretsAreKept == Spec => []OldSecretsKept
<1>1. PrepInv => OldSecretsKept
  <2> SUFFICES ASSUME PrepInv, wal.phase \notin Committed, NEW s \in Existing
               PROVE  tree.active[s] = "old" \/ s \in tree.kept
    BY DEF OldSecretsKept
  <2>1. CASE Undecided
    BY <2>1 DEF PrepInv, TreeInv, Underway
  <2>2. CASE wal.phase \in RolledBack
    BY <2>2, Given DEF PrepInv, TreeInv, Ended, Untouched
  <2> QED
    BY <2>1, <2>2 DEF Undecided, Decided
<1> QED
  BY PrepInvariant, <1>1, PTL

\* Only reversing the last operation writes the environment.
LEMMA ReversedEnv ==
  ASSUME tree \in Trees, NEW c \in Numbers, NEW t, t = Reversed(Plan[c])
  PROVE  /\ Plan[c].kind # "env_replace" => t.env = tree.env
         /\ t.env \in {tree.env, wal.backup}
<1>1. Plan[c].kind = "mkdir" => t.env = tree.env
  BY ReversedFields
<1>2. Plan[c].kind = "chmod" => t.env = tree.env
  BY ReversedFields
<1>3. Plan[c].kind = "active_to_backup" => t.env = tree.env
  BY ReversedFields
<1>4. Plan[c].kind = "staging_to_active" => t.env = tree.env
  BY ReversedFields
<1>5. Plan[c].kind = "env_replace" => t.env = wal.backup
  BY ReversedFields
<1> QED
  BY <1>1, <1>2, <1>3, <1>4, <1>5, PlanOf DEF Kinds

\* No step takes back what an operator wrote or a commit decided.
LEMMA TakesNothingBack ==
  ASSUME Types, Stages, Next
  PROVE  EditStays /\ CommitStays
<1>0. /\ tree \in Trees /\ wal \in Wals /\ cleanup \in Cleanups
      /\ journal \in {"none", "bare", "open", "tombstone", "quarantined"}
      /\ proc \in [pc : Places, at : Nat] /\ Len(Plan) \in Nat /\ Len(Plan) > 0
  BY TypesAre, Length
<1> USE <1>0 DEF Places, Wals, Cleanups, Trees, At, Go, Stages, Preparing, Cleaning,
      Undecided,
         Decided, RolledBack, Committed, EditStays, CommitStays
<1>1. CASE Prepare
  BY <1>1, SMTT(60) DEF Prepare, NoIncompleteTransactions, Untouched, NewWal
<1>2. CASE CreateJournal
  BY <1>2, SMTT(60) DEF CreateJournal, NewWal
<1>3. CASE CreateCompanion
  BY <1>3, SMTT(60) DEF CreateCompanion
<1>4. CASE PersistEnvBackup
  BY <1>4, SMTT(60) DEF PersistEnvBackup
<1>5. CASE Stage
  BY <1>5, SMTT(60) DEF Stage
<1>6. CASE WriteManifest
  BY <1>6, SMTT(60) DEF WriteManifest, Env
<1>7. CASE WriteIntent
  BY <1>7, SMTT(60) DEF WriteIntent
<1>8. CASE Mutate
  <2>1. tree'.env = tree.env
    <3>1. wal.logged \in Numbers
      BY <1>8 DEF Mutate, Numbers
    <3> QED
      BY <3>1, <1>8, MutatedIs DEF Mutate, Current
  <2>2. wal.phase \notin Committed
    BY <1>8 DEF Mutate
  <2> QED
    BY <2>1, <2>2
<1>9. CASE WriteCandidate
  BY <1>9, SMTT(60) DEF WriteCandidate, Current
<1>10. CASE ExchangeEnvironment
  BY <1>10, SMTT(60) DEF ExchangeEnvironment, ExchangeAllowed, Env
<1>11. CASE SettleEnvironment
  BY <1>11, SMTT(60) DEF SettleEnvironment
<1>12. CASE RecordDone
  BY <1>12, SMTT(60) DEF RecordDone
<1>13. CASE Commit
  BY <1>13, SMTT(60) DEF Commit, Verified
<1>14. CASE GiveUp
  BY <1>14, SMTT(60) DEF GiveUp, Refused, ExchangeAllowed
<1>15. CASE StartRollback
  BY <1>15, SMTT(60) DEF StartRollback
<1>16. CASE ResumeForwardEnvironment
  BY <1>16, SMTT(60) DEF ResumeForwardEnvironment, ManifestMatches, CandidateKnown, Env
<1>17. CASE SkipCompleted
  BY <1>17, SMTT(60) DEF SkipCompleted, MoreToUndo, NextOperation
<1>18. CASE RecordUndone
  BY <1>18, SMTT(60) DEF RecordUndone, MoreToUndo, NextOperation
<1>19. CASE RecordRollbackIntent
  BY <1>19, SMTT(60) DEF RecordRollbackIntent, MoreToUndo
<1>20. CASE ReverseOperation
  <2>1. MoreToUndo /\ wal.phase \notin Committed /\ Classify(Plan[Undoing]) = "executed"
        /\ tree' = Reversed(Plan[Undoing])
    BY <1>20 DEF ReverseOperation, MoreToUndo
  <2>2. Undoing \in Numbers
    BY <2>1, UndoingIs
  <2>3. Plan[Undoing].kind = "env_replace" => tree.env = "after"
    BY <2>1 DEF Classify, Env
  <2>4. Plan[Undoing].kind # "env_replace" => tree'.env = tree.env
    BY <2>1, <2>2, <1>0, ReversedEnv
  <2> QED
    BY <2>1, <2>3, <2>4
<1>21. CASE FailRollback
  BY <1>21, SMTT(60) DEF FailRollback, Conflict, MoreToUndo, Idle
<1>22. CASE CompleteRollback
  BY <1>22, SMTT(60) DEF CompleteRollback
<1>23. CASE WriteReceipt
  BY <1>23, SMTT(60) DEF WriteReceipt
<1>24. CASE WriteMetadata
  BY <1>24, SMTT(60) DEF WriteMetadata, Outcome
<1>25. CASE RemoveCompanion
  BY <1>25, SMTT(60) DEF RemoveCompanion, Outcome
<1>26. CASE MarkReceiptComplete
  BY <1>26, SMTT(60) DEF MarkReceiptComplete
<1>27. CASE Bury
  BY <1>27, SMTT(60) DEF Bury
<1>28. CASE RemoveTombstone
  BY <1>28, SMTT(60) DEF RemoveTombstone
<1>29. CASE UnlinkMetadata
  BY <1>29, SMTT(60) DEF UnlinkMetadata, Idle
<1>30. CASE ResumeRollback
  BY <1>30, SMTT(60) DEF ResumeRollback, Openable, Opened, ManifestMatches,
     NotRolledBack, Phases, ForwardPhases
<1>31. CASE FinalizeCleanup
  BY <1>31, SMTT(60) DEF FinalizeCleanup, Finalizable, Outcome
<1>32. CASE AcknowledgeRepaired
  BY <1>32, SMTT(60) DEF AcknowledgeRepaired
<1>33. CASE Kill
  BY <1>33, SMTT(60) DEF Kill, Idle
<1>34. CASE Fail
  BY <1>34, SMTT(60) DEF Fail, CreationFails, PreparationFails, RollbackFails,
     CleanupFails, MarkFailure, Outcome, Idle
<1>35. CASE EditEnvironment
  BY <1>35, SMTT(60) DEF EditEnvironment
<1> QED
  BY <1>1, <1>2, <1>3, <1>4, <1>5, <1>6, <1>7, <1>8, <1>9, <1>10, <1>11, <1>12, <1>13,
     <1>14, <1>15, <1>16, <1>17, <1>18, <1>19, <1>20, <1>21, <1>22, <1>23, <1>24, <1>25,
     <1>26, <1>27, <1>28, <1>29, <1>30, <1>31, <1>32, <1>33, <1>34, <1>35
     DEF Next, Forward, Rollback, Clean, Command

\* No step takes back what an operator wrote or a commit decided.
THEOREM NothingIsTakenBack == Spec => NothingTakenBack
<1>1. PrepInv /\ [Next]_vars => [EditStays /\ CommitStays]_vars
  BY TakesNothingBack DEF PrepInv
<1> QED
  BY PrepInvariant, <1>1, PTL DEF Spec, NothingTakenBack

-----------------------------------------------------------------------------
(* One kill and nothing else.                                              *)

\* Troubles are never taken back.
LEMMA TroublesGrow ==
  ASSUME Types, Next, Quiet'
  PROVE  Quiet /\ ~Fail /\ ~EditEnvironment /\ (Kill => spent.kills = 0 /\ spent'.kills = 1)
<1>0. spent \in [prepares : Nat, kills : Nat, faults : Nat, edits : Nat]
  BY TypesAre
<1>1. \/ spent' = [spent EXCEPT !.prepares = @ + 1]
      \/ spent' = [spent EXCEPT !.kills = @ + 1]
      \/ spent' = [spent EXCEPT !.faults = @ + 1]
      \/ spent' = [spent EXCEPT !.edits = @ + 1]
      \/ spent' = spent
  BY DEF Next, Forward, Rollback, Clean, Command, Prepare, CreateJournal,
     CreateCompanion, PersistEnvBackup, Stage, WriteManifest, WriteIntent, Mutate,
     WriteCandidate, ExchangeEnvironment, SettleEnvironment, RecordDone, Commit, GiveUp,
     StartRollback, ResumeForwardEnvironment, SkipCompleted, RecordUndone,
     RecordRollbackIntent, ReverseOperation, FailRollback, CompleteRollback,
     WriteReceipt, WriteMetadata, RemoveCompanion, MarkReceiptComplete, Bury,
     RemoveTombstone, UnlinkMetadata, ResumeRollback, FinalizeCleanup,
     AcknowledgeRepaired, Kill, Fail, EditEnvironment
<1>2. Quiet
  BY <1>0, <1>1 DEF Quiet, Calm
<1>3. ~Fail
  BY <1>0 DEF Quiet, Calm, Fail
<1>4. ~EditEnvironment
  BY <1>0 DEF Quiet, Calm, EditEnvironment
<1>5. Kill => spent.kills = 0 /\ spent'.kills = 1
  BY <1>0 DEF Quiet, Calm, Kill
<1> QED
  BY <1>2, <1>3, <1>4, <1>5

\* A preparation that nothing troubles has nothing to refuse.
LEMMA NothingRefused ==
  ASSUME Types, Stages, EnvironmentKnown, Quiet
  PROVE  ~Refused
<1>0. /\ tree \in Trees /\ wal \in Wals /\ Len(Plan) \in Nat
  BY TypesAre, Length
<1> QED
  BY <1>0, SMTT(60) DEF Refused, ExchangeAllowed, Env, EnvironmentKnown, Stages,
     Preparing, At, Trees, Wals

\* The operation at which a rollback stands is either done or not.
LEMMA ClassifiedInTurn ==
  ASSUME Types, Stages, Underway, Undone, OneRollback, EnvironmentKnown, UndoneInTurn,
         Quiet, MoreToUndo
  PROVE  /\ Shows(tree, Undoing) => Classify(Plan[Undoing]) = "executed"
         /\ ~Shows(tree, Undoing) => Classify(Plan[Undoing]) = "not_executed"
                                     /\ ReverseStateIsSafe(Plan[Undoing])
<1> DEFINE q == Undoing
<1>0. /\ tree \in Trees /\ wal \in Wals /\ proc \in [pc : Places, at : Nat]
      /\ Len(Plan) \in Nat
  BY TypesAre, Length
<1>1. /\ q = (wal.logged + 1) - proc.at
      /\ q \in 1..wal.logged /\ q \in Numbers /\ wal.logged \in Nat
  BY <1>0, UndoingIs DEF Wals
<1>2. Undecided /\ journal = "open" /\ At("undo")
  BY SMT DEF MoreToUndo, Stages, At, Undecided, Decided, RolledBack, Committed
<1>3. \A r \in Numbers : r > q => ~Shows(tree, r)
  BY <1>0, <1>1, <1>2 DEF Undone, Numbers
<1>4. /\ \A s \in Existing : s \in tree.kept <=> tree.active[s] # "old"
      /\ \A s \in Secrets \ Existing : tree.active[s] # "old"
      /\ \A s \in Secrets : s \in tree.staged <=> tree.active[s] # "new"
  BY <1>1, <1>2 DEF Underway
<1>5. \A r \in Numbers : r < q => Shows(tree, r)
  <2>1. Left = q /\ wal.intents \subseteq {q}
    BY <1>1, <1>2 DEF Left, UndoneInTurn
  <2> QED
    BY <1>1, <1>2, <2>1 DEF UndoneInTurn, Numbers
<1>6. wal.backup = "before" /\ tree.env \in {"before", "after"}
  BY <1>0, <1>1 DEF EnvironmentKnown, Trees
<1>7. Plan[q].kind \in Kinds
  BY <1>1, PlanOf
<1>8. SUFFICES /\ Shows(tree, q) => Classify(Plan[q]) = "executed"
               /\ ~Shows(tree, q) => Classify(Plan[q]) = "not_executed"
                                    /\ ReverseStateIsSafe(Plan[q])
  OBVIOUS
<1> HIDE DEF q
<1>10. CASE Plan[q].kind = "mkdir"
  <2>1. Plan[q].on = q /\ q \in 1..Depth
    BY <1>1, <1>10, PlanOf
  <2>2. q + 1 \notin tree.made
    <3>1. SUFFICES ASSUME q + 1 \in tree.made PROVE FALSE
      OBVIOUS
    <3>2. q + 1 \in 1..Depth
      BY <3>1, <1>0 DEF Trees
    <3>3. PICK r \in Numbers : Plan[r] = Op("mkdir", q + 1)
      BY <3>2, PlanHasFacts DEF PlanCovers
    <3>4. Plan[r].kind = "mkdir" /\ Plan[r].on = q + 1
      BY <3>3 DEF Op
    <3>5. r = q + 1
      BY <3>4, PlanOf
    <3> QED
      BY <3>1, <3>4, <3>5, <1>1, <1>3 DEF Shows, Numbers
  <2> QED
    BY <2>1, <2>2, <1>10 DEF Shows, Classify, ReverseStateIsSafe
<1>11. CASE Plan[q].kind = "chmod"
  BY <1>11 DEF Shows, Classify, ReverseStateIsSafe
<1>12. CASE Plan[q].kind = "active_to_backup"
  <2> DEFINE s == Plan[q].on
  <2>1. s \in Existing /\ s \in Secrets
    BY <1>1, <1>12, PlanOf, Given
  <2>2. PICK r \in Numbers : Plan[r] = Op("staging_to_active", s)
    BY <2>1, PlanHasFacts DEF PlanCovers
  <2>3. Plan[r].kind = "staging_to_active" /\ Plan[r].on = s
    BY <2>2 DEF Op
  <2>4. r > q
    BY <2>3, <1>1, <1>12, KeptFirst
  <2>5. tree.active[s] # "new"
    BY <2>3, <2>4, <1>3 DEF Shows
  <2>6. tree.active[s] \in {"none", "old", "new"}
    BY <2>1, <1>0 DEF Trees
  <2>7. s \in tree.kept <=> tree.active[s] # "old"
    BY <2>1, <1>4
  <2> QED
    BY <2>5, <2>6, <2>7, <1>12 DEF Shows, Classify, ReverseStateIsSafe
<1>13. CASE Plan[q].kind = "staging_to_active"
  <2> DEFINE s == Plan[q].on
  <2>1. s \in Secrets
    BY <1>1, <1>13, PlanOf
  <2>2. tree.active[s] # "old"
    <3>1. CASE s \in Existing
      <4>1. PICK r \in Numbers : Plan[r] = Op("active_to_backup", s)
        BY <3>1, PlanHasFacts DEF PlanCovers
      <4>2. Plan[r].kind = "active_to_backup" /\ Plan[r].on = s
        BY <4>1 DEF Op
      <4>3. r < q
        BY <4>2, <1>1, <1>13, KeptFirst
      <4>4. s \in tree.kept
        BY <4>2, <4>3, <1>5 DEF Shows
      <4> QED
        BY <3>1, <4>4, <1>4
    <3>2. CASE s \notin Existing
      BY <3>2, <2>1, <1>4
    <3> QED
      BY <3>1, <3>2
  <2>3. tree.active[s] \in {"none", "old", "new"}
    BY <2>1, <1>0 DEF Trees
  <2>4. s \in tree.staged <=> tree.active[s] # "new"
    BY <2>1, <1>4
  <2> QED
    BY <2>2, <2>3, <2>4, <1>13 DEF Shows, Classify, ReverseStateIsSafe
<1>14. CASE Plan[q].kind = "env_replace"
  BY <1>6, <1>14 DEF Shows, Classify, ReverseStateIsSafe, Env
<1> QED
  BY <1>7, <1>10, <1>11, <1>12, <1>13, <1>14 DEF Kinds

\* The one rollback meets no conflict.
LEMMA NoConflict ==
  ASSUME Types, Stages, Underway, Undone, OneRollback, EnvironmentKnown, UndoneInTurn,
         Quiet
  PROVE  ~Conflict
<1>0. /\ tree \in Trees /\ wal \in Wals /\ proc \in [pc : Places, at : Nat]
  BY TypesAre
<1>1. At("forward_env") => ManifestMatches /\ (wal.forward => CandidateKnown)
  <2> SUFFICES ASSUME At("forward_env")
               PROVE  ManifestMatches /\ (wal.forward => CandidateKnown)
    OBVIOUS
  <2>1. ManifestMatches
    BY DEF OneRollback, ManifestMatches, At
  <2>2. Undecided
    BY DEF Stages, At, Undecided, Decided, RolledBack, Committed
  <2>3. ASSUME wal.forward PROVE CandidateKnown
    <3>1. \/ tree.env = "before" /\ tree.candidate = "new"
          \/ tree.env = "after" /\ tree.candidate = "old"
      BY <2>2, <2>3 DEF EnvironmentKnown
    <3>2. wal.backup = "before"
      BY <2>2, <2>3 DEF EnvironmentKnown
    <3> QED
      BY <3>1, <3>2 DEF CandidateKnown, Env
  <2> QED
    BY <2>1, <2>3
<1>2. MoreToUndo => /\ Undoing \notin wal.undone
                    /\ MayRecordUndone(Undoing) \/ Classify(Plan[Undoing]) = "executed"
  <2> SUFFICES ASSUME MoreToUndo
               PROVE  /\ Undoing \notin wal.undone
                      /\ MayRecordUndone(Undoing) \/ Classify(Plan[Undoing]) = "executed"
    OBVIOUS
  <2>1. Undoing = Left /\ Undoing \in Numbers /\ Undoing \in Nat
    BY UndoingIs DEF Left, MoreToUndo, Numbers
  <2>2. Undecided /\ journal = "open"
    BY DEF Stages, At, MoreToUndo, Undecided, Decided, RolledBack, Committed
  <2>3. Undoing \notin wal.undone
    BY <2>1, <2>2 DEF UndoneInTurn
  <2>4. Undoing \in wal.done => Shows(tree, Undoing) \/ Undoing \in wal.intents
    BY <2>1, <2>2 DEF UndoneInTurn
  <2> QED
    BY <2>3, <2>4, ClassifiedInTurn DEF MayRecordUndone
<1> QED
  BY <1>1, <1>2 DEF Conflict

\* A reversal takes nothing away from the operations before its own.
LEMMA ReversedKeeps ==
  ASSUME tree \in Trees, NEW c \in Numbers, NEW t, t = Reversed(Plan[c]),
         NEW q \in Numbers, q < c, Shows(tree, q)
  PROVE  Shows(t, q)
<1>a. tree.active \in [Secrets -> {"none", "old", "new"}]
  BY DEF Trees
<1>b. /\ Plan[q].kind = "active_to_backup" => Plan[q].on \in Secrets
      /\ Plan[q].kind = "staging_to_active" => Plan[q].on \in Secrets
      /\ Plan[q].kind \in Kinds
  BY PlanOf, Given
<1>c. Plan[q].kind = Plan[c].kind => Plan[q].on # Plan[c].on /\ Plan[q].kind # "chmod"
      /\ Plan[q].kind # "env_replace"
  <2>1. q # c
    BY DEF Numbers
  <2> QED
    BY <2>1, PlanHasFacts, PlanOf DEF PlanDistinct
<1>1. CASE Plan[c].kind = "mkdir"
  <2>1. /\ t.made = tree.made \ {Plan[c].on}
        /\ t.active = tree.active /\ t.kept = tree.kept /\ t.private = tree.private
        /\ t.env = tree.env
    BY <1>1, ReversedFields
  <2> QED
    BY <1>1, <2>1, <1>b, <1>c DEF Shows
<1>2. CASE Plan[c].kind = "chmod"
  <2>1. /\ t.active = tree.active /\ t.kept = tree.kept
        /\ t.made = tree.made /\ t.env = tree.env
    BY <1>2, ReversedFields
  <2> QED
    BY <1>2, <2>1, <1>b, <1>c DEF Shows, Kinds
<1>3. CASE Plan[c].kind = "active_to_backup"
  <2>1. /\ t.kept = tree.kept \ {Plan[c].on}
        /\ t.made = tree.made /\ t.private = tree.private /\ t.env = tree.env
    BY <1>3, ReversedFields
  <2>2. Plan[q].kind # "staging_to_active"
    BY <1>3, KeptFirst DEF Numbers
  <2> QED
    BY <1>3, <2>1, <2>2, <1>b, <1>c DEF Shows
<1>4. CASE Plan[c].kind = "staging_to_active"
  <2>1. /\ t.active = [tree.active EXCEPT ![Plan[c].on] = "none"]
        /\ t.kept = tree.kept /\ t.made = tree.made /\ t.private = tree.private
        /\ t.env = tree.env
    BY <1>4, ReversedFields
  <2> QED
    BY <1>4, <2>1, <1>a, <1>b, <1>c DEF Shows
<1>5. CASE Plan[c].kind = "env_replace"
  <2>1. /\ t.active = tree.active /\ t.kept = tree.kept
        /\ t.made = tree.made /\ t.private = tree.private
    BY <1>5, ReversedFields
  <2> QED
    BY <1>5, <2>1, <1>b, <1>c DEF Shows
<1> QED
  BY <1>1, <1>2, <1>3, <1>4, <1>5, PlanOf DEF Kinds

\* There is one rollback at most, and it follows the kill.
LEMMA OneRollbackStep ==
  ASSUME Types, Stages, Underway, Undone, Ended, OneRollback, EnvironmentKnown,
         UndoneInTurn, Next, Quiet'
  PROVE  OneRollback'
<1>0. /\ tree \in Trees /\ wal \in Wals /\ proc \in [pc : Places, at : Nat]
      /\ spent \in [prepares : Nat, kills : Nat, faults : Nat, edits : Nat]
      /\ Len(Plan) \in Nat /\ Len(Plan) > 0
  BY TypesAre, Length
<1>q. Quiet /\ ~Fail /\ ~EditEnvironment /\ (Kill => spent.kills = 0 /\ spent'.kills = 1)
  BY TroublesGrow DEF vars, Quiet, Calm
<1>r. ~Refused /\ ~Conflict
  BY <1>q, NothingRefused, NoConflict
<1> USE <1>0, <1>q DEF Places, Wals, Trees, At, Go, Stages, Preparing, Cleaning,
      Undecided,
         Decided, RolledBack, Committed, OneRollback
<1>1. CASE Prepare
  BY <1>1, SMTT(60) DEF Prepare, NoIncompleteTransactions, Untouched, NewWal, NewWal
<1>2. CASE CreateJournal
  BY <1>2, SMTT(60) DEF CreateJournal, NewWal
<1>3. CASE CreateCompanion
  BY <1>3, SMTT(60) DEF CreateCompanion
<1>4. CASE PersistEnvBackup
  BY <1>4, SMTT(60) DEF PersistEnvBackup
<1>5. CASE Stage
  BY <1>5, SMTT(60) DEF Stage
<1>6. CASE WriteManifest
  BY <1>6, SMTT(60) DEF WriteManifest, Env
<1>7. CASE WriteIntent
  BY <1>7, SMTT(60) DEF WriteIntent
<1>8. CASE Mutate
  BY <1>8, SMTT(60) DEF Mutate, Current
<1>9. CASE WriteCandidate
  BY <1>9, SMTT(60) DEF WriteCandidate, Current
<1>10. CASE ExchangeEnvironment
  BY <1>10, SMTT(60) DEF ExchangeEnvironment, ExchangeAllowed, Env
<1>11. CASE SettleEnvironment
  BY <1>11, SMTT(60) DEF SettleEnvironment
<1>12. CASE RecordDone
  BY <1>12, SMTT(60) DEF RecordDone
<1>13. CASE Commit
  BY <1>13, SMTT(60) DEF Commit, Verified
<1>14. CASE GiveUp
  BY <1>14, <1>r DEF GiveUp
<1>15. CASE StartRollback
  BY <1>15, SMTT(60) DEF StartRollback
<1>16. CASE ResumeForwardEnvironment
  BY <1>16, SMTT(60) DEF ResumeForwardEnvironment, ManifestMatches, CandidateKnown, Env
<1>17. CASE SkipCompleted
  BY <1>17, SMTT(60) DEF SkipCompleted, MoreToUndo, NextOperation
<1>18. CASE RecordUndone
  BY <1>18, SMTT(60) DEF RecordUndone, MoreToUndo, NextOperation
<1>19. CASE RecordRollbackIntent
  BY <1>19, SMTT(60) DEF RecordRollbackIntent, MoreToUndo
<1>20. CASE ReverseOperation
  BY <1>20, SMTT(60) DEF ReverseOperation, MoreToUndo
<1>21. CASE FailRollback
  BY <1>21, <1>r DEF FailRollback
<1>22. CASE CompleteRollback
  BY <1>22, SMTT(60) DEF CompleteRollback
<1>23. CASE WriteReceipt
  BY <1>23, SMTT(60) DEF WriteReceipt
<1>24. CASE WriteMetadata
  BY <1>24, SMTT(60) DEF WriteMetadata, Outcome
<1>25. CASE RemoveCompanion
  BY <1>25, SMTT(60) DEF RemoveCompanion, Outcome
<1>26. CASE MarkReceiptComplete
  BY <1>26, SMTT(60) DEF MarkReceiptComplete
<1>27. CASE Bury
  BY <1>27, SMTT(60) DEF Bury
<1>28. CASE RemoveTombstone
  BY <1>28, SMTT(60) DEF RemoveTombstone
<1>29. CASE UnlinkMetadata
  BY <1>29, SMTT(60) DEF UnlinkMetadata, Idle
<1>30. CASE ResumeRollback
  BY <1>30, SMTT(60) DEF ResumeRollback, Openable, Opened, ManifestMatches,
     NotRolledBack, Phases, ForwardPhases
<1>31. CASE FinalizeCleanup
  BY <1>31, SMTT(60) DEF FinalizeCleanup, Finalizable, Outcome
<1>32. CASE AcknowledgeRepaired
  BY <1>32, SMTT(60) DEF AcknowledgeRepaired
<1>33. CASE Kill
  BY <1>33, SMTT(60) DEF Kill, Idle
<1>34. CASE Fail
  BY <1>34, <1>q
<1>35. CASE EditEnvironment
  BY <1>35, <1>q
<1> QED
  BY <1>1, <1>2, <1>3, <1>4, <1>5, <1>6, <1>7, <1>8, <1>9, <1>10, <1>11, <1>12, <1>13,
     <1>14, <1>15, <1>16, <1>17, <1>18, <1>19, <1>20, <1>21, <1>22, <1>23, <1>24, <1>25,
     <1>26, <1>27, <1>28, <1>29, <1>30, <1>31, <1>32, <1>33, <1>34, <1>35
     DEF Next, Forward, Rollback, Clean, Command

\* The environment is what the backup or the plan holds.
LEMMA EnvironmentKnownStep ==
  ASSUME Types, Stages, Underway, Undone, Ended, OneRollback, EnvironmentKnown,
         UndoneInTurn, Next, Quiet'
  PROVE  EnvironmentKnown'
<1>0. /\ tree \in Trees /\ wal \in Wals /\ proc \in [pc : Places, at : Nat]
      /\ spent \in [prepares : Nat, kills : Nat, faults : Nat, edits : Nat]
      /\ Len(Plan) \in Nat /\ Len(Plan) > 0
  BY TypesAre, Length
<1>q. Quiet /\ ~Fail /\ ~EditEnvironment /\ (Kill => spent.kills = 0 /\ spent'.kills = 1)
  BY TroublesGrow DEF vars, Quiet, Calm
<1>r. ~Refused /\ ~Conflict
  BY <1>q, NothingRefused, NoConflict
<1> USE <1>0, <1>q DEF Places, Wals, Trees, At, Go, Stages, Preparing, Cleaning,
      Undecided,
         Decided, RolledBack, Committed, EnvironmentKnown
<1>1. CASE Prepare
  BY <1>1, SMTT(60) DEF Prepare, NoIncompleteTransactions, Untouched, NewWal, NewWal
<1>2. CASE CreateJournal
  BY <1>2, SMTT(60) DEF CreateJournal, NewWal, Ended, Untouched
<1>3. CASE CreateCompanion
  BY <1>3, SMTT(60) DEF CreateCompanion
<1>4. CASE PersistEnvBackup
  BY <1>4, SMTT(60) DEF PersistEnvBackup
<1>5. CASE Stage
  BY <1>5, SMTT(60) DEF Stage
<1>6. CASE WriteManifest
  BY <1>6, SMTT(60) DEF WriteManifest, Env
<1>7. CASE WriteIntent
  BY <1>7, SMTT(60) DEF WriteIntent
<1>8. CASE Mutate
  <2>1. tree'.env = tree.env /\ tree'.candidate = tree.candidate
    <3>1. wal.logged \in Numbers
      BY <1>8 DEF Mutate, Numbers
    <3> QED
      BY <3>1, <1>8, MutatedIs DEF Mutate, Current
  <2>2. wal.logged # Len(Plan)
    <3>1. wal.logged \in Numbers
      BY <1>8 DEF Mutate, Numbers
    <3> QED
      BY <3>1, <1>8, PlanOf DEF Mutate, Current
  <2> QED
    BY <2>1, <2>2, <1>8 DEF Mutate
<1>9. CASE WriteCandidate
  BY <1>9, SMTT(60) DEF WriteCandidate, Current
<1>10. CASE ExchangeEnvironment
  BY <1>10, SMTT(60) DEF ExchangeEnvironment, ExchangeAllowed, Env
<1>11. CASE SettleEnvironment
  BY <1>11, SMTT(60) DEF SettleEnvironment
<1>12. CASE RecordDone
  BY <1>12, SMTT(60) DEF RecordDone
<1>13. CASE Commit
  BY <1>13, SMTT(60) DEF Commit, Verified
<1>14. CASE GiveUp
  BY <1>14, <1>r DEF GiveUp
<1>15. CASE StartRollback
  BY <1>15, SMTT(60) DEF StartRollback
<1>16. CASE ResumeForwardEnvironment
  BY <1>16, SMTT(60) DEF ResumeForwardEnvironment, ManifestMatches, CandidateKnown, Env
<1>17. CASE SkipCompleted
  BY <1>17, SMTT(60) DEF SkipCompleted, MoreToUndo, NextOperation
<1>18. CASE RecordUndone
  BY <1>18, SMTT(60) DEF RecordUndone, MoreToUndo, NextOperation
<1>19. CASE RecordRollbackIntent
  BY <1>19, SMTT(60) DEF RecordRollbackIntent, MoreToUndo
<1>20. CASE ReverseOperation
  <2>1. /\ MoreToUndo /\ tree' = Reversed(Plan[Undoing])
        /\ UNCHANGED <<journal, wal, cleanup, proc, spent>>
    BY <1>20 DEF ReverseOperation
  <2>2. Undoing \in Numbers /\ wal.logged > 0
    BY <2>1, UndoingIs
  <2>3. tree'.env \in {tree.env, wal.backup}
    BY <2>1, <2>2, <1>0, ReversedEnv
  <2> QED
    BY <2>1, <2>2, <2>3 DEF MoreToUndo
<1>21. CASE FailRollback
  BY <1>21, <1>r DEF FailRollback
<1>22. CASE CompleteRollback
  BY <1>22, SMTT(60) DEF CompleteRollback
<1>23. CASE WriteReceipt
  BY <1>23, SMTT(60) DEF WriteReceipt
<1>24. CASE WriteMetadata
  BY <1>24, SMTT(60) DEF WriteMetadata, Outcome
<1>25. CASE RemoveCompanion
  BY <1>25, SMTT(60) DEF RemoveCompanion, Outcome
<1>26. CASE MarkReceiptComplete
  BY <1>26, SMTT(60) DEF MarkReceiptComplete
<1>27. CASE Bury
  BY <1>27, SMTT(60) DEF Bury
<1>28. CASE RemoveTombstone
  BY <1>28, SMTT(60) DEF RemoveTombstone
<1>29. CASE UnlinkMetadata
  BY <1>29, SMTT(60) DEF UnlinkMetadata, Idle
<1>30. CASE ResumeRollback
  BY <1>30, SMTT(60) DEF ResumeRollback, Openable, Opened, ManifestMatches,
     NotRolledBack, Phases, ForwardPhases
<1>31. CASE FinalizeCleanup
  BY <1>31, SMTT(60) DEF FinalizeCleanup, Finalizable, Outcome
<1>32. CASE AcknowledgeRepaired
  BY <1>32, SMTT(60) DEF AcknowledgeRepaired
<1>33. CASE Kill
  BY <1>33, SMTT(60) DEF Kill, Idle
<1>34. CASE Fail
  BY <1>34, <1>q
<1>35. CASE EditEnvironment
  BY <1>35, <1>q
<1> QED
  BY <1>1, <1>2, <1>3, <1>4, <1>5, <1>6, <1>7, <1>8, <1>9, <1>10, <1>11, <1>12, <1>13,
     <1>14, <1>15, <1>16, <1>17, <1>18, <1>19, <1>20, <1>21, <1>22, <1>23, <1>24, <1>25,
     <1>26, <1>27, <1>28, <1>29, <1>30, <1>31, <1>32, <1>33, <1>34, <1>35
     DEF Next, Forward, Rollback, Clean, Command

\* The tree and the journal of a step that leaves the rollback's place.
LEMMA SameTurn ==
  ASSUME Types, Stages, UndoneInTurn, Quiet, journal' = "open", Undecided',
         journal = "open",
         Undecided, Left' = Left, wal'.logged = wal.logged, wal'.done = wal.done,
         wal'.undone = wal.undone, wal'.intents = wal.intents,
         tree'.active = tree.active, tree'.kept = tree.kept, tree'.made = tree.made,
         tree'.private = tree.private, tree'.env = tree.env
  PROVE  UndoneInTurn'
BY DEF UndoneInTurn, Shows

\* What the rollback has not reached is as the preparation left it.
LEMMA UndoneInTurnStep ==
  ASSUME Types, Stages, Underway, Exact, Undone, Ended, OneRollback, EnvironmentKnown,
         UndoneInTurn, Next, Quiet',
         Types', Exact'
  PROVE  UndoneInTurn'
<1> SUFFICES ASSUME journal' = "open", Undecided' PROVE UndoneInTurn'
  BY DEF UndoneInTurn
<1>0. /\ tree \in Trees /\ wal \in Wals /\ proc \in [pc : Places, at : Nat]
      /\ spent \in [prepares : Nat, kills : Nat, faults : Nat, edits : Nat]
      /\ Len(Plan) \in Nat /\ Len(Plan) > 0
  BY TypesAre, Length
<1>q. Quiet /\ ~Fail /\ ~EditEnvironment /\ (Kill => spent.kills = 0 /\ spent'.kills = 1)
  BY TroublesGrow DEF vars, Quiet, Calm
<1>r. ~Refused /\ ~Conflict
  BY <1>q, NothingRefused, NoConflict
<1> USE <1>0, <1>q DEF Places, Wals, Trees, At, Go, Stages, Preparing, Cleaning,
      Undecided,
         Decided, RolledBack, Committed
<1>1. CASE Prepare
  <2>1. ~(journal' = "open" /\ Undecided')
    BY <1>1 DEF Prepare
  <2> QED
    BY <2>1
<1>2. CASE CreateJournal
  <2>1. wal'.logged = 0 /\ wal'.done = {} /\ wal'.undone = {} /\ wal'.intents = {}
    BY <1>2 DEF CreateJournal, NewWal
  <2> QED
    BY <2>1 DEF UndoneInTurn, Numbers
<1>3. CASE CreateCompanion
  <2>1. /\ journal = "open" /\ Undecided /\ Left' = Left /\ wal'.logged = wal.logged
        /\ wal'.done = wal.done /\ wal'.undone = wal.undone /\ wal'.intents = wal.intents
    BY <1>3 DEF CreateCompanion, Left
  <2>2. /\ tree'.active = tree.active /\ tree'.kept = tree.kept /\ tree'.made = tree.made
        /\ tree'.private = tree.private /\ tree'.env = tree.env
    BY <1>3 DEF CreateCompanion
  <2> QED
    BY <2>1, <2>2, SameTurn
<1>4. CASE PersistEnvBackup
  <2>1. /\ journal = "open" /\ Undecided /\ Left' = Left /\ wal'.logged = wal.logged
        /\ wal'.done = wal.done /\ wal'.undone = wal.undone /\ wal'.intents = wal.intents
    BY <1>4 DEF PersistEnvBackup, Left
  <2>2. /\ tree'.active = tree.active /\ tree'.kept = tree.kept /\ tree'.made = tree.made
        /\ tree'.private = tree.private /\ tree'.env = tree.env
    BY <1>4 DEF PersistEnvBackup
  <2> QED
    BY <2>1, <2>2, SameTurn
<1>5. CASE Stage
  <2>1. /\ journal = "open" /\ Undecided /\ Left' = Left /\ wal'.logged = wal.logged
        /\ wal'.done = wal.done /\ wal'.undone = wal.undone /\ wal'.intents = wal.intents
    BY <1>5 DEF Stage, Left
  <2>2. /\ tree'.active = tree.active /\ tree'.kept = tree.kept /\ tree'.made = tree.made
        /\ tree'.private = tree.private /\ tree'.env = tree.env
    BY <1>5 DEF Stage
  <2> QED
    BY <2>1, <2>2, SameTurn
<1>6. CASE WriteManifest
  <2>1. /\ journal = "open" /\ Undecided /\ Left' = Left /\ wal'.logged = wal.logged
        /\ wal'.done = wal.done /\ wal'.undone = wal.undone /\ wal'.intents = wal.intents
    BY <1>6 DEF WriteManifest, Env, Left
  <2>2. /\ tree'.active = tree.active /\ tree'.kept = tree.kept /\ tree'.made = tree.made
        /\ tree'.private = tree.private /\ tree'.env = tree.env
    BY <1>6 DEF WriteManifest, Env
  <2> QED
    BY <2>1, <2>2, SameTurn
<1>7. CASE WriteIntent
  <2>1. /\ Preparing' /\ tree' = tree /\ wal'.logged = wal.logged + 1
        /\ wal'.done = wal.done
        /\ wal'.undone = {} /\ wal'.intents = {} /\ wal.logged < Len(Plan)
        /\ wal.logged \in Nat
        /\ wal.done \subseteq 1..wal.logged /\ Preparing /\ ~At("mutate")
    BY <1>7 DEF WriteIntent
  <2>2. \A r \in 1..wal.logged : Shows(tree, r)
    BY <2>1 DEF Exact
  <2>3. \A r \in Numbers : r < wal'.logged \/ r \in wal'.done => Shows(tree, r)
    BY <2>1, <2>2 DEF Numbers
  <2> QED
    BY <2>1, <2>3 DEF UndoneInTurn
<1>8. CASE Mutate
  <2>1. /\ Preparing' /\ Preparing /\ ~At("mutate")' /\ wal'.logged = wal.logged
        /\ wal'.done = wal.done
        /\ wal'.undone = {} /\ wal'.intents = {} /\ wal.intents = {}
        /\ wal.logged \in 0..Len(Plan)
        /\ journal = "open" /\ Undecided /\ Left = wal.logged
        /\ wal.done \subseteq 1..wal.logged
    BY <1>8 DEF Mutate, Left
  <2>2. Len(Plan) \in wal.done => tree'.env = "after"
    <3>1. Len(Plan) \in wal.done => Shows(tree, Len(Plan))
      BY <2>1 DEF UndoneInTurn, Numbers
    <3>2. Len(Plan) \in wal.done => tree.env = "after"
      BY <3>1, PlanOf, Length DEF Shows
    <3> QED
      BY <3>2, <1>8, <2>1, PlanOf, Length DEF Mutate, Current, Numbers
  <2>3. \A r \in 1..wal.logged : Shows(tree', r) \/ r = Len(Plan)
    BY <2>1 DEF Exact
  <2>4. tree'.env = "after" => Shows(tree', Len(Plan))
    BY PlanOf, Length DEF Shows
  <2>5. \A r \in Numbers : r < wal.logged \/ r \in wal.done => Shows(tree', r)
    BY <2>1, <2>2, <2>3, <2>4 DEF Numbers
  <2> QED
    BY <2>1, <2>5 DEF UndoneInTurn
<1>9. CASE WriteCandidate
  <2>1. /\ journal = "open" /\ Undecided /\ Left' = Left /\ wal'.logged = wal.logged
        /\ wal'.done = wal.done /\ wal'.undone = wal.undone /\ wal'.intents = wal.intents
    BY <1>9 DEF WriteCandidate, Current, Left
  <2>2. /\ tree'.active = tree.active /\ tree'.kept = tree.kept /\ tree'.made = tree.made
        /\ tree'.private = tree.private /\ tree'.env = tree.env
    BY <1>9 DEF WriteCandidate, Current
  <2> QED
    BY <2>1, <2>2, SameTurn
<1>10. CASE ExchangeEnvironment
  <2>1. /\ Preparing' /\ Preparing /\ ~At("mutate")' /\ wal'.logged = wal.logged
        /\ wal'.done = wal.done
        /\ wal'.undone = {} /\ wal'.intents = {} /\ wal.intents = {}
        /\ wal.logged \in 0..Len(Plan)
        /\ journal = "open" /\ Undecided /\ Left = wal.logged
        /\ wal.done \subseteq 1..wal.logged
    BY <1>10 DEF ExchangeEnvironment, Left
  <2>2. Len(Plan) \in wal.done => tree'.env = "after"
    <3>1. Len(Plan) \in wal.done => Shows(tree, Len(Plan))
      BY <2>1 DEF UndoneInTurn, Numbers
    <3>2. Len(Plan) \in wal.done => tree.env = "after"
      BY <3>1, PlanOf, Length DEF Shows
    <3> QED
      BY <3>2, <1>10 DEF ExchangeEnvironment
  <2>3. \A r \in 1..wal.logged : Shows(tree', r) \/ r = Len(Plan)
    BY <2>1 DEF Exact
  <2>4. tree'.env = "after" => Shows(tree', Len(Plan))
    BY PlanOf, Length DEF Shows
  <2>5. \A r \in Numbers : r < wal.logged \/ r \in wal.done => Shows(tree', r)
    BY <2>1, <2>2, <2>3, <2>4 DEF Numbers
  <2> QED
    BY <2>1, <2>5 DEF UndoneInTurn
<1>11. CASE SettleEnvironment
  <2>1. /\ journal = "open" /\ Undecided /\ Left' = Left /\ wal'.logged = wal.logged
        /\ wal'.done = wal.done /\ wal'.undone = wal.undone /\ wal'.intents = wal.intents
    BY <1>11 DEF SettleEnvironment, Left
  <2>2. /\ tree'.active = tree.active /\ tree'.kept = tree.kept /\ tree'.made = tree.made
        /\ tree'.private = tree.private /\ tree'.env = tree.env
    BY <1>11 DEF SettleEnvironment
  <2> QED
    BY <2>1, <2>2, SameTurn
<1>12. CASE RecordDone
  <2>1. /\ Preparing' /\ ~At("mutate")' /\ wal'.logged = wal.logged
        /\ wal'.done = wal.done \cup {wal.logged}
        /\ wal'.undone = {} /\ wal'.intents = {} /\ wal.logged \in 1..Len(Plan)
        /\ tree' = tree
        /\ wal.done \subseteq 1..wal.logged
    BY <1>12 DEF RecordDone
  <2>2. wal.logged = Len(Plan) => tree.env = "after"
    BY <1>12 DEF RecordDone, EnvironmentKnown
  <2>3. \A r \in 1..wal.logged : Shows(tree, r) \/ r = Len(Plan)
    BY <2>1 DEF Exact
  <2>4. tree.env = "after" => Shows(tree, Len(Plan))
    BY PlanOf, Length DEF Shows
  <2>5. \A r \in Numbers : r < wal.logged \/ r \in wal'.done => Shows(tree, r)
    BY <2>1, <2>2, <2>3, <2>4 DEF Numbers
  <2> QED
    BY <2>1, <2>5 DEF UndoneInTurn
<1>13. CASE Commit
  <2>1. ~(journal' = "open" /\ Undecided')
    BY <1>13 DEF Commit
  <2> QED
    BY <2>1
<1>14. CASE GiveUp
  BY <1>14, <1>r DEF GiveUp
<1>15. CASE StartRollback
  <2>1. /\ journal = "open" /\ Undecided /\ Left' = Left /\ wal'.logged = wal.logged
        /\ wal'.done = wal.done /\ wal'.undone = wal.undone /\ wal'.intents = wal.intents
    BY <1>15 DEF StartRollback, Left
  <2>2. /\ tree'.active = tree.active /\ tree'.kept = tree.kept /\ tree'.made = tree.made
        /\ tree'.private = tree.private /\ tree'.env = tree.env
    BY <1>15 DEF StartRollback
  <2> QED
    BY <2>1, <2>2, SameTurn
<1>16. CASE ResumeForwardEnvironment
  <2>1. /\ journal = "open" /\ Undecided /\ Left' = Left /\ wal'.logged = wal.logged
        /\ wal'.done = wal.done /\ wal'.undone = wal.undone /\ wal'.intents = wal.intents
    BY <1>16 DEF ResumeForwardEnvironment, ManifestMatches, CandidateKnown, Env, Left
  <2>2. /\ tree'.active = tree.active /\ tree'.kept = tree.kept /\ tree'.made = tree.made
        /\ tree'.private = tree.private /\ tree'.env = tree.env
    BY <1>16 DEF ResumeForwardEnvironment, ManifestMatches, CandidateKnown, Env
  <2> QED
    BY <2>1, <2>2, SameTurn
<1>17. CASE SkipCompleted
  <2>1. Undoing = Left /\ Undoing \in wal.undone /\ Undoing \in Nat
    BY <1>17, UndoingIs DEF SkipCompleted, MoreToUndo, Left, Numbers
  <2> QED
    BY <2>1, <1>17 DEF SkipCompleted, MoreToUndo, UndoneInTurn
<1>18. CASE RecordUndone
  <2>1. /\ MoreToUndo /\ journal = "open" /\ Undecided /\ wal'.logged = wal.logged
        /\ wal'.done = wal.done
    BY <1>18 DEF RecordUndone, MoreToUndo
  <2>2. /\ Undoing = Left /\ Undoing \in Numbers /\ Undoing \in Nat /\ Undoing > 0
        /\ Undoing \in 1..wal.logged /\ wal.logged \in Nat
    BY <2>1, UndoingIs DEF MoreToUndo, Left, Numbers
  <2>3. /\ \A r \in Numbers : r < Left => Shows(tree, r)
        /\ \A r \in wal.undone : r > Left
        /\ wal.intents \subseteq {Left}
    BY <2>1, <2>2 DEF UndoneInTurn, Numbers
  <2>4. /\ Left' = Left - 1 /\ tree' = tree
        /\ wal'.undone = wal.undone \cup {Left} /\ wal'.intents = wal.intents \ {Left}
    BY <1>18, <2>2 DEF RecordUndone, MoreToUndo, NextOperation, Left
  <2>5. wal'.intents = {} /\ \A r \in wal'.undone : r \in Nat
    BY <2>2, <2>3, <2>4 DEF Numbers
  <2> QED
    BY <2>1, <2>2, <2>3, <2>4, <2>5 DEF UndoneInTurn, Numbers
<1>19. CASE RecordRollbackIntent
  <2>1. /\ MoreToUndo /\ journal = "open" /\ Undecided /\ wal'.logged = wal.logged
        /\ wal'.done = wal.done
    BY <1>19 DEF RecordRollbackIntent, MoreToUndo
  <2>2. /\ Undoing = Left /\ Undoing \in Numbers /\ Undoing \in Nat /\ Undoing > 0
        /\ Undoing \in 1..wal.logged /\ wal.logged \in Nat
    BY <2>1, UndoingIs DEF MoreToUndo, Left, Numbers
  <2>3. /\ \A r \in Numbers : r < Left => Shows(tree, r)
        /\ \A r \in wal.undone : r > Left
        /\ wal.intents \subseteq {Left}
    BY <2>1, <2>2 DEF UndoneInTurn, Numbers
  <2>4. /\ Left' = Left /\ tree' = tree
        /\ wal'.undone = wal.undone /\ wal'.intents = wal.intents \cup {Left}
    BY <1>19, <2>2 DEF RecordRollbackIntent, Left
  <2> QED
    BY <2>1, <2>2, <2>3, <2>4 DEF UndoneInTurn, Numbers
<1>20. CASE ReverseOperation
  <2>1. /\ MoreToUndo /\ journal = "open" /\ Undecided /\ wal'.logged = wal.logged
        /\ wal'.done = wal.done
    BY <1>20 DEF ReverseOperation, MoreToUndo
  <2>2. /\ Undoing = Left /\ Undoing \in Numbers /\ Undoing \in Nat /\ Undoing > 0
        /\ Undoing \in 1..wal.logged /\ wal.logged \in Nat
    BY <2>1, UndoingIs DEF MoreToUndo, Left, Numbers
  <2>3. /\ \A r \in Numbers : r < Left => Shows(tree, r)
        /\ \A r \in wal.undone : r > Left
        /\ wal.intents \subseteq {Left}
    BY <2>1, <2>2 DEF UndoneInTurn, Numbers
  <2>4. /\ Left' = Left /\ tree' = Reversed(Plan[Left]) /\ wal' = wal
        /\ Left \in wal.intents
    BY <1>20, <2>2 DEF ReverseOperation, Left
  <2>5. \A r \in Numbers : r < Left => Shows(tree', r)
    BY <2>2, <2>3, <2>4, ReversedKeeps
  <2> QED
    BY <2>1, <2>2, <2>3, <2>4, <2>5 DEF UndoneInTurn, Numbers
<1>21. CASE FailRollback
  BY <1>21, <1>r DEF FailRollback
<1>22. CASE CompleteRollback
  <2>1. ~(journal' = "open" /\ Undecided')
    BY <1>22 DEF CompleteRollback
  <2> QED
    BY <2>1
<1>23. CASE WriteReceipt
  <2>1. ~(journal' = "open" /\ Undecided')
    BY <1>23 DEF WriteReceipt
  <2> QED
    BY <2>1
<1>24. CASE WriteMetadata
  <2>1. ~(journal' = "open" /\ Undecided')
    BY <1>24 DEF WriteMetadata
  <2> QED
    BY <2>1
<1>25. CASE RemoveCompanion
  <2>1. ~(journal' = "open" /\ Undecided')
    BY <1>25 DEF RemoveCompanion
  <2> QED
    BY <2>1
<1>26. CASE MarkReceiptComplete
  <2>1. ~(journal' = "open" /\ Undecided')
    BY <1>26 DEF MarkReceiptComplete
  <2> QED
    BY <2>1
<1>27. CASE Bury
  <2>1. ~(journal' = "open" /\ Undecided')
    BY <1>27 DEF Bury
  <2> QED
    BY <2>1
<1>28. CASE RemoveTombstone
  <2>1. ~(journal' = "open" /\ Undecided')
    BY <1>28 DEF RemoveTombstone
  <2> QED
    BY <2>1
<1>29. CASE UnlinkMetadata
  <2>1. ~(journal' = "open" /\ Undecided')
    BY <1>29 DEF UnlinkMetadata
  <2> QED
    BY <2>1
<1>30. CASE ResumeRollback
  <2>1. /\ journal = "open" /\ Undecided /\ Left' = Left /\ wal'.logged = wal.logged
        /\ wal'.done = wal.done /\ wal'.undone = wal.undone /\ wal'.intents = wal.intents
    BY <1>30 DEF ResumeRollback, Openable, Opened, ManifestMatches, NotRolledBack, Left
  <2>2. /\ tree'.active = tree.active /\ tree'.kept = tree.kept /\ tree'.made = tree.made
        /\ tree'.private = tree.private /\ tree'.env = tree.env
    BY <1>30 DEF ResumeRollback, Openable, Opened, ManifestMatches, NotRolledBack
  <2> QED
    BY <2>1, <2>2, SameTurn
<1>31. CASE FinalizeCleanup
  <2>1. ~(journal' = "open" /\ Undecided')
    BY <1>31 DEF FinalizeCleanup, Finalizable
  <2> QED
    BY <2>1
<1>32. CASE AcknowledgeRepaired
  <2>1. ~(journal' = "open" /\ Undecided')
    BY <1>32 DEF AcknowledgeRepaired
  <2> QED
    BY <2>1
<1>33. CASE Kill
  <2>1. /\ journal = "open" /\ Undecided /\ Left' = Left /\ wal'.logged = wal.logged
        /\ wal'.done = wal.done /\ wal'.undone = wal.undone /\ wal'.intents = wal.intents
    BY <1>33 DEF Kill, Idle, Left, OneRollback
  <2>2. /\ tree'.active = tree.active /\ tree'.kept = tree.kept /\ tree'.made = tree.made
        /\ tree'.private = tree.private /\ tree'.env = tree.env
    BY <1>33 DEF Kill, Idle
  <2> QED
    BY <2>1, <2>2, SameTurn
<1>34. CASE Fail
  BY <1>34, <1>q
<1>35. CASE EditEnvironment
  BY <1>35, <1>q
<1> QED
  BY <1>1, <1>2, <1>3, <1>4, <1>5, <1>6, <1>7, <1>8, <1>9, <1>10, <1>11, <1>12, <1>13,
     <1>14, <1>15, <1>16, <1>17, <1>18, <1>19, <1>20, <1>21, <1>22, <1>23, <1>24, <1>25,
     <1>26, <1>27, <1>28, <1>29, <1>30, <1>31, <1>32, <1>33, <1>34, <1>35
     DEF Next, Forward, Rollback, Clean, Command

\* The one-kill invariant holds at first.
LEMMA OnePassInit == Init => OnePass
<1> SUFFICES ASSUME Init PROVE OnePass
  OBVIOUS
<1> USE DEF Init, Untouched, NewWal, Idle, At
<1>1. OneRollback
  BY DEF OneRollback
<1>2. EnvironmentKnown
  BY DEF EnvironmentKnown, Preparing
<1>3. UndoneInTurn
  BY DEF UndoneInTurn
<1> QED
  BY <1>1, <1>2, <1>3 DEF OnePass

\* Every step keeps the one-kill invariant.
LEMMA OnePassStep ==
  ASSUME PrepInv, OnePass, PrepInv', [Next]_vars
  PROVE  OnePass'
<1> USE DEF PrepInv, TreeInv, OnePass
<1>1. CASE UNCHANGED vars
  BY <1>1 DEF vars, Quiet, Calm, OneRollback, EnvironmentKnown, UndoneInTurn, Undecided,
     Decided,
              Preparing, At, Left, Shows
<1>2. CASE Next /\ Quiet'
  BY <1>2, OneRollbackStep, EnvironmentKnownStep, UndoneInTurnStep
<1>3. CASE ~Quiet'
  BY <1>3 DEF OneRollback, EnvironmentKnown, UndoneInTurn
<1> QED
  BY <1>1, <1>2, <1>3

\* A process that is killed once, wherever it stands after the journal was
\* created, leaves a transaction that one of the recovery commands accepts.
THEOREM OneKillIsRecovered == Spec => []OneKillRecovers
<1>1. PrepInv /\ OnePass => OneKillRecovers
  <2> SUFFICES ASSUME PrepInv, OnePass, Calm, spent.kills <= 1, At("idle"),
                      journal \notin {"bare", "quarantined"}
               PROVE  \/ NoIncompleteTransactions
                      \/ Openable /\ wal.phase \notin NotRolledBack
                      \/ Finalizable
    BY DEF OneKillRecovers
  <2>1. Stages /\ OneRollback /\ Quiet
    BY DEF PrepInv, OnePass, Quiet
  <2>2. /\ journal \in {"none", "bare", "open", "tombstone", "quarantined"}
        /\ wal.phase \in Phases
    BY TypesAre DEF PrepInv, Wals
  <2>3. CASE journal = "open" /\ Undecided
    <3>1. wal.phase = "planned"
      BY <2>1, <2>2, <2>3 DEF OneRollback, At, Undecided, Decided, Phases, ForwardPhases
    <3> QED
      BY <2>3, <3>1 DEF Openable, NotRolledBack, ForwardPhases, Committed
  <2>4. CASE journal = "open" /\ ~Undecided
    BY <2>4 DEF Undecided, Decided, Finalizable
  <2>5. CASE journal = "tombstone"
    BY <2>1, <2>5 DEF Stages, Finalizable
  <2>6. CASE journal = "none"
    BY <2>1, <2>6 DEF Stages, Finalizable, NoIncompleteTransactions
  <2> QED
    BY <2>2, <2>3, <2>4, <2>5, <2>6
<1>2. (PrepInv /\ OnePass) /\ [Next]_vars => PrepInv'
  BY TypesStep, StagesStep, UnderwayStep, ExactStep, UndoneStep, EndedStep DEF PrepInv,
     TreeInv
<1>3. (PrepInv /\ OnePass) /\ [Next]_vars => (PrepInv /\ OnePass)'
  BY <1>2, OnePassStep
<1> QED
  BY PrepInvInit, OnePassInit, <1>1, <1>3, PTL DEF Spec

====
