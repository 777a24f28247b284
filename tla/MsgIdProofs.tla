---------------------------- MODULE MsgIdProofs ----------------------------
(***************************************************************************)
(* No message id is zero, for every width of the counter and every number  *)
(* of calls of transport_task, short of a whole round of the counter, that *)
(* come between two accesses of the poll thread.                           *)
(***************************************************************************)
EXTENDS MsgId, TLAPS

USE RangeAssumption, BurstAssumption
-----------------------------------------------------------------------------
(* The counter.                                                            *)

\* id++ gives 0 after the highest value only.
LEMMA IncrementValue ==
  ASSUME NEW n \in Ids
  PROVE  Increment(n) = IF n = Range - 1 THEN 0 ELSE n + 1
<1>1. CASE n = Range - 1
  <2>1. n + 1 = Range /\ Range % Range = 0
    BY <1>1 DEF Ids
  <2> QED
    BY <1>1, <2>1 DEF Increment
<1>2. CASE n # Range - 1
  <2>1. n + 1 \in Nat /\ n + 1 < Range
    BY <1>2 DEF Ids
  <2>2. (n + 1) % Range = n + 1
    BY <2>1
  <2> QED
    BY <1>2, <2>2 DEF Increment
<1> QED
  BY <1>1, <1>2

\* The second increment leaves zero behind.
LEMMA SkipZeroValue ==
  ASSUME NEW n \in Ids
  PROVE  SkipZero(n) \in Ids /\ SkipZero(n) # 0
BY IncrementValue DEF SkipZero, Ids
-----------------------------------------------------------------------------
(* The invariant.                                                          *)

\* The program starts with well-typed variables.
LEMMA TypeInit == Init => TypeOK
BY DEF Init, TypeOK, Ids, Threads

\* Every step keeps the types.
LEMMA TypeNext == TypeOK /\ [Next]_vars => TypeOK'
<1> SUFFICES ASSUME TypeOK, [Next]_vars PROVE TypeOK'
  OBVIOUS
<1> USE DEF TypeOK
<1>1. \A n \in Ids : Increment(n) \in Ids /\ SkipZero(n) \in Ids
  BY IncrementValue, SkipZeroValue DEF Ids
<1>2. ASSUME NEW t \in Threads, Load(t) PROVE TypeOK'
  <2>1. burst' \in 0..Burst
    BY <1>2 DEF Load, Threads
  <2>2. reg' \in [Threads -> Ids]
    BY <1>2 DEF Load
  <2> QED
    BY <1>2, <2>1, <2>2 DEF Load, Goto
<1>3. ASSUME NEW t \in Threads, RegisterStore(t) PROVE TypeOK'
  <2>1. reg[t] \in Ids
    OBVIOUS
  <2> QED
    BY <1>1, <1>3, <2>1 DEF RegisterStore, Return, Goto
<1>4. ASSUME NEW t \in Threads, Store(t) PROVE TypeOK'
  BY <1>1, <1>4 DEF Store, Goto
<1>5. ASSUME NEW t \in Threads, Test(t) PROVE TypeOK'
  BY <1>5 DEF Test, Goto
<1>6. ASSUME NEW t \in Threads, StoreAgain(t) PROVE TypeOK'
  BY <1>1, <1>6 DEF StoreAgain, Goto
<1>7. ASSUME NEW t \in Threads, ReturnId(t) PROVE TypeOK'
  BY <1>7 DEF ReturnId, Return, Goto
<1>8. CASE UNCHANGED vars
  BY <1>8 DEF vars
<1> QED
  BY <1>2, <1>3, <1>4, <1>5, <1>6, <1>7, <1>8 DEF Next

\* The counter keeps to its width, and the two threads to the control points of
\* the function (mqtt_client.c:741-752).
THEOREM TypeCorrect == Spec => []TypeOK
BY TypeInit, TypeNext, PTL DEF Spec

\* What id may be while a call is under way.  While the poll thread is about to
\* leave zero behind, transport_task has brought id up from zero by one for each
\* of its calls; transport_task itself sees no other value than its own.
IdInv ==
  /\ NeverZero
  /\ pc["task"] = "return" => id # 0
  /\ pc["task"] = "store_again" => id = 0 /\ reg["task"] = 0
  /\ pc["poll"] = "return" /\ pc["task"] = "idle" => id # 0
  /\ pc["poll"] = "store_again" =>
       /\ reg["poll"] = 0 /\ id <= burst
       /\ pc["task"] \in {"store", "register_store"} => reg["task"] < burst
       /\ pc["task"] \in {"test", "return"} => id > 0
       /\ pc["task"] # "store_again"

\* A step of transport_task, which the poll thread never interrupts.
LEMMA IdTask ==
  ASSUME TypeOK, IdInv,
         \/ Load("task") \/ RegisterStore("task") \/ Store("task")
         \/ Test("task") \/ StoreAgain("task") \/ ReturnId("task")
  PROVE  IdInv'
<1> USE IncrementValue, SkipZeroValue DEF TypeOK, IdInv, NeverZero, Threads, Ids, Goto, Return
<1>1. CASE Load("task")
  BY <1>1 DEF Load
<1>2. CASE RegisterStore("task")
  <2>1. reg["task"] \in Ids
    OBVIOUS
  <2>2. Increment(reg["task"]) = IF reg["task"] = Range - 1 THEN 0 ELSE reg["task"] + 1
    BY <2>1
  <2>3. id' = SkipZero(Increment(reg["task"])) /\ id' # 0
    BY <1>2, <2>2 DEF RegisterStore
  <2>4. pc["poll"] = "store_again" => id' = reg["task"] + 1
    BY <1>2, <2>1, <2>2, <2>3 DEF RegisterStore, SkipZero
  <2> QED
    BY <1>2, <2>3, <2>4 DEF RegisterStore
<1>3. CASE Store("task")
  BY <1>3 DEF Store
<1>4. CASE Test("task")
  <2>1. SkipZero(id) = id <=> id # 0
    BY DEF SkipZero
  <2> QED
    BY <1>4, <2>1 DEF Test
<1>5. CASE StoreAgain("task")
  <2>1. id' = 1
    BY <1>5 DEF StoreAgain
  <2> QED
    BY <1>5, <2>1 DEF StoreAgain
<1>6. CASE ReturnId("task")
  BY <1>6 DEF ReturnId
<1> QED
  BY <1>1, <1>2, <1>3, <1>4, <1>5, <1>6

\* A step of the poll thread, which runs only while transport_task does not.
LEMMA IdPoll ==
  ASSUME TypeOK, IdInv,
         \/ Load("poll") \/ RegisterStore("poll") \/ Store("poll")
         \/ Test("poll") \/ StoreAgain("poll") \/ ReturnId("poll")
  PROVE  IdInv'
<1> USE IncrementValue, SkipZeroValue DEF TypeOK, IdInv, NeverZero, Threads, Ids, Goto, Return
<1>1. CASE Load("poll")
  BY <1>1 DEF Load, MayRun
<1>2. CASE RegisterStore("poll")
  <2>1. Increment(reg["poll"]) \in Ids
    BY DEF Ids
  <2>2. id' # 0
    BY <1>2, <2>1 DEF RegisterStore
  <2> QED
    BY <1>2, <2>2 DEF RegisterStore, MayRun
<1>3. CASE Store("poll")
  BY <1>3 DEF Store, MayRun
<1>4. CASE Test("poll")
  <2>1. SkipZero(id) = id <=> id # 0
    BY DEF SkipZero
  <2> QED
    BY <1>4, <2>1 DEF Test, MayRun
<1>5. CASE StoreAgain("poll")
  <2>1. PICK n \in {reg["poll"], id} : id' = Increment(n)
    BY <1>5 DEF StoreAgain
  <2>2. n \in Ids /\ n # Range - 1
    BY <1>5 DEF StoreAgain
  <2>3. id' # 0
    BY <2>1, <2>2
  <2> QED
    BY <1>5, <2>3 DEF StoreAgain, MayRun
<1>6. CASE ReturnId("poll")
  BY <1>6 DEF ReturnId, MayRun
<1> QED
  BY <1>1, <1>2, <1>3, <1>4, <1>5, <1>6

\* mqtt_client_msg_id_get() never returns 0, although its two callers race for
\* the counter (mqtt_client.c:741-752): "Will not return 0 as it is reserved for
\* invalid message IDs" (mqtt_client.h:154).
THEOREM IdsAreValid == Spec => []NeverZero
<1>1. Init => IdInv
  BY DEF Init, IdInv, NeverZero, Threads
<1>2. TypeOK /\ IdInv /\ [Next]_vars => IdInv'
  <2>1. ASSUME TypeOK, IdInv, Next PROVE IdInv'
    BY <2>1, IdTask, IdPoll DEF Next, Threads
  <2>2. ASSUME TypeOK, IdInv, UNCHANGED vars PROVE IdInv'
    BY <2>2 DEF IdInv, NeverZero, vars
  <2> QED
    BY <2>1, <2>2
<1>3. IdInv => NeverZero
  BY DEF IdInv
<1> QED
  BY <1>1, <1>2, <1>3, TypeCorrect, PTL DEF Spec
=============================================================================
