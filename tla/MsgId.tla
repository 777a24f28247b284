------------------------------- MODULE MsgId -------------------------------
(***************************************************************************)
(* mqtt_client_msg_id_get() of mqtt_client.c: a static uint16_t that two   *)
(* threads increment without a lock, transport_task for the data it        *)
(* publishes and the poll thread for "online" on the last will topic.      *)
(* transport_task has the higher priority: it can come between any two     *)
(* accesses of the poll thread, never the other way round.                 *)
(*                                                                         *)
(* The accesses to id are a data race.  The build may keep id in a         *)
(* register from the first read to the last write, or go to memory for     *)
(* each access: a call does the one or the other.                          *)
(***************************************************************************)
EXTENDS Naturals

CONSTANTS
  Range,   \* number of values of the counter: 2^16 in the code
  Burst    \* bound: calls of transport_task during one of the poll thread

ASSUME RangeAssumption == Range \in Nat /\ Range > 2
ASSUME BurstAssumption == Burst \in Nat /\ Burst < Range - 1

VARIABLES
  id,       \* the static variable
  pc,       \* control point of each thread in the function
  reg,      \* value of id in the thread's register
  burst,    \* calls of transport_task since the poll thread began its own
  returned  \* history: the value each thread got

vars == <<id, pc, reg, burst, returned>>

Threads == {"poll", "task"}
Ids == 0..(Range - 1)

Init ==
  /\ id = 0
  /\ pc = [t \in Threads |-> "idle"]
  /\ reg = [t \in Threads |-> 0]
  /\ burst = 0
  /\ returned = [t \in Threads |-> 1]

\* Mutated form: an int.
Increment_Wide(n) == n + 1

\* uint16_t arithmetic
Increment(n) == (n + 1) % Range

\* Mutated form: zero is not skipped.
SkipZero_Kept(n) == n

SkipZero(n) == IF n = 0 THEN Increment(n) ELSE n

MayRun(t) == t = "poll" => pc["task"] = "idle"

Goto(t, l) == pc' = [pc EXCEPT ![t] = l]

Return(t, n) ==
  /\ returned' = [returned EXCEPT ![t] = n]
  /\ Goto(t, "idle")

\* The first read of id.
Load(t) ==
  /\ pc[t] = "idle" /\ MayRun(t)
  /\ t = "task" /\ pc["poll"] # "idle" => burst < Burst
  /\ burst' = IF pc["poll"] = "idle" THEN 0 ELSE burst + 1
  /\ reg' = [reg EXCEPT ![t] = id]
  /\ \/ Goto(t, "store")
     \/ Goto(t, "register_store")
  /\ UNCHANGED <<id, returned>>

\* id++ and the test, in a register.
RegisterStore(t) ==
  /\ pc[t] = "register_store" /\ MayRun(t)
  /\ id' = SkipZero(Increment(reg[t]))
  /\ Return(t, id')
  /\ UNCHANGED <<reg, burst>>

\* id++
Store(t) ==
  /\ pc[t] = "store" /\ MayRun(t)
  /\ id' = Increment(reg[t])
  /\ Goto(t, "test")
  /\ UNCHANGED <<reg, burst, returned>>

\* if (id == 0) id++, the two reads being one or two.
Test(t) ==
  /\ pc[t] = "test" /\ MayRun(t)
  /\ reg' = [reg EXCEPT ![t] = id]
  /\ Goto(t, IF SkipZero(id) = id THEN "return" ELSE "store_again")
  /\ UNCHANGED <<id, burst, returned>>

StoreAgain(t) ==
  /\ pc[t] = "store_again" /\ MayRun(t)
  /\ \E n \in {reg[t], id} : id' = Increment(n)
  /\ Goto(t, "return")
  /\ UNCHANGED <<reg, burst, returned>>

ReturnId(t) ==
  /\ pc[t] = "return" /\ MayRun(t)
  /\ Return(t, id)
  /\ UNCHANGED <<id, reg, burst>>

Next ==
  \E t \in Threads :
    Load(t) \/ RegisterStore(t) \/ Store(t) \/ Test(t) \/ StoreAgain(t) \/ ReturnId(t)

Spec == Init /\ [][Next]_vars
-----------------------------------------------------------------------------
(* Properties.                                                             *)

\* Type invariant: the counter stays within its width, whichever thread writes it.
TypeOK ==
  /\ id \in Ids
  /\ pc \in [Threads -> {"idle", "store", "register_store", "test", "store_again", "return"}]
  /\ reg \in [Threads -> Ids]
  /\ burst \in 0..Burst
  /\ returned \in [Threads -> Ids]

\* No call returns 0, which mqtt_client_publish() rejects (mqtt_client.c:704),
\* wherever transport_task comes between the accesses of the poll thread, unless
\* it goes once round the counter in between.
NeverZero == \A t \in Threads : returned[t] # 0
=============================================================================
