---------------------------- MODULE AtomicTable ----------------------------
(***************************************************************************)
(* What the rest of FPSpy takes the table of monitoring contexts for: one  *)
(* whose operations happen at an instant.  Whoever allocates gets a slot   *)
(* of its own unless all are taken, whoever looks itself up gets the slot  *)
(* it has, and a slot is given up by its owner only.  Locks, loops and     *)
(* interrupted operations do not appear.                                   *)
(***************************************************************************)
EXTENDS Integers

CONSTANTS Threads, NumSlots

VARIABLES
  tid,     \* slot -> the thread that has it, 0 for none
  answers  \* thread -> what it has done and not returned from: <<operation, slot>>

Slots == 1..NumSlots

Init ==
  /\ tid = [s \in Slots |-> 0]
  /\ answers = [t \in Threads |-> {}]

HasNone(t) == \A s \in Slots : tid[s] # t
Answer(t, o, s) == answers' = [answers EXCEPT ![t] = @ \cup {<<o, s>>}]

Allocate(t) ==
  /\ HasNone(t)
  /\ \E s \in Slots : /\ tid[s] = 0 /\ tid' = [tid EXCEPT ![s] = t]
                      /\ Answer(t, "alloc", s)
AllocateFails(t) ==
  /\ HasNone(t) /\ HasNone(0)
  /\ tid' = tid /\ Answer(t, "alloc", 0)

Find(t) ==
  /\ \/ HasNone(t) /\ Answer(t, "find", 0)
     \/ \E s \in Slots : tid[s] = t /\ Answer(t, "find", s)
  /\ tid' = tid

Free(t) ==
  \E s \in Slots : tid[s] = t /\ tid' = [tid EXCEPT ![s] = 0] /\ Answer(t, "free", s)

Return(t) ==
  /\ \E a \in answers[t] : answers' = [answers EXCEPT ![t] = @ \ {a}]
  /\ tid' = tid

Next ==
  \E t \in Threads :
    Allocate(t) \/ AllocateFails(t) \/ Find(t) \/ Free(t) \/ Return(t)

Spec == Init /\ [][Next]_<<tid, answers>>

=============================================================================
