------------------------ MODULE LiveSchedulerProofs ------------------------
(***************************************************************************)
(* Proofs about LiveScheduler for every number of workers, keys, clients   *)
(* and instructions and for every failover policy: type correctness; that  *)
(* no worker sleeps on work it has been given; that the item of a task is  *)
(* never duplicated and never lost; and that the scheduler, given no       *)
(* instructions, implements TaskLifecycle, with failures, panics, removals *)
(* and aborts.                                                             *)
(***************************************************************************)
EXTENDS LiveSchedulerRefinement, SequenceTheorems, FiniteSetTheorems, FunctionTheorems,
        TLAPS

-----------------------------------------------------------------------------
(***************************************************************************)
(* Wake-ups.                                                               *)
(***************************************************************************)

(* What steal_batch_and_pop moves, and what it leaves, are items of the    *)
(* victim's queue.                                                         *)
LEMMA BatchType ==
  ASSUME NEW S, NEW q \in Seq(S), q # <<>>
  PROVE  Taken(q) \in Seq(S) /\ Left(q) \in Seq(S)
<1>1. Len(q) \in Nat \ {0} /\ \A i \in 1 .. Len(q) : q[i] \in S
  BY EmptySeq, ElementOfSeq
<1>2. Batch(q) \in 1 .. Len(q)
  BY <1>1 DEF Batch
<1>3. SubSeq(q, 2, Batch(q)) \in Seq(S)
  BY <1>1, <1>2, SubSeqProperties
<1>4. SubSeq(q, Batch(q) + 1, Len(q)) \in Seq(S)
  BY <1>1, <1>2, SubSeqProperties
<1>5. <<Head(q)>> \in Seq(S)
  BY HeadTailProperties
<1> QED
  BY <1>3, <1>4, <1>5, ConcatProperties DEF Taken, Left

(* Every action keeps every variable in its type.                          *)
LEMMA TypeStep == TypeOK /\ [Next]_vars => TypeOK'
<1> SUFFICES ASSUME TypeOK, [Next]_vars PROVE TypeOK'
  OBVIOUS
<1> USE DEF vars, storeVars, queueVars, wakeVars, workerVars, engineVars, handoffVars,
           loopVars, instructionVars, outside
<1>1. ASSUME Start PROVE TypeOK'
  BY <1>1
  DEF Start, TypeOK, WorkerStates, Stages, LoopStates, Producers
<1>2. ASSUME Abort PROVE TypeOK'
  BY <1>2
  DEF Abort, DrainProcess, TypeOK, WorkerStates, Stages, LoopStates, Producers
<1>3. ASSUME NEW ks \in SUBSET store, ClearShard(ks) PROVE TypeOK'
  BY <1>3
  DEF ClearShard, TypeOK, WorkerStates, Stages, LoopStates, Producers
<1>4. ASSUME NEW k \in Keys, Remove(k) PROVE TypeOK'
  BY <1>4
  DEF Remove, TypeOK, WorkerStates, Stages, LoopStates, Producers
<1>5. ASSUME NEW c \in Clients, NEW k \in Keys, Schedule(c, k) PROVE TypeOK'
  <2>1. Work(k, "Trigger") \in WorkItems
    BY DEF Work, WorkItems
  <2>2. c # "instruction_loop" /\ c \in Producers
    BY ConstantsAssumption DEF Producers
  <2> QED
    BY <1>5, <2>1, <2>2 DEF Schedule, HandOff, TypeOK, Stages
<1>6. ASSUME NEW c \in Clients, NEW k \in Keys, NEW i \in Instructions, Instruct(c, k, i) PROVE TypeOK'
  <2>1. Work(k, i) \in InstructionItems
    BY ConstantsAssumption DEF Work, InstructionItems
  <2>2. c # "instruction_loop" /\ c \in Producers
    BY ConstantsAssumption DEF Producers
  <2>3. instructionQueue' \in Seq(InstructionItems)
    BY <1>6, <2>1 DEF Instruct, TypeOK
  <2>4. instructed' \in 0 .. MaxInstructions
    BY <1>6, ConstantsAssumption DEF Instruct, TypeOK
  <2> QED
    BY <1>6, <2>2, <2>3, <2>4 DEF Instruct, TypeOK, Stages
<1>7. ASSUME NEW c \in Clients, NotifyWaiters(c) PROVE TypeOK'
  <2>1. instructing' \in LoopStates /\ (instructing' = "cancel" => instructing = "cancel")
    BY <1>7 DEF NotifyWaiters, TypeOK, LoopStates
  <2>2. /\ stage' \in [Producers -> Stages]
        /\ \A p \in Producers : stage'[p] = stage[p] \/ stage'[p] = "idle"
    BY <1>7 DEF NotifyWaiters, TypeOK, Stages
  <2>3. /\ item' = item /\ target' = target
        /\ \A p \in Producers :
             /\ stage'[p] = "push" => item[p] \in WorkItems
             /\ stage'[p] \in {"add", "notify"} => target[p] \in Workers
             /\ stage'[p] = "signal" => p \in Clients
    BY <1>7, <2>2 DEF NotifyWaiters, TypeOK
  <2>4. instructing' = "cancel" => /\ stage'["instruction_loop"] = "idle"
                                  /\ item["instruction_loop"] \in InstructionItems
    BY <2>1, <2>2 DEF TypeOK, Producers
  <2> QED
    BY <1>7, <2>1, <2>2, <2>3, <2>4 DEF NotifyWaiters, TypeOK
<1>8. ASSUME NEW p \in Producers, NEW w \in Workers, Push(p, w) PROVE TypeOK'
  <2>1. item[p] \in WorkItems
    BY <1>8 DEF Push, TypeOK
  <2>2. Append(ingress[w], item[p]) \in Seq(WorkItems)
    BY <2>1 DEF TypeOK
  <2>3. ingress' \in [Workers -> Seq(WorkItems)]
    BY <1>8, <2>2 DEF Push, TypeOK
  <2> QED
    BY <1>8, <2>3 DEF Push, TypeOK, Stages
<1>9. ASSUME NEW p \in Producers, FetchAdd(p) PROVE TypeOK'
  <2>1. target[p] \in Workers /\ stage[p] = "add"
    BY <1>9 DEF FetchAdd, TypeOK
  <2>2. pending' \in [Workers -> BOOLEAN]
    BY <1>9, <2>1 DEF FetchAdd, TypeOK
  <2>3. /\ item' = item
        /\ \/ /\ stage' = [stage EXCEPT ![p] = "idle"]
              /\ target' = [target EXCEPT ![p] = None]
           \/ /\ stage' = [stage EXCEPT ![p] = "notify"]
              /\ target' = target
    BY <1>9 DEF FetchAdd, EndHandOff
  <2>4. instructing = "cancel" => p # "instruction_loop"
    BY <2>1 DEF TypeOK
  <2>5. /\ stage' \in [Producers -> Stages]
        /\ target' \in [Producers -> Workers \cup {None}]
        /\ \A q \in Producers :
             /\ stage'[q] = "push" => item[q] \in WorkItems
             /\ stage'[q] \in {"add", "notify"} => target'[q] \in Workers
             /\ stage'[q] = "signal" => q \in Clients
        /\ instructing = "cancel" => stage'["instruction_loop"] = "idle"
    <3>1. CASE /\ stage' = [stage EXCEPT ![p] = "idle"]
               /\ target' = [target EXCEPT ![p] = None]
      BY <2>4, <3>1 DEF TypeOK, Stages
    <3>2. CASE /\ stage' = [stage EXCEPT ![p] = "notify"]
               /\ target' = target
      BY <2>1, <2>4, <3>2 DEF TypeOK, Stages
    <3> QED
      BY <2>3, <3>1, <3>2
  <2> QED
    BY <1>9, <2>2, <2>3, <2>5 DEF FetchAdd, TypeOK
<1>10. ASSUME NEW p \in Producers, NotifyOne(p) PROVE TypeOK'
  BY <1>10
  DEF NotifyOne, EndHandOff, TypeOK, WorkerStates, Stages, LoopStates, Producers
<1>11. ASSUME NEW w \in Workers, DrainIngress(w) PROVE TypeOK'
  <2>1. Head(ingress[w]) \in WorkItems /\ Tail(ingress[w]) \in Seq(WorkItems)
    BY <1>11, HeadTailProperties DEF DrainIngress, TypeOK
  <2>2. Append(local[w], Head(ingress[w])) \in Seq(WorkItems)
    BY <2>1 DEF TypeOK
  <2>3. /\ ingress' \in [Workers -> Seq(WorkItems)]
        /\ local' \in [Workers -> Seq(WorkItems)]
    BY <1>11, <2>1, <2>2 DEF DrainIngress, TypeOK
  <2> QED
    BY <1>11, <2>3 DEF DrainIngress, TypeOK
<1>12. ASSUME NEW w \in Workers, IngressEmpty(w) PROVE TypeOK'
  BY <1>12
  DEF IngressEmpty, Move, Goto, TypeOK, WorkerStates, Stages, LoopStates, Producers
<1>13. ASSUME NEW w \in Workers, PopLocal(w) PROVE TypeOK'
  <2>1. Head(local[w]) \in WorkItems /\ Tail(local[w]) \in Seq(WorkItems)
    BY <1>13, HeadTailProperties DEF PopLocal, Dropped, TypeOK
  <2>2. local' \in [Workers -> Seq(WorkItems)]
    BY <1>13, <2>1 DEF PopLocal, Dropped, TypeOK
  <2>3. CASE Head(local[w]).key \notin store
    BY <1>13, <2>2, <2>3 DEF PopLocal, Dropped, TypeOK
  <2>4. CASE Head(local[w]).key \in store
    <3>1. /\ hand' = [hand EXCEPT ![w] = Head(local[w])]
          /\ \/ pc' = [pc EXCEPT ![w] = "trigger"]
             \/ pc' = [pc EXCEPT ![w] = "dispatch"]
      BY <1>13, <2>4 DEF PopLocal, Dropped, Goto
    <3> QED
      BY <1>13, <2>1, <2>2, <3>1 DEF PopLocal, Dropped, TypeOK, WorkerStates
  <2> QED
    BY <2>3, <2>4
<1>14. ASSUME NEW w \in Workers, NEW v \in Workers, Steal(w, v) PROVE TypeOK'
  BY <1>14, BatchType, ConcatProperties
  DEF Steal, Goto, TypeOK, WorkerStates, Stages, LoopStates, Producers
<1>15. ASSUME NEW w \in Workers, StealFails(w) PROVE TypeOK'
  BY <1>15
  DEF StealFails, Move, Goto, TypeOK, WorkerStates, Stages, LoopStates, Producers
<1>16. ASSUME NEW w \in Workers, StealGlobal(w) PROVE TypeOK'
  BY <1>16, BatchType, ConcatProperties
  DEF StealGlobal, Goto, TypeOK, WorkerStates, Stages, LoopStates, Producers
<1>17. ASSUME NEW w \in Workers, GlobalEmpty(w) PROVE TypeOK'
  BY <1>17
  DEF GlobalEmpty, Move, Goto, TypeOK, WorkerStates, Stages, LoopStates, Producers
<1>18. ASSUME NEW w \in Workers, SwapPending(w) PROVE TypeOK'
  BY <1>18
  DEF SwapPending, Goto, TypeOK, WorkerStates, Stages, LoopStates, Producers
<1>19. ASSUME NEW w \in Workers, Notified(w) PROVE TypeOK'
  BY <1>19
  DEF Notified, Goto, TypeOK, WorkerStates, Stages, LoopStates, Producers
<1>20. ASSUME NEW w \in Workers, TriggerOk(w) PROVE TypeOK'
  <2>1. hand[w].key \in Keys
    BY <1>20 DEF TriggerOk, TypeOK, WorkItems
  <2>2. armed' \in [Keys -> Nat]
    BY <1>20, <2>1 DEF TriggerOk, TypeOK
  <2> QED
    BY <1>20, <2>2 DEF TriggerOk, Goto, PutDown, TypeOK, WorkerStates
<1>21. ASSUME NEW w \in Workers, Dispatch(w) PROVE TypeOK'
  BY <1>21
  DEF Dispatch, Move, Goto, TypeOK, WorkerStates, Stages, LoopStates, Producers
<1>22. ASSUME NEW w \in Workers, RunOk(w) PROVE TypeOK'
  <2>1. Work(hand[w].key, "Trigger") \in WorkItems
    BY <1>22 DEF RunOk, TypeOK, Work, WorkItems
  <2>2. Append(local[w], Work(hand[w].key, "Trigger")) \in Seq(WorkItems)
    BY <2>1 DEF TypeOK
  <2>3. local' \in [Workers -> Seq(WorkItems)]
    BY <1>22, <2>2 DEF RunOk, TypeOK
  <2> QED
    BY <1>22, <2>3 DEF RunOk, Goto, PutDown, TypeOK, WorkerStates
<1>23. ASSUME NEW w \in Workers, ApplyFailover(w) PROVE TypeOK'
  <2>1. hand[w] \in WorkItems
    BY <1>23 DEF ApplyFailover, TypeOK
  <2>2. global' \in Seq(WorkItems) /\ store' \subseteq allocated
    BY <1>23, <2>1 DEF ApplyFailover, Retried, Forgotten, TypeOK
  <2>3. process' \in {"new", "running", "drained"}
    BY <1>23 DEF ApplyFailover, DrainProcess, TypeOK
  <2> QED
    BY <1>23, <2>2, <2>3
    DEF ApplyFailover, Goto, PutDown, TypeOK, WorkerStates
<1>24. ASSUME NEW w \in Workers, Panic(w) PROVE TypeOK'
  BY <1>24
  DEF Panic, Goto, PutDown, TypeOK, WorkerStates, Stages, LoopStates, Producers
<1>25. ASSUME NEW w \in Workers, Cancelled(w) PROVE TypeOK'
  BY <1>25
  DEF Cancelled, Goto, PutDown, TypeOK, WorkerStates, Stages, LoopStates, Producers
<1>26. ASSUME NEW k \in Keys, Fire(k) PROVE TypeOK'
  BY <1>26
  DEF Fire, TypeOK, WorkerStates, Stages, LoopStates, Producers
<1>27. ASSUME Retrieve PROVE TypeOK'
  <2>1. Head(fired) \in Keys /\ Tail(fired) \in Seq(Keys)
    BY <1>27, HeadTailProperties DEF Retrieve, TypeOK
  <2>2. Work(Head(fired), "Dispatch") \in WorkItems
    BY <2>1 DEF Work, WorkItems
  <2> QED
    BY <1>27, <2>1, <2>2 DEF Retrieve, HandOff, TypeOK, Stages, Producers
<1>28. ASSUME MainLoopCancelled PROVE TypeOK'
  BY <1>28
  DEF MainLoopCancelled, TypeOK, WorkerStates, Stages, LoopStates, Producers
<1>29. ASSUME PopInstruction PROVE TypeOK'
  <2> DEFINE k == Head(instructionQueue).key
             i == Head(instructionQueue).work
             p == "instruction_loop"
  <2>1. /\ k \in Keys /\ i \in AllInstructions
        /\ Tail(instructionQueue) \in Seq(InstructionItems)
    <3>1. /\ Head(instructionQueue) \in InstructionItems
          /\ Tail(instructionQueue) \in Seq(InstructionItems)
      BY <1>29, HeadTailProperties DEF PopInstruction, TypeOK
    <3> QED
      BY <3>1 DEF InstructionItems
  <2>2. /\ p \in Producers /\ stage[p] = "idle" /\ instructing = "pop"
        /\ store' \in SUBSET Keys
        /\ instructing' = IF i = "Halt" THEN "cancel" ELSE "pop"
    BY <1>29 DEF PopInstruction, Producers, TypeOK
  <2>3. /\ Work(k, "Trigger") \in WorkItems /\ Work(k, "Dispatch") \in WorkItems
        /\ Work(k, i) \in InstructionItems
    BY <2>1 DEF Work, WorkItems, InstructionItems
  <2>4. \/ i = "Reschedule" /\ HandOff(p, Work(k, "Trigger"))
        \/ i = "Execute" /\ HandOff(p, Work(k, "Dispatch"))
        \/ /\ i = "Halt" /\ item' = [item EXCEPT ![p] = Work(k, i)]
           /\ UNCHANGED <<stage, target>>
        \/ i = "Block" /\ UNCHANGED handoffVars
    BY <1>29, <2>1 DEF PopInstruction, AllInstructions
  <2> HIDE DEF k, i
  <2>5. /\ stage' \in [Producers -> Stages]
        /\ item' \in [Producers -> WorkItems \cup InstructionItems \cup {None}]
        /\ target' = target
        /\ \A q \in Producers :
             /\ stage'[q] = "push" => item'[q] \in WorkItems
             /\ stage'[q] \in {"add", "notify"} => target[q] \in Workers
             /\ stage'[q] = "signal" => q \in Clients
    <3>1. CASE i \in {"Reschedule", "Execute"}
      <4>1. /\ stage' = [stage EXCEPT ![p] = "push"] /\ target' = target
            /\ \E j \in WorkItems : item' = [item EXCEPT ![p] = j]
        BY <2>3, <2>4, <3>1 DEF HandOff
      <4> QED
        BY <2>2, <4>1 DEF TypeOK, Stages
    <3>2. CASE i = "Halt"
      BY <2>2, <2>3, <2>4, <3>2 DEF TypeOK
    <3>3. CASE i = "Block"
      BY <2>2, <2>4, <3>3 DEF TypeOK
    <3> QED
      BY <2>4, <3>1, <3>2, <3>3
  <2>6. i = "Halt" => stage'[p] = "idle" /\ item'[p] \in InstructionItems
    BY <2>2, <2>3, <2>4 DEF TypeOK
  <2> QED
    BY <1>29, <2>1, <2>2, <2>5, <2>6
    DEF PopInstruction, TypeOK, LoopStates
<1>30. ASSUME CancelHalted PROVE TypeOK'
  BY <1>30
  DEF CancelHalted, TypeOK, WorkerStates, Stages, LoopStates, Producers
<1>31. ASSUME InstructionsDrained PROVE TypeOK'
  BY <1>31
  DEF InstructionsDrained, TypeOK, WorkerStates, Stages, LoopStates, Producers
<1>32. ASSUME AwaitInstructions PROVE TypeOK'
  BY <1>32
  DEF AwaitInstructions, TypeOK, WorkerStates, Stages, LoopStates, Producers
<1>33. ASSUME InstructionLoopCancelled PROVE TypeOK'
  BY <1>33
  DEF InstructionLoopCancelled, TypeOK, WorkerStates, Stages, LoopStates, Producers
<1>34. CASE UNCHANGED vars
  BY <1>34, TypeOK DEF TypeOK
<1> QED
  BY <1>1, <1>2, <1>3, <1>4, <1>5, <1>6, <1>7, <1>8, <1>9, <1>10, <1>11, <1>12, <1>13, <1>14, <1>15, <1>16, <1>17, <1>18, <1>19, <1>20, <1>21, <1>22, <1>23, <1>24, <1>25, <1>26, <1>27, <1>28, <1>29, <1>30, <1>31, <1>32, <1>33, <1>34 DEF Next, ClientStep, HandOffStep, Look, Serve, InstructionStep

(* A step that leaves queues, workers and counters alone and does not       *)
(* disturb a hand-over past its push keeps the protocol.                   *)
LEMMA WakeQuiet ==
  ASSUME WakeProtocol,
         UNCHANGED <<process, ingress, local, global, pending, permit, pc>>,
         \A p \in Producers : stage[p] \in {"add", "notify"} =>
           stage'[p] = stage[p] /\ target'[p] = target[p]
  PROVE  WakeProtocol'
<1>1. ASSUME NEW w \in Workers PROVE (Announced(w) /\ Notifying(w) /\ LocalDone(w))'
  BY DEF WakeProtocol, Announced, Notifying, LocalDone
<1>2. GlobalWatched'
  BY DEF WakeProtocol, GlobalWatched, Searching
<1> QED
  BY <1>1, <1>2 DEF WakeProtocol

(* Every action keeps the wake-up protocol.                                *)
LEMMA WakeStep == TypeOK /\ WakeProtocol /\ [Next]_vars => WakeProtocol'
<1> SUFFICES ASSUME TypeOK, WakeProtocol, [Next]_vars PROVE WakeProtocol'
  OBVIOUS
<1> USE DEF vars, storeVars, queueVars, wakeVars, workerVars, engineVars, handoffVars,
           loopVars, instructionVars, outside
<1>1. ASSUME Start PROVE WakeProtocol'
  BY <1>1
  DEF Start, TypeOK, WakeProtocol, Announced, Notifying, LocalDone, GlobalWatched,
      Searching
<1>2. ASSUME Abort PROVE WakeProtocol'
  BY <1>2
  DEF Abort, DrainProcess, WakeProtocol, Announced, Notifying, LocalDone, GlobalWatched
<1>3. CASE \/ \E k \in Keys : Remove(k) \/ Fire(k)
           \/ \E ks \in SUBSET store : ClearShard(ks)
           \/ CancelHalted \/ MainLoopCancelled \/ InstructionsDrained
           \/ AwaitInstructions \/ InstructionLoopCancelled
  BY <1>3, WakeQuiet
  DEF Remove, Fire, CancelHalted, MainLoopCancelled, InstructionsDrained,
      AwaitInstructions, InstructionLoopCancelled, ClearShard
<1>4. ASSUME NEW c \in Clients,
             \/ NotifyWaiters(c)
             \/ \E k \in Keys : Schedule(c, k) \/ \E i \in Instructions : Instruct(c, k, i)
      PROVE  WakeProtocol'
  BY <1>4, WakeQuiet DEF Schedule, Instruct, NotifyWaiters, HandOff, TypeOK, Producers
<1>5. ASSUME Retrieve PROVE WakeProtocol'
  BY <1>5, WakeQuiet DEF Retrieve, HandOff, TypeOK
<1>6. ASSUME PopInstruction PROVE WakeProtocol'
  <2>1. /\ UNCHANGED <<process, ingress, local, global, pending, permit, pc, target>>
        /\ stage["instruction_loop"] = "idle"
        /\ \/ stage' = [stage EXCEPT !["instruction_loop"] = "push"]
           \/ stage' = stage
    <3>1. Head(instructionQueue) \in InstructionItems
      BY <1>6, HeadTailProperties DEF PopInstruction, TypeOK
    <3>2. Head(instructionQueue).work \in AllInstructions
      BY <3>1 DEF InstructionItems
    <3> QED
      BY <1>6, <3>2 DEF PopInstruction, HandOff, AllInstructions
  <2> QED
    BY <2>1, WakeQuiet DEF TypeOK
<1>7. ASSUME NEW p \in Producers, NEW w \in Workers, Push(p, w) PROVE WakeProtocol'
  BY <1>7
  DEF Push, TypeOK, WakeProtocol, Announced, Notifying, LocalDone, GlobalWatched,
      Searching
<1>8. ASSUME NEW p \in Producers, FetchAdd(p) PROVE WakeProtocol'
  <2>1. /\ target[p] \in Workers /\ stage[p] = "add"
        /\ pending' = [pending EXCEPT ![target[p]] = TRUE]
        /\ UNCHANGED <<process, ingress, local, global, permit, pc>>
    BY <1>8 DEF FetchAdd, TypeOK
  <2>2. CASE pending[target[p]]
    <3>1. pending' = pending
      BY <2>1, <2>2 DEF TypeOK
    <3>2. \A q \in Producers \ {p} : stage'[q] = stage[q] /\ target'[q] = target[q]
      BY <1>8, <2>2 DEF FetchAdd, EndHandOff, TypeOK
    <3> QED
      BY <2>1, <2>2, <3>1, <3>2
      DEF WakeProtocol, Announced, Notifying, LocalDone, GlobalWatched, Searching
  <2>3. CASE ~pending[target[p]]
    <3>1. stage' = [stage EXCEPT ![p] = "notify"] /\ target' = target
      BY <1>8, <2>3 DEF FetchAdd
    <3> QED
      BY <2>1, <3>1
      DEF TypeOK, WakeProtocol, Announced, Notifying, LocalDone, GlobalWatched, Searching
  <2> QED
    BY <2>2, <2>3
<1>9. ASSUME NEW p \in Producers, NotifyOne(p) PROVE WakeProtocol'
  BY <1>9
  DEF NotifyOne, EndHandOff, TypeOK, WakeProtocol, Announced, Notifying, LocalDone,
      GlobalWatched, Searching
<1>10. ASSUME NEW w \in Workers, DrainIngress(w) PROVE WakeProtocol'
  BY <1>10
  DEF DrainIngress, TypeOK, WakeProtocol, Announced, Notifying, LocalDone,
      GlobalWatched, Searching
<1>11. ASSUME NEW w \in Workers, IngressEmpty(w) PROVE WakeProtocol'
  BY <1>11
  DEF IngressEmpty, Move, Goto, TypeOK, WakeProtocol, Announced, Notifying, LocalDone,
      GlobalWatched, Searching
<1>12. ASSUME NEW w \in Workers, PopLocal(w) PROVE WakeProtocol'
  <2>1. /\ pc[w] = "pop"
        /\ \E l \in {"pop", "trigger", "dispatch"} : pc' = [pc EXCEPT ![w] = l]
        /\ \A v \in Workers \ {w} : local'[v] = local[v]
        /\ UNCHANGED <<process, ingress, global, pending, permit, stage, target>>
    BY <1>12 DEF PopLocal, Dropped, Goto, TypeOK
  <2> QED
    BY <2>1
    DEF TypeOK, WakeProtocol, Announced, Notifying, LocalDone, GlobalWatched, Searching
<1>13. ASSUME NEW w \in Workers, NEW v \in Workers, Steal(w, v) PROVE WakeProtocol'
  BY <1>13
  DEF Steal, Goto, TypeOK, WakeProtocol, Announced, Notifying, LocalDone,
      GlobalWatched, Searching
<1>14. ASSUME NEW w \in Workers, StealFails(w) PROVE WakeProtocol'
  BY <1>14
  DEF StealFails, Move, Goto, TypeOK, WakeProtocol, Announced, Notifying, LocalDone,
      GlobalWatched, Searching
<1>15. ASSUME NEW w \in Workers, StealGlobal(w) PROVE WakeProtocol'
  BY <1>15
  DEF StealGlobal, Goto, TypeOK, WakeProtocol, Announced, Notifying, LocalDone,
      GlobalWatched, Searching
<1>16. ASSUME NEW w \in Workers, GlobalEmpty(w) PROVE WakeProtocol'
  BY <1>16
  DEF GlobalEmpty, Move, Goto, TypeOK, WakeProtocol, Announced, Notifying, LocalDone,
      GlobalWatched, Searching
<1>17. ASSUME NEW w \in Workers, SwapPending(w) PROVE WakeProtocol'
  BY <1>17
  DEF SwapPending, Goto, TypeOK, WakeProtocol, Announced, Notifying, LocalDone,
      GlobalWatched, Searching
<1>18. ASSUME NEW w \in Workers, Notified(w) PROVE WakeProtocol'
  BY <1>18
  DEF Notified, Goto, TypeOK, WakeProtocol, Announced, Notifying, LocalDone,
      GlobalWatched, Searching
<1>19. ASSUME NEW w \in Workers, TriggerOk(w) \/ Dispatch(w) \/ RunOk(w) PROVE WakeProtocol'
  <2>1. /\ pc[w] \in {"trigger", "dispatch", "run"}
        /\ \E l \in {"pop", "run"} : pc' = [pc EXCEPT ![w] = l]
        /\ \A v \in Workers \ {w} : local'[v] = local[v]
        /\ UNCHANGED <<process, ingress, global, pending, permit, stage, target>>
    BY <1>19 DEF TriggerOk, Dispatch, RunOk, Move, Goto, TypeOK
  <2> QED
    BY <2>1
    DEF TypeOK, WakeProtocol, Announced, Notifying, LocalDone, GlobalWatched, Searching
<1>20. ASSUME NEW w \in Workers, ApplyFailover(w) PROVE WakeProtocol'
  BY <1>20
  DEF ApplyFailover, Retried, DrainProcess, Goto, TypeOK, WakeProtocol, Announced, Notifying,
      LocalDone, GlobalWatched, Searching
<1>21. ASSUME NEW w \in Workers, Panic(w) \/ Cancelled(w) PROVE WakeProtocol'
  BY <1>21
  DEF Panic, Cancelled, Goto, TypeOK, WakeProtocol, Announced, Notifying, LocalDone,
      GlobalWatched, Searching
<1>22. CASE UNCHANGED vars
  BY <1>22, WakeQuiet
<1> QED
  BY <1>1, <1>2, <1>3, <1>4, <1>5, <1>6, <1>7, <1>8, <1>9, <1>10, <1>11, <1>12, <1>13,
     <1>14, <1>15, <1>16, <1>17, <1>18, <1>19, <1>20, <1>21, <1>22
  DEF Next, ClientStep, HandOffStep, Look, Serve, InstructionStep

(* Both invariants hold initially.                                         *)
LEMMA InitInvariant == Init => TypeOK /\ WakeProtocol
<1> SUFFICES ASSUME Init PROVE TypeOK /\ WakeProtocol
  OBVIOUS
<1>1. TypeOK
  BY ConstantsAssumption DEF Init, TypeOK, WorkerStates, Stages, LoopStates, Producers
<1>2. WakeProtocol
  BY DEF Init, WakeProtocol, Announced, Notifying, LocalDone, GlobalWatched, Searching
<1> QED
  BY <1>1, <1>2

(* TypeOK of LiveScheduler holds in every reachable state: whatever is      *)
(* pushed, stolen, failed over or handed over, the queues hold work items  *)
(* of known keys and a producer past its push has a worker to notify.      *)
THEOREM TypeCorrect == Spec => []TypeOK
<1>1. Init => TypeOK
  BY InitInvariant
<1> QED
  BY <1>1, TypeStep, PTL DEF Spec

(* The inductive invariant of the wake-up protocol of live.rs.             *)
THEOREM WakeProtocolHolds == Spec => [](TypeOK /\ WakeProtocol)
<1>1. TypeOK /\ WakeProtocol /\ [Next]_vars => (TypeOK /\ WakeProtocol)'
  BY TypeStep, WakeStep
<1> QED
  BY <1>1, InitInvariant, PTL DEF Spec

(* No worker sleeps on work it has been given, and no failed-over item is   *)
(* left in the global queue by workers that all sleep: NoStrandedWork.     *)
THEOREM NoLostWakeup == Spec => []NoStrandedWork
<1>1. TypeOK /\ WakeProtocol => NoStrandedWork
  <2> SUFFICES ASSUME TypeOK, WakeProtocol PROVE NoStrandedWork
    OBVIOUS
  <2>1. ASSUME NEW w \in Workers, pc[w] = "wait", ~permit[w]
        PROVE  local[w] = <<>>
    BY <2>1 DEF WakeProtocol, LocalDone
  <2>2. ASSUME NEW w \in Workers, pc[w] = "wait", ~permit[w], ingress[w] # <<>>
        PROVE  \E p \in Producers : /\ target[p] = w
                                    /\ \/ stage[p] = "notify"
                                       \/ stage[p] = "add" /\ ~pending[w]
    <3>1. CASE pending[w]
      BY <2>2, <3>1 DEF WakeProtocol, Notifying
    <3>2. CASE ~pending[w]
      BY <2>2, <3>2 DEF WakeProtocol, Announced
    <3> QED
      BY <3>1, <3>2
  <2>3. process = "running" /\ ~Panics /\ global # <<>> => \E w \in Workers : Searching(w)
    BY DEF WakeProtocol, GlobalWatched
  <2> QED
    BY <2>1, <2>2, <2>3 DEF NoStrandedWork
<1> QED
  BY <1>1, WakeProtocolHolds, PTL

-----------------------------------------------------------------------------
(***************************************************************************)
(* Items.                                                                  *)
(***************************************************************************)

(* The places of a key's items.                                            *)

\* Place n of part b of the scheduler (a says whose) holds an item of k.
Holds(k, a, b, n) ==
  \/ b = "ingress" /\ a \in Workers /\ n \in At(ingress[a], k)
  \/ b = "local" /\ a \in Workers /\ n \in At(local[a], k)
  \/ b = "global" /\ a = "queue" /\ n \in At(global, k)
  \/ b = "hand" /\ a \in Workers /\ n = 0 /\ hand[a] # None /\ hand[a].key = k
  \/ b = "item" /\ a \in Producers /\ n = 0 /\ stage[a] = "push" /\ item[a].key = k
  \/ b = "armed" /\ a = "engine" /\ n \in 1 .. armed[k]
  \/ b = "fired" /\ a = "engine" /\ n \in DOMAIN fired /\ fired[n] = k

(* The tokens of a key are the places that hold an item of it.             *)
LEMMA TokenIs ==
  ASSUME NEW k
  PROVE  \A t : t \in Tokens(k) <=> \E a, b, n : t = <<a, b, n>> /\ Holds(k, a, b, n)
<1> SUFFICES ASSUME NEW t
             PROVE  t \in Tokens(k) <=> \E a, b, n : t = <<a, b, n>> /\ Holds(k, a, b, n)
  OBVIOUS
<1> DEFINE Ingress == UNION {{<<w, "ingress", n>> : n \in At(ingress[w], k)} : w \in Workers}
           Local == UNION {{<<w, "local", n>> : n \in At(local[w], k)} : w \in Workers}
           Global == {<<"queue", "global", n>> : n \in At(global, k)}
           Hand == {<<w, "hand", 0>> : w \in {x \in Workers : hand[x] # None /\ hand[x].key = k}}
           Item == {<<p, "item", 0>> :
                      p \in {q \in Producers : stage[q] = "push" /\ item[q].key = k}}
           Entries == {<<"engine", "armed", n>> : n \in 1 .. armed[k]}
           Released == {<<"engine", "fired", n>> : n \in {m \in DOMAIN fired : fired[m] = k}}
<1>1. t \in Ingress <=> \E w \in Workers : \E n \in At(ingress[w], k) : t = <<w, "ingress", n>>
  OBVIOUS
<1>2. t \in Local <=> \E w \in Workers : \E n \in At(local[w], k) : t = <<w, "local", n>>
  OBVIOUS
<1>3. t \in Hand <=> \E w \in Workers : hand[w] # None /\ hand[w].key = k /\ t = <<w, "hand", 0>>
  OBVIOUS
<1>4. t \in Item <=> \E p \in Producers : /\ stage[p] = "push" /\ item[p].key = k
                                          /\ t = <<p, "item", 0>>
  OBVIOUS
<1>5. /\ t \in Global <=> \E n \in At(global, k) : t = <<"queue", "global", n>>
      /\ t \in Entries <=> \E n \in 1 .. armed[k] : t = <<"engine", "armed", n>>
      /\ t \in Released <=> \E n \in DOMAIN fired : fired[n] = k /\ t = <<"engine", "fired", n>>
  OBVIOUS
<1>6. t \in Tokens(k) <=>
        \/ t \in Ingress \/ t \in Local \/ t \in Global \/ t \in Hand
        \/ t \in Item \/ t \in Entries \/ t \in Released
  BY DEF Tokens
<1> HIDE DEF Ingress, Local, Global, Hand, Item, Entries, Released
<1>7. ASSUME NEW a, NEW b, NEW n, t = <<a, b, n>>, Holds(k, a, b, n) PROVE t \in Tokens(k)
  <2>1. CASE b = "ingress"
    BY <1>1, <1>6, <1>7, <2>1 DEF Holds
  <2>2. CASE b = "local"
    BY <1>2, <1>6, <1>7, <2>2 DEF Holds
  <2>3. CASE b = "hand"
    BY <1>3, <1>6, <1>7, <2>3 DEF Holds
  <2>4. CASE b = "item"
    BY <1>4, <1>6, <1>7, <2>4 DEF Holds
  <2>5. CASE b \in {"global", "armed", "fired"}
    BY <1>5, <1>6, <1>7, <2>5 DEF Holds
  <2> QED
    BY <1>7, <2>1, <2>2, <2>3, <2>4, <2>5 DEF Holds
<1>8. ASSUME t \in Tokens(k) PROVE \E a, b, n : t = <<a, b, n>> /\ Holds(k, a, b, n)
  <2>1. CASE t \in Ingress
    BY <1>1, <2>1 DEF Holds
  <2>2. CASE t \in Local
    BY <1>2, <2>2 DEF Holds
  <2>3. CASE t \in Hand
    BY <1>3, <2>3 DEF Holds
  <2>4. CASE t \in Item
    BY <1>4, <2>4 DEF Holds
  <2>5. CASE t \in Global \/ t \in Entries \/ t \in Released
    BY <1>5, <2>5 DEF Holds
  <2> QED
    BY <1>6, <1>8, <2>1, <2>2, <2>3, <2>4, <2>5
<1> QED
  BY <1>7, <1>8

(* Of a place that is given by its parts.                                  *)
LEMMA TokenHolds ==
  ASSUME NEW k
  PROVE  \A a, b, n : <<a, b, n>> \in Tokens(k) <=> Holds(k, a, b, n)
BY TokenIs

(* The same of the tokens after a step.                                    *)
LEMMA TokenIsNext ==
  ASSUME NEW CONSTANT k
  PROVE  \A t : t \in Tokens(k)' <=> \E a, b, n : t = <<a, b, n>> /\ Holds(k, a, b, n)'
<1>1. (\A t : t \in Tokens(k) <=> \E a, b, n : t = <<a, b, n>> /\ Holds(k, a, b, n))'
  BY TokenIs, PTL
<1> QED
  BY <1>1

(* Tokens that can be traced back, no two to the same one, are not more    *)
(* than before.                                                            *)
LEMMA TracedBack ==
  ASSUME NEW S, NEW T, IsFiniteSet(T), NEW f \in [S -> T],
         \A s, t \in S : f[s] = f[t] => s = t
  PROVE  IsFiniteSet(S) /\ Cardinality(S) <= Cardinality(T)
<1>1. f \in Injection(S, T)
  BY Fun_IsInj
<1> QED
  BY <1>1, FS_Injection

-----------------------------------------------------------------------------
(* The positions of a key's items in a queue.                              *)

(* A queue has positions 1, 2, ...                                         *)
LEMMA AtType ==
  ASSUME NEW S, NEW q \in Seq(S), NEW k PROVE At(q, k) \subseteq 1 .. Len(q) /\ Len(q) \in Nat
BY DEF At

(* After a push.                                                           *)
LEMMA AtAppend ==
  ASSUME NEW S, NEW q \in Seq(S), NEW i \in S, NEW k
  PROVE  At(Append(q, i), k) = At(q, k) \cup {n \in {Len(q) + 1} : i.key = k}
BY AppendProperties DEF At

(* After a pop.                                                            *)
LEMMA AtTail ==
  ASSUME NEW S, NEW q \in Seq(S), q # <<>>, NEW k
  PROVE  /\ \A n : n \in At(Tail(q), k) <=> n \in Nat \ {0} /\ n + 1 \in At(q, k)
         /\ 1 \in At(q, k) <=> Head(q).key = k
BY HeadTailProperties, EmptySeq DEF At

(* After a steal: the first item taken comes last.                         *)
LEMMA AtTaken ==
  ASSUME NEW S, NEW q \in Seq(S), q # <<>>, NEW k
  PROVE  /\ Batch(q) \in 1 .. Len(q) /\ Len(Taken(q)) = Batch(q)
         /\ \A n : n \in At(Taken(q), k) <=>
              \/ n \in 1 .. Batch(q) - 1 /\ n + 1 \in At(q, k)
              \/ n = Batch(q) /\ 1 \in At(q, k)
         /\ \A n : n \in At(Left(q), k) <=> n \in Nat \ {0} /\ n + Batch(q) \in At(q, k)
<1>1. Len(q) \in Nat \ {0} /\ (\A i \in 1 .. Len(q) : q[i] \in S) /\ Head(q) = q[1]
  BY EmptySeq, ElementOfSeq
<1>2. Batch(q) \in 1 .. Len(q)
  BY <1>1 DEF Batch
<1> DEFINE b == Batch(q)
           r == SubSeq(q, 2, b)
           l == SubSeq(q, b + 1, Len(q))
<1>3. r \in Seq(S) /\ Len(r) = b - 1 /\ \A i \in 1 .. b - 1 : r[i] = q[i + 1]
  BY <1>1, <1>2, SubSeqProperties
<1>4. l \in Seq(S) /\ Len(l) = Len(q) - b /\ \A i \in 1 .. Len(q) - b : l[i] = q[i + b]
  BY <1>1, <1>2, SubSeqProperties
<1>5. <<Head(q)>> \in Seq(S) /\ Len(<<Head(q)>>) = 1 /\ <<Head(q)>>[1] = q[1]
  BY <1>1
<1> HIDE DEF r, l, b
<1>6. /\ r \o <<Head(q)>> \in Seq(S) /\ Len(r \o <<Head(q)>>) = b
      /\ \A i \in 1 .. b : (r \o <<Head(q)>>)[i] = IF i <= b - 1 THEN q[i + 1] ELSE q[1]
  BY <1>1, <1>2, <1>3, <1>5, ConcatProperties DEF b
<1>7. \A n : n \in At(Left(q), k) <=> n \in Nat \ {0} /\ n + Batch(q) \in At(q, k)
  BY <1>1, <1>2, <1>4 DEF At, Left, l, b
<1>8. Taken(q) = r \o <<Head(q)>>
  BY DEF Taken, r, b
<1>9. \A n : n \in At(Taken(q), k) <=>
              \/ n \in 1 .. Batch(q) - 1 /\ n + 1 \in At(q, k)
              \/ n = Batch(q) /\ 1 \in At(q, k)
  BY <1>1, <1>2, <1>6, <1>8 DEF At, b
<1> QED
  BY <1>2, <1>6, <1>7, <1>8, <1>9 DEF b

(* After two queues are joined.                                            *)
LEMMA AtConcat ==
  ASSUME NEW S, NEW q \in Seq(S), NEW r \in Seq(S), NEW k
  PROVE  \A n : n \in At(q \o r, k) <=>
           \/ n \in At(q, k)
           \/ n \in Nat /\ n > Len(q) /\ n - Len(q) \in At(r, k)
<1>1. /\ q \o r \in Seq(S) /\ Len(q \o r) = Len(q) + Len(r)
      /\ \A i \in 1 .. Len(q) + Len(r) :
           (q \o r)[i] = IF i <= Len(q) THEN q[i] ELSE r[i - Len(q)]
  BY ConcatProperties
<1>2. /\ DOMAIN q = 1 .. Len(q) /\ DOMAIN r = 1 .. Len(r) /\ Len(q) \in Nat /\ Len(r) \in Nat
      /\ DOMAIN (q \o r) = 1 .. Len(q) + Len(r)
  BY <1>1
<1> QED
  BY <1>1, <1>2 DEF At

-----------------------------------------------------------------------------
(* What a step does to the tokens of a key.                                *)

\* A step makes no token of k, and does not take the last.
NotMore(k) ==
  IsFiniteSet(Tokens(k)') /\ Cardinality(Tokens(k)') <= Cardinality(Tokens(k))
NotLost(k) == Tokens(k) # {} => Tokens(k)' # {}

(* A step that moves no item leaves the tokens.                            *)
LEMMA TokensQuiet ==
  ASSUME UNCHANGED <<ingress, local, global, hand, armed, fired>>,
         \A p \in Producers : /\ stage'[p] = "push" <=> stage[p] = "push"
                              /\ stage[p] = "push" => item'[p] = item[p],
         NEW CONSTANT k
  PROVE  Tokens(k)' = Tokens(k)
<1>1. \A a, b, n : Holds(k, a, b, n)' <=> Holds(k, a, b, n)
  BY DEF Holds
<1> QED
  BY <1>1, TokenIs, TokenIsNext

(* Of a finite set, as many elements are left when one is taken for one    *)
(* that is added.                                                          *)
LEMMA OneMoves ==
  ASSUME NEW S, NEW T, IsFiniteSet(T), NEW x, NEW y,
         S \subseteq (T \ {x}) \cup {y}, y \in S => x \in T
  PROVE  IsFiniteSet(S) /\ Cardinality(S) <= Cardinality(T)
<1>1. CASE x \notin T
  <2>1. S \subseteq T
    BY <1>1
  <2> QED
    BY <2>1, FS_Subset
<1>2. CASE x \in T
  <2>1. IsFiniteSet(T \ {x}) /\ Cardinality(T \ {x}) = Cardinality(T) - 1
    BY <1>2, FS_RemoveElement
  <2>2. /\ IsFiniteSet((T \ {x}) \cup {y}) /\ Cardinality(T) \in Nat
        /\ Cardinality((T \ {x}) \cup {y}) \in {Cardinality(T), Cardinality(T) - 1}
    BY <2>1, FS_AddElement, FS_CardinalityType
  <2>3. /\ IsFiniteSet(S) /\ Cardinality(S) \in Nat
        /\ Cardinality(S) <= Cardinality((T \ {x}) \cup {y})
    BY <2>2, FS_Subset, FS_CardinalityType
  <2> QED
    BY <2>2, <2>3
<1> QED
  BY <1>1, <1>2

(* The same of the tokens of k, whose places are given by their parts.     *)
LEMMA TokenMoves ==
  ASSUME NEW CONSTANT k, IsFiniteSet(Tokens(k)),
         NEW a, NEW b, NEW n, NEW c, NEW d, NEW m,
         ~Holds(k, a, b, n)' \/ <<a, b, n>> = <<c, d, m>>,
         Holds(k, c, d, m)' => Holds(k, a, b, n),
         \A u, v, r : Holds(k, u, v, r)' => Holds(k, u, v, r) \/ <<u, v, r>> = <<c, d, m>>
  PROVE  NotMore(k)
<1>1. Tokens(k)' \subseteq (Tokens(k) \ {<<a, b, n>>}) \cup {<<c, d, m>>}
  BY TokenIs, TokenIsNext
<1>2. <<c, d, m>> \in Tokens(k)' => <<a, b, n>> \in Tokens(k)
  BY TokenIs, TokenIsNext
<1> QED
  BY <1>1, <1>2, OneMoves DEF NotMore

(* No token is lost when every place hands its item to some place.         *)
LEMMA TokensKept ==
  ASSUME NEW CONSTANT k,
         \A a, b, n : Holds(k, a, b, n) => \E c, d, m : Holds(k, c, d, m)'
  PROVE  NotLost(k)
<1> SUFFICES ASSUME Tokens(k) # {} PROVE Tokens(k)' # {}
  BY DEF NotLost
<1>1. PICK a, b, n : Holds(k, a, b, n)
  BY TokenIs
<1>2. PICK c, d, m : Holds(k, c, d, m)'
  BY <1>1
<1> QED
  BY <1>2, TokenIsNext

(* No token is made when every token was there before.                     *)
LEMMA TokensDropped ==
  ASSUME NEW CONSTANT k, IsFiniteSet(Tokens(k)),
         \A a, b, n : Holds(k, a, b, n)' => Holds(k, a, b, n)
  PROVE  NotMore(k)
<1>1. Tokens(k)' \subseteq Tokens(k)
  BY TokenIs, TokenIsNext
<1> QED
  BY <1>1, FS_Subset DEF NotMore

(* One token moves from a place to another, the others stay.               *)
LEMMA TokenMovesOn ==
  ASSUME NEW CONSTANT k, IsFiniteSet(Tokens(k)),
         NEW CONSTANT a, NEW CONSTANT b, NEW CONSTANT n,
         NEW CONSTANT c, NEW CONSTANT d, NEW CONSTANT m,
         Holds(k, c, d, m)' <=> Holds(k, a, b, n),
         ~Holds(k, c, d, m), ~Holds(k, a, b, n)',
         \A u, v, r : <<u, v, r>> \notin {<<a, b, n>>, <<c, d, m>>} =>
                        (Holds(k, u, v, r)' <=> Holds(k, u, v, r))
  PROVE  NotMore(k) /\ NotLost(k)
<1>1. ASSUME NEW u, NEW v, NEW r, Holds(k, u, v, r)'
      PROVE  Holds(k, u, v, r) \/ <<u, v, r>> = <<c, d, m>>
  <2>1. <<u, v, r>> # <<a, b, n>>
    BY <1>1
  <2> QED
    BY <1>1, <2>1
<1>2. ASSUME NEW u, NEW v, NEW r, Holds(k, u, v, r)
      PROVE  \E x, y, z : Holds(k, x, y, z)'
  <2>1. CASE <<u, v, r>> = <<a, b, n>>
    BY <1>2, <2>1
  <2>2. CASE <<u, v, r>> # <<a, b, n>>
    <3>1. Holds(k, u, v, r)'
      BY <1>2, <2>2
    <3> QED
      BY <3>1
  <2> QED
    BY <2>1, <2>2
<1>3. NotLost(k)
  BY <1>2, TokensKept
<1>4. \A u, v, r : Holds(k, u, v, r)' => Holds(k, u, v, r) \/ <<u, v, r>> = <<c, d, m>>
  BY <1>1
<1>5. NotMore(k)
  BY <1>4, TokenMoves
<1> QED
  BY <1>3, <1>5

-----------------------------------------------------------------------------
(* Steps that move one item.                                               *)

(* A push moves a producer's item to the end of a worker's ingress.        *)
LEMMA PushTokens ==
  ASSUME TypeOK, NEW p \in Producers, NEW w \in Workers, Push(p, w),
         NEW CONSTANT k \in Keys, IsFiniteSet(Tokens(k))
  PROVE  NotMore(k) /\ NotLost(k)
<1> PICK last : last = Len(ingress[w]) + 1
  OBVIOUS
<1>1. /\ item[p] \in WorkItems /\ stage[p] = "push" /\ stage'[p] # "push"
      /\ ingress[w] \in Seq(WorkItems) /\ ingress'[w] = Append(ingress[w], item[p])
  BY DEF Push, TypeOK
<1>2. At(ingress'[w], k) = At(ingress[w], k) \cup {n \in {last} : item[p].key = k}
  BY <1>1, AtAppend
<1>3. /\ \A v \in Workers \ {w} : ingress'[v] = ingress[v]
      /\ \A q \in Producers \ {p} : stage'[q] = stage[q] /\ item'[q] = item[q]
      /\ UNCHANGED <<local, global, hand, armed, fired>>
  BY DEF Push, TypeOK, workerVars, engineVars
<1>4. last \notin At(ingress[w], k)
  BY <1>1, AtType
<1>5. ~Holds(k, p, "item", 0)' /\ ~Holds(k, w, "ingress", last)
  BY <1>1, <1>4 DEF Holds
<1>6. Holds(k, w, "ingress", last)' <=> Holds(k, p, "item", 0)
  BY <1>1, <1>2, <1>4 DEF Holds
<1>7. \A u, v, r : <<u, v, r>> \notin {<<p, "item", 0>>, <<w, "ingress", last>>} =>
                     (Holds(k, u, v, r)' <=> Holds(k, u, v, r))
  BY <1>2, <1>3 DEF Holds
<1> QED
  BY <1>5, <1>6, <1>7, TokenMovesOn

(* The engine takes an entry for the item in a worker's hand.              *)
LEMMA TriggerTokens ==
  ASSUME TypeOK, NEW w \in Workers, TriggerOk(w),
         NEW CONSTANT k \in Keys, IsFiniteSet(Tokens(k))
  PROVE  NotMore(k) /\ NotLost(k)
<1> PICK last : last = armed[k] + 1
  OBVIOUS
<1>1. /\ hand[w] \in WorkItems /\ hand[w] # None
      /\ hand'[w] = None /\ armed[k] \in Nat
      /\ armed'[k] = IF hand[w].key = k THEN last ELSE armed[k]
  BY NoneAssumption DEF TriggerOk, PutDown, TypeOK, WorkItems
<1>2. /\ \A v \in Workers \ {w} : hand'[v] = hand[v]
      /\ UNCHANGED <<ingress, local, global, stage, item, fired>>
  BY DEF TriggerOk, PutDown, TypeOK, queueVars, outside, handoffVars
<1>4. last \notin 1 .. armed[k]
  BY <1>1
<1>5. ~Holds(k, w, "hand", 0)' /\ ~Holds(k, "engine", "armed", last)
  BY <1>1, <1>4 DEF Holds
<1>6. Holds(k, "engine", "armed", last)' <=> Holds(k, w, "hand", 0)
  BY <1>1, <1>4 DEF Holds
<1>7. \A u, v, r : <<u, v, r>> \notin {<<w, "hand", 0>>, <<"engine", "armed", last>>} =>
                     (Holds(k, u, v, r)' <=> Holds(k, u, v, r))
  BY <1>1, <1>2 DEF Holds
<1> QED
  BY <1>5, <1>6, <1>7, TokenMovesOn

(* A run that ends sends its item to the end of the worker's deque.        *)
LEMMA RunTokens ==
  ASSUME TypeOK, NEW w \in Workers, RunOk(w),
         NEW CONSTANT k \in Keys, IsFiniteSet(Tokens(k))
  PROVE  NotMore(k) /\ NotLost(k)
<1> PICK last : last = Len(local[w]) + 1
  OBVIOUS
<1>1. /\ hand[w] \in WorkItems /\ hand[w] # None /\ hand'[w] = None
      /\ local[w] \in Seq(WorkItems)
  BY NoneAssumption DEF RunOk, PutDown, TypeOK
<1>2. /\ Work(hand[w].key, "Trigger") \in WorkItems
      /\ Work(hand[w].key, "Trigger").key = hand[w].key
      /\ local'[w] = Append(local[w], Work(hand[w].key, "Trigger"))
  BY <1>1 DEF RunOk, TypeOK, Work, WorkItems
<1>3. At(local'[w], k) = At(local[w], k) \cup {n \in {last} : hand[w].key = k}
  BY <1>1, <1>2, AtAppend
<1>4. /\ \A v \in Workers \ {w} : hand'[v] = hand[v] /\ local'[v] = local[v]
      /\ UNCHANGED <<ingress, global, stage, item, armed, fired>>
  BY DEF RunOk, PutDown, TypeOK, engineVars, outside, handoffVars
<1>5. last \notin At(local[w], k)
  BY <1>1, AtType
<1>6. ~Holds(k, w, "hand", 0)' /\ ~Holds(k, w, "local", last)
  BY <1>1, <1>5 DEF Holds
<1>7. Holds(k, w, "local", last)' <=> Holds(k, w, "hand", 0)
  BY <1>1, <1>3, <1>5 DEF Holds
<1>8. \A u, v, r : <<u, v, r>> \notin {<<w, "hand", 0>>, <<w, "local", last>>} =>
                     (Holds(k, u, v, r)' <=> Holds(k, u, v, r))
  BY <1>3, <1>4 DEF Holds
<1> QED
  BY <1>6, <1>7, <1>8, TokenMovesOn

(* A failed item goes to the global queue under Keep and is dropped under  *)
(* the other policies.                                                     *)
LEMMA FailoverTokens ==
  ASSUME TypeOK, NEW w \in Workers, ApplyFailover(w),
         NEW CONSTANT k \in Keys, IsFiniteSet(Tokens(k))
  PROVE  NotMore(k) /\ (policy = "Keep" \/ hand[w].key # k => NotLost(k))
<1> PICK last : last = Len(global) + 1
  OBVIOUS
<1>1. /\ hand[w] \in WorkItems /\ hand[w] # None /\ hand'[w] = None
      /\ global \in Seq(WorkItems)
  BY NoneAssumption DEF ApplyFailover, PutDown, TypeOK
<1>2. /\ \A v \in Workers \ {w} : hand'[v] = hand[v]
      /\ UNCHANGED <<ingress, local, stage, item, armed, fired>>
  BY DEF ApplyFailover, PutDown, TypeOK, engineVars, outside, handoffVars
<1>3. last \notin At(global, k)
  BY <1>1, AtType
<1>4. CASE policy = "Keep"
  <2>1. global' = Append(global, hand[w])
    BY <1>4 DEF ApplyFailover, Retried
  <2>2. At(global', k) = At(global, k) \cup {n \in {last} : hand[w].key = k}
    BY <1>1, <2>1, AtAppend
  <2>3. ~Holds(k, w, "hand", 0)' /\ ~Holds(k, "queue", "global", last)
    BY <1>1, <1>3 DEF Holds
  <2>4. Holds(k, "queue", "global", last)' <=> Holds(k, w, "hand", 0)
    BY <1>1, <1>3, <2>2 DEF Holds
  <2>5. \A u, v, r : <<u, v, r>> \notin {<<w, "hand", 0>>, <<"queue", "global", last>>} =>
                       (Holds(k, u, v, r)' <=> Holds(k, u, v, r))
    BY <1>2, <2>2 DEF Holds
  <2> QED
    BY <2>3, <2>4, <2>5, TokenMovesOn
<1>5. CASE policy # "Keep"
  <2>1. global' = global
    BY <1>5 DEF ApplyFailover, Retried
  <2>2. \A u, v, r : Holds(k, u, v, r)' => Holds(k, u, v, r)
    BY <1>1, <1>2, <2>1 DEF Holds
  <2>3. ASSUME hand[w].key # k, NEW u, NEW v, NEW r, Holds(k, u, v, r)
        PROVE  Holds(k, u, v, r)'
    BY <1>1, <1>2, <2>1, <2>3 DEF Holds
  <2>4. NotMore(k)
    BY <2>2, TokensDropped
  <2>5. hand[w].key # k => NotLost(k)
    BY <2>3, TokensKept
  <2> QED
    BY <1>5, <2>4, <2>5
<1> QED
  BY <1>4, <1>5

(* A worker that ends drops the item in its hand.                          *)
LEMMA DeathTokens ==
  ASSUME TypeOK, NEW w \in Workers, Panic(w) \/ Cancelled(w),
         NEW CONSTANT k \in Keys, IsFiniteSet(Tokens(k))
  PROVE  NotMore(k)
<1>1. /\ \A v \in Workers : hand'[v] \in {hand[v], None}
      /\ UNCHANGED <<ingress, local, global, stage, item, armed, fired>>
  BY DEF Panic, Cancelled, PutDown, TypeOK, engineVars, queueVars, outside, handoffVars
<1>2. \A u, v, r : Holds(k, u, v, r)' => Holds(k, u, v, r)
  BY <1>1 DEF Holds
<1> QED
  BY <1>2, TokensDropped

(* The engine releases one entry.                                          *)
LEMMA FireTokens ==
  ASSUME TypeOK, NEW j \in Keys, Fire(j),
         NEW CONSTANT k \in Keys, IsFiniteSet(Tokens(k))
  PROVE  NotMore(k) /\ NotLost(k)
<1> PICK last : last = Len(fired) + 1
  OBVIOUS
<1> PICK first : first = armed[k]
  OBVIOUS
<1>1. /\ armed[k] \in Nat /\ armed'[k] = (IF j = k THEN armed[k] - 1 ELSE armed[k])
      /\ j = k => armed[k] > 0
      /\ UNCHANGED <<ingress, local, global, hand, stage, item>>
  BY DEF Fire, TypeOK, queueVars, workerVars, handoffVars
<1>2. /\ DOMAIN fired = 1 .. Len(fired) /\ Len(fired) \in Nat
      /\ DOMAIN fired' = 1 .. last /\ fired'[last] = j
      /\ \A n \in 1 .. Len(fired) : fired'[n] = fired[n]
  BY AppendProperties DEF Fire, TypeOK
<1>3. \A u, v, r : v \notin {"armed", "fired"} => (Holds(k, u, v, r)' <=> Holds(k, u, v, r))
  BY <1>1 DEF Holds
<1>4. \A u, r : /\ Holds(k, u, "armed", r) <=> u = "engine" /\ r \in 1 .. armed[k]
                /\ Holds(k, u, "armed", r)' <=> u = "engine" /\ r \in 1 .. armed'[k]
  BY DEF Holds
<1>5. \A u, r : /\ Holds(k, u, "fired", r) <=>
                     u = "engine" /\ r \in 1 .. Len(fired) /\ fired[r] = k
                /\ Holds(k, u, "fired", r)' <=>
                     u = "engine" /\ r \in 1 .. last /\ fired'[r] = k
  BY <1>2 DEF Holds
<1>6. CASE j = k
  <2>1. ~Holds(k, "engine", "fired", last) /\ ~Holds(k, "engine", "armed", first)'
    BY <1>1, <1>2, <1>4, <1>5, <1>6
  <2>2. Holds(k, "engine", "fired", last)' /\ Holds(k, "engine", "armed", first)
    BY <1>1, <1>2, <1>4, <1>5, <1>6
  <2>3. \A u, r : <<u, "armed", r>> # <<"engine", "armed", first>> =>
                    (Holds(k, u, "armed", r)' <=> Holds(k, u, "armed", r))
    BY <1>1, <1>4, <1>6
  <2>4. \A u, r : <<u, "fired", r>> # <<"engine", "fired", last>> =>
                    (Holds(k, u, "fired", r)' <=> Holds(k, u, "fired", r))
    BY <1>2, <1>5
  <2>5. \A u, v, r : <<u, v, r>> \notin {<<"engine", "armed", first>>, <<"engine", "fired", last>>} =>
                       (Holds(k, u, v, r)' <=> Holds(k, u, v, r))
    BY <1>3, <2>3, <2>4
  <2> QED
    BY <2>1, <2>2, <2>5, TokenMovesOn
<1>7. CASE j # k
  <2>1. \A u, v, r : Holds(k, u, v, r)' <=> Holds(k, u, v, r)
    BY <1>1, <1>2, <1>3, <1>4, <1>5, <1>7
  <2>2. NotMore(k)
    BY <2>1, TokensDropped
  <2>3. ASSUME NEW u, NEW v, NEW r, Holds(k, u, v, r)
        PROVE  \E a, b, n : Holds(k, a, b, n)'
    BY <2>1, <2>3
  <2> QED
    BY <2>2, <2>3, TokensKept
<1> QED
  BY <1>6, <1>7

-----------------------------------------------------------------------------
(* Steps that take items off a queue: every token of k is traced back to   *)
(* the place it was taken from.                                            *)

(* The first item of a worker's ingress goes to the end of its deque.      *)
LEMMA DrainTokens ==
  ASSUME TypeOK, NEW w \in Workers, DrainIngress(w),
         NEW CONSTANT k \in Keys, IsFiniteSet(Tokens(k))
  PROVE  NotMore(k) /\ NotLost(k)
<1> PICK last : last = Len(local[w]) + 1
  OBVIOUS
<1> DEFINE From(a, b, n) ==
      IF a = w /\ b = "ingress" THEN <<w, "ingress", n + 1>>
      ELSE IF a = w /\ b = "local" /\ n = last THEN <<w, "ingress", 1>>
      ELSE <<a, b, n>>
<1>1. /\ ingress[w] \in Seq(WorkItems) /\ ingress[w] # <<>> /\ local[w] \in Seq(WorkItems)
      /\ ingress'[w] = Tail(ingress[w]) /\ local'[w] = Append(local[w], Head(ingress[w]))
  BY DEF DrainIngress, TypeOK
<1>2. Head(ingress[w]) \in WorkItems
  BY <1>1, HeadTailProperties
<1>3. /\ \A n : n \in At(ingress'[w], k) <=> n \in Nat \ {0} /\ n + 1 \in At(ingress[w], k)
      /\ 1 \in At(ingress[w], k) <=> Head(ingress[w]).key = k
  BY <1>1, AtTail
<1>4. At(local'[w], k) = At(local[w], k) \cup {n \in {last} : 1 \in At(ingress[w], k)}
  BY <1>1, <1>2, <1>3, AtAppend
<1>5. last \notin At(local[w], k) /\ At(ingress[w], k) \subseteq Nat \ {0}
  BY <1>1, AtType
<1>6. /\ \A v \in Workers \ {w} : ingress'[v] = ingress[v] /\ local'[v] = local[v]
      /\ UNCHANGED <<global, hand, stage, item, armed, fired>>
  BY DEF DrainIngress, TypeOK, workerVars, engineVars, outside, handoffVars
<1>7. ASSUME NEW a, NEW b, NEW n, Holds(k, a, b, n)' PROVE From(a, b, n) \in Tokens(k)
  <2>1. CASE a = w /\ b = "ingress"
    <3>1. Holds(k, w, "ingress", n + 1)
      BY <1>3, <1>7, <2>1 DEF Holds
    <3> QED
      BY <2>1, <3>1, TokenHolds
  <2>2. CASE a = w /\ b = "local" /\ n = last
    <3>1. Holds(k, w, "ingress", 1)
      BY <1>4, <1>5, <1>7, <2>2 DEF Holds
    <3> QED
      BY <2>2, <3>1, TokenHolds
  <2>3. CASE ~(a = w /\ (b = "ingress" \/ (b = "local" /\ n = last)))
    <3>1. Holds(k, a, b, n)
      BY <1>4, <1>6, <1>7, <2>3 DEF Holds
    <3> QED
      BY <2>3, <3>1, TokenHolds
  <2> QED
    BY <2>1, <2>2, <2>3
<1>8. ASSUME NEW a, NEW b, NEW n, NEW c, NEW d, NEW m,
             Holds(k, a, b, n)', Holds(k, c, d, m)', From(a, b, n) = From(c, d, m)
      PROVE  <<a, b, n>> = <<c, d, m>>
  BY <1>3, <1>4, <1>5, <1>6, <1>8 DEF Holds
<1>9. ASSUME NEW a, NEW b, NEW n, Holds(k, a, b, n)
      PROVE  \E c, d, m : Holds(k, c, d, m)'
  <2>1. CASE a = w /\ b = "ingress" /\ n = 1
    <3>1. Holds(k, w, "local", last)'
      BY <1>4, <1>9, <2>1 DEF Holds
    <3> QED
      BY <3>1
  <2>2. CASE a = w /\ b = "ingress" /\ n # 1
    <3>1. PICK m \in Nat \ {0} : n = m + 1
      <4>1. n \in Nat \ {0, 1}
        BY <1>5, <1>9, <2>2 DEF Holds
      <4> QED
        BY <4>1
    <3>2. Holds(k, w, "ingress", m)'
      BY <1>3, <1>9, <2>2, <3>1 DEF Holds
    <3> QED
      BY <3>2
  <2>3. CASE ~(a = w /\ b = "ingress")
    <3>1. Holds(k, a, b, n)'
      BY <1>4, <1>6, <1>9, <2>3 DEF Holds
    <3> QED
      BY <3>1
  <2> QED
    BY <2>1, <2>2, <2>3
<1> DEFINE f == [t \in Tokens(k)' |-> From(t[1], t[2], t[3])]
<1> HIDE DEF From
<1>10. f \in [Tokens(k)' -> Tokens(k)]
  BY <1>7, TokenIsNext
<1>11. \A s, t \in Tokens(k)' : f[s] = f[t] => s = t
  BY <1>8, TokenIsNext
<1>12. NotMore(k)
  BY <1>10, <1>11, TracedBack DEF NotMore
<1> QED
  BY <1>9, <1>12, TokensKept

(* The first item of a worker's deque goes to its hand, unless the task is *)
(* no longer stored.                                                       *)
LEMMA PopTokens ==
  ASSUME TypeOK, NEW w \in Workers, PopLocal(w),
         NEW CONSTANT k \in Keys, IsFiniteSet(Tokens(k))
  PROVE  NotMore(k) /\ (hand[w] = None /\ k \in store => NotLost(k))
<1> DEFINE From(a, b, n) ==
      IF a = w /\ b = "local" THEN <<w, "local", n + 1>>
      ELSE IF a = w /\ b = "hand" /\ hand'[w] # hand[w] THEN <<w, "local", 1>>
      ELSE <<a, b, n>>
<1>1. /\ local[w] \in Seq(WorkItems) /\ local[w] # <<>> /\ local'[w] = Tail(local[w])
  BY DEF PopLocal, Dropped, TypeOK
<1>2. Head(local[w]) \in WorkItems /\ Head(local[w]) # None
  BY <1>1, HeadTailProperties, NoneAssumption
<1>3. /\ \A n : n \in At(local'[w], k) <=> n \in Nat \ {0} /\ n + 1 \in At(local[w], k)
      /\ 1 \in At(local[w], k) <=> Head(local[w]).key = k
  BY <1>1, AtTail
<1>4. At(local[w], k) \subseteq Nat
  BY <1>1, AtType
<1>5. /\ \A v \in Workers \ {w} : hand'[v] = hand[v] /\ local'[v] = local[v]
      /\ UNCHANGED <<ingress, global, stage, item, armed, fired>>
      /\ hand'[w] \in {hand[w], Head(local[w])}
      /\ k \in store /\ Head(local[w]).key = k => hand'[w] = Head(local[w])
  BY DEF PopLocal, Dropped, TypeOK, workerVars, engineVars, outside, handoffVars
<1>6. ASSUME NEW a, NEW b, NEW n, Holds(k, a, b, n)' PROVE From(a, b, n) \in Tokens(k)
  BY <1>3, <1>5, <1>6, TokenHolds DEF Holds
<1>7. ASSUME NEW a, NEW b, NEW n, NEW c, NEW d, NEW m,
             Holds(k, a, b, n)', Holds(k, c, d, m)', From(a, b, n) = From(c, d, m)
      PROVE  <<a, b, n>> = <<c, d, m>>
  BY <1>3, <1>4, <1>5, <1>7 DEF Holds
<1>8. ASSUME hand[w] = None, k \in store, NEW a, NEW b, NEW n, Holds(k, a, b, n)
      PROVE  \E c, d, m : Holds(k, c, d, m)'
  <2>1. CASE a = w /\ b = "local" /\ n = 1
    <3>1. Holds(k, w, "hand", 0)'
      BY <1>2, <1>3, <1>5, <1>8, <2>1 DEF Holds
    <3> QED
      BY <3>1
  <2>2. CASE a = w /\ b = "local" /\ n # 1
    <3>1. PICK m \in Nat \ {0} : n = m + 1
      BY <1>1, <1>8, <2>2, AtType DEF Holds
    <3>2. Holds(k, w, "local", m)'
      BY <1>3, <1>8, <2>2, <3>1 DEF Holds
    <3> QED
      BY <3>2
  <2>3. CASE ~(a = w /\ b = "local")
    <3>1. Holds(k, a, b, n)'
      BY <1>5, <1>8, <2>3 DEF Holds
    <3> QED
      BY <3>1
  <2> QED
    BY <2>1, <2>2, <2>3
<1> DEFINE f == [t \in Tokens(k)' |-> From(t[1], t[2], t[3])]
<1> HIDE DEF From
<1>9. f \in [Tokens(k)' -> Tokens(k)]
  BY <1>6, TokenIsNext
<1>10. \A s, t \in Tokens(k)' : f[s] = f[t] => s = t
  BY <1>7, TokenIsNext
<1>11. NotMore(k)
  BY <1>9, <1>10, TracedBack DEF NotMore
<1> QED
  BY <1>8, <1>11, TokensKept

(* The main loop takes the oldest of the keys the engine has released.     *)
LEMMA RetrieveTokens ==
  ASSUME TypeOK, Retrieve, NEW CONSTANT k \in Keys, IsFiniteSet(Tokens(k))
  PROVE  NotMore(k) /\ NotLost(k)
<1> DEFINE p == "main_loop"
<1> DEFINE From(a, b, n) ==
      IF a = p /\ b = "item" THEN <<"engine", "fired", 1>>
      ELSE IF b = "fired" THEN <<a, "fired", n + 1>>
      ELSE <<a, b, n>>
<1>1. /\ fired \in Seq(Keys) /\ fired # <<>> /\ fired' = Tail(fired)
      /\ Len(fired) \in Nat \ {0} /\ DOMAIN fired = 1 .. Len(fired)
      /\ p \in Producers /\ stage[p] = "idle" /\ stage'[p] = "push"
      /\ item'[p].key = fired[1]
  BY EmptySeq DEF Retrieve, HandOff, TypeOK, Producers, Work
<1>2. /\ DOMAIN fired' = 1 .. Len(fired) - 1
      /\ \A n \in 1 .. Len(fired) - 1 : fired'[n] = fired[n + 1]
  BY <1>1, HeadTailProperties
<1>3. /\ \A q \in Producers \ {p} : stage'[q] = stage[q] /\ item'[q] = item[q]
      /\ UNCHANGED <<ingress, local, global, hand, armed>>
  BY DEF Retrieve, HandOff, TypeOK, queueVars, workerVars
<1>4. /\ \A u, r : Holds(k, u, "fired", r) <=>
                     u = "engine" /\ r \in 1 .. Len(fired) /\ fired[r] = k
      /\ \A u, r : Holds(k, u, "fired", r)' <=>
                     u = "engine" /\ r \in 1 .. Len(fired) - 1 /\ fired[r + 1] = k
  BY <1>1, <1>2 DEF Holds
<1>5. /\ \A u, r : Holds(k, u, "item", r)' <=>
                     \/ u = p /\ r = 0 /\ fired[1] = k
                     \/ u # p /\ Holds(k, u, "item", r)
      /\ \A r : ~Holds(k, p, "item", r)
  BY <1>1, <1>3 DEF Holds
<1>6. \A u, v, r : v \notin {"item", "fired"} => (Holds(k, u, v, r)' <=> Holds(k, u, v, r))
  BY <1>3 DEF Holds
<1>7. ASSUME NEW a, NEW b, NEW n, Holds(k, a, b, n)' PROVE From(a, b, n) \in Tokens(k)
  BY <1>1, <1>4, <1>5, <1>6, <1>7, TokenHolds
<1>8. ASSUME NEW a, NEW b, NEW n, NEW c, NEW d, NEW m,
             Holds(k, a, b, n)', Holds(k, c, d, m)', From(a, b, n) = From(c, d, m)
      PROVE  <<a, b, n>> = <<c, d, m>>
  BY <1>1, <1>4, <1>5, <1>6, <1>8
<1>9. ASSUME NEW a, NEW b, NEW n, Holds(k, a, b, n)
      PROVE  \E c, d, m : Holds(k, c, d, m)'
  <2>1. CASE b = "fired" /\ n = 1
    <3>1. Holds(k, p, "item", 0)'
      BY <1>4, <1>5, <1>9, <2>1
    <3> QED
      BY <3>1
  <2>2. CASE b = "fired" /\ n # 1
    <3>1. PICK m \in Nat \ {0} : n = m + 1
      BY <1>1, <1>4, <1>9, <2>2
    <3>2. Holds(k, "engine", "fired", m)'
      BY <1>1, <1>4, <1>9, <2>2, <3>1
    <3> QED
      BY <3>2
  <2>3. CASE b # "fired"
    <3>1. Holds(k, a, b, n)'
      BY <1>5, <1>6, <1>9, <2>3
    <3> QED
      BY <3>1
  <2> QED
    BY <2>1, <2>2, <2>3
<1> DEFINE f == [t \in Tokens(k)' |-> From(t[1], t[2], t[3])]
<1> HIDE DEF From
<1>10. f \in [Tokens(k)' -> Tokens(k)]
  BY <1>7, TokenIsNext
<1>11. \A s, t \in Tokens(k)' : f[s] = f[t] => s = t
  BY <1>8, TokenIsNext
<1>12. NotMore(k)
  BY <1>10, <1>11, TracedBack DEF NotMore
<1> QED
  BY <1>9, <1>12, TokensKept

(* Half of the queue q, which is at place (x, y), goes to w's empty deque. *)
LEMMA HalfMoves ==
  ASSUME NEW CONSTANT k, IsFiniteSet(Tokens(k)),
         NEW CONSTANT w, NEW CONSTANT x, NEW CONSTANT y, <<x, y>> # <<w, "local">>,
         NEW CONSTANT q \in Seq(WorkItems), q # <<>>,
         \A r : Holds(k, x, y, r) <=> r \in At(q, k),
         \A r : Holds(k, x, y, r)' <=> r \in At(Left(q), k),
         \A r : ~Holds(k, w, "local", r),
         \A r : Holds(k, w, "local", r)' <=> r \in At(Taken(q), k),
         \A u, v, r : <<u, v>> \notin {<<x, y>>, <<w, "local">>} =>
                        (Holds(k, u, v, r)' <=> Holds(k, u, v, r))
  PROVE  NotMore(k) /\ NotLost(k)
<1> PICK half : half = Batch(q)
  OBVIOUS
<1> DEFINE From(a, b, n) ==
      IF <<a, b>> = <<x, y>> THEN <<x, y, n + half>>
      ELSE IF <<a, b>> = <<w, "local">> THEN <<x, y, IF n = half THEN 1 ELSE n + 1>>
      ELSE <<a, b, n>>
<1>1. /\ half \in 1 .. Len(q) /\ Len(q) \in Nat /\ At(q, k) \subseteq 1 .. Len(q)
      /\ \A n : n \in At(Taken(q), k) <=> \/ n \in 1 .. half - 1 /\ n + 1 \in At(q, k)
                                          \/ n = half /\ 1 \in At(q, k)
      /\ \A n : n \in At(Left(q), k) <=> n \in Nat \ {0} /\ n + half \in At(q, k)
  BY AtTaken, AtType
<1>2. ASSUME NEW a, NEW b, NEW n, Holds(k, a, b, n)' PROVE From(a, b, n) \in Tokens(k)
  <2>1. CASE <<a, b>> = <<x, y>>
    <3>1. Holds(k, x, y, n + half)
      BY <1>1, <1>2, <2>1
    <3> QED
      BY <2>1, <3>1, TokenHolds
  <2>2. CASE <<a, b>> = <<w, "local">>
    <3>1. Holds(k, x, y, IF n = half THEN 1 ELSE n + 1)
      BY <1>1, <1>2, <2>2
    <3> QED
      BY <2>2, <3>1, TokenHolds
  <2>3. CASE <<a, b>> \notin {<<x, y>>, <<w, "local">>}
    <3>1. Holds(k, a, b, n)
      BY <1>2, <2>3
    <3> QED
      BY <2>3, <3>1, TokenHolds
  <2> QED
    BY <2>1, <2>2, <2>3
<1>3. ASSUME NEW a, NEW b, NEW n, NEW c, NEW d, NEW m,
             Holds(k, a, b, n)', Holds(k, c, d, m)', From(a, b, n) = From(c, d, m)
      PROVE  <<a, b, n>> = <<c, d, m>>
  <2>1. /\ <<a, b>> = <<x, y>> => n \in Nat \ {0}
        /\ <<c, d>> = <<x, y>> => m \in Nat \ {0}
        /\ <<a, b>> = <<w, "local">> => n \in 1 .. half
        /\ <<c, d>> = <<w, "local">> => m \in 1 .. half
    BY <1>1, <1>3
  <2>2. <<a, b>> \in {<<x, y>>, <<w, "local">>} <=> <<c, d>> \in {<<x, y>>, <<w, "local">>}
    BY <1>1, <1>3, <2>1
  <2> QED
    BY <1>1, <1>3, <2>1, <2>2
<1>4. ASSUME NEW a, NEW b, NEW n, Holds(k, a, b, n)
      PROVE  \E c, d, m : Holds(k, c, d, m)'
  <2>1. CASE <<a, b>> = <<x, y>> /\ n = 1
    <3>1. Holds(k, w, "local", half)'
      BY <1>1, <1>4, <2>1
    <3> QED
      BY <3>1
  <2>2. CASE <<a, b>> = <<x, y>> /\ n \in 2 .. half
    <3>1. Holds(k, w, "local", n - 1)'
      BY <1>1, <1>4, <2>2
    <3> QED
      BY <3>1
  <2>3. CASE <<a, b>> = <<x, y>> /\ n \in half + 1 .. Len(q)
    <3>1. Holds(k, x, y, n - half)'
      BY <1>1, <1>4, <2>3
    <3> QED
      BY <3>1
  <2>4. CASE <<a, b>> # <<x, y>>
    <3>1. Holds(k, a, b, n)'
      BY <1>4, <2>4
    <3> QED
      BY <3>1
  <2> QED
    BY <1>1, <1>4, <2>1, <2>2, <2>3, <2>4
<1> DEFINE f == [t \in Tokens(k)' |-> From(t[1], t[2], t[3])]
<1> HIDE DEF From
<1>5. f \in [Tokens(k)' -> Tokens(k)]
  BY <1>2, TokenIsNext
<1>6. \A s, t \in Tokens(k)' : f[s] = f[t] => s = t
  BY <1>3, TokenIsNext
<1>7. NotMore(k)
  BY <1>5, <1>6, TracedBack DEF NotMore
<1> QED
  BY <1>4, <1>7, TokensKept

(* A worker whose deque is empty steals half of another's.                 *)
LEMMA StealTokens ==
  ASSUME TypeOK, NEW w \in Workers, NEW v \in Workers, Steal(w, v),
         NEW CONSTANT k \in Keys, IsFiniteSet(Tokens(k))
  PROVE  NotMore(k) /\ NotLost(k)
<1> PICK q : q = local[v]
  OBVIOUS
<1>1. /\ w # v /\ q \in Seq(WorkItems) /\ q # <<>> /\ local[w] = <<>>
      /\ local'[v] = Left(q) /\ local'[w] = <<>> \o Taken(q)
  BY DEF Steal, TypeOK
<1>2. local'[w] = Taken(q)
  BY <1>1, BatchType, ConcatProperties
<1>3. /\ \A u \in Workers \ {v, w} : local'[u] = local[u]
      /\ UNCHANGED <<ingress, global, hand, stage, item, armed, fired>>
  BY DEF Steal, TypeOK, engineVars, outside, handoffVars
<1>4. \A r : Holds(k, v, "local", r) <=> r \in At(q, k)
  BY DEF Holds
<1>5. \A r : Holds(k, v, "local", r)' <=> r \in At(Left(q), k)
  BY <1>1 DEF Holds
<1>6. \A r : ~Holds(k, w, "local", r)
  BY <1>1 DEF Holds, At
<1>7. \A r : Holds(k, w, "local", r)' <=> r \in At(Taken(q), k)
  BY <1>2 DEF Holds
<1>8. \A a, b, r : <<a, b>> \notin {<<v, "local">>, <<w, "local">>} =>
                     (Holds(k, a, b, r)' <=> Holds(k, a, b, r))
  BY <1>3 DEF Holds
<1> QED
  BY <1>1, <1>4, <1>5, <1>6, <1>7, <1>8, HalfMoves

(* A worker whose deque is empty steals half of the global queue.          *)
LEMMA StealGlobalTokens ==
  ASSUME TypeOK, NEW w \in Workers, StealGlobal(w), local[w] = <<>>,
         NEW CONSTANT k \in Keys, IsFiniteSet(Tokens(k))
  PROVE  NotMore(k) /\ NotLost(k)
<1> PICK q : q = global
  OBVIOUS
<1>1. /\ q \in Seq(WorkItems) /\ q # <<>>
      /\ global' = Left(q) /\ local'[w] = <<>> \o Taken(q)
  BY DEF StealGlobal, TypeOK
<1>2. local'[w] = Taken(q)
  BY <1>1, BatchType, ConcatProperties
<1>3. /\ \A u \in Workers \ {w} : local'[u] = local[u]
      /\ UNCHANGED <<ingress, hand, stage, item, armed, fired>>
  BY DEF StealGlobal, TypeOK, engineVars, outside, handoffVars
<1>4. \A r : Holds(k, "queue", "global", r) <=> r \in At(q, k)
  BY DEF Holds
<1>5. \A r : Holds(k, "queue", "global", r)' <=> r \in At(Left(q), k)
  BY <1>1 DEF Holds
<1>6. \A r : ~Holds(k, w, "local", r)
  BY <1>1 DEF Holds, At
<1>7. \A r : Holds(k, w, "local", r)' <=> r \in At(Taken(q), k)
  BY <1>2 DEF Holds
<1>8. \A a, b, r : <<a, b>> \notin {<<"queue", "global">>, <<w, "local">>} =>
                     (Holds(k, a, b, r)' <=> Holds(k, a, b, r))
  BY <1>3 DEF Holds
<1>9. <<"queue", "global">> # <<w, "local">>
  OBVIOUS
<1> QED
  BY <1>1, <1>4, <1>5, <1>6, <1>7, <1>8, <1>9, HalfMoves

-----------------------------------------------------------------------------
(* Steps that start a cycle.                                               *)

(* schedule() hands over the first item of a key that had none.            *)
LEMMA ScheduleTokens ==
  ASSUME TypeOK, NEW c \in Clients, NEW j \in Keys, Schedule(c, j),
         NEW CONSTANT k \in Keys, IsFiniteSet(Tokens(k))
  PROVE  /\ j # k => NotMore(k) /\ NotLost(k)
         /\ Tokens(j) = {} => /\ IsFiniteSet(Tokens(j)') /\ Cardinality(Tokens(j)') = 1
         /\ Tokens(j)' # {}
<1>1. /\ c \in Producers /\ stage[c] = "idle" /\ stage'[c] = "push" /\ item'[c].key = j
      /\ \A q \in Producers \ {c} : stage'[q] = stage[q] /\ item'[q] = item[q]
      /\ UNCHANGED <<ingress, local, global, hand, armed, fired>>
  BY DEF Schedule, HandOff, TypeOK, Producers, Work, queueVars, workerVars, engineVars
<1>2. \A i, u, v, r : Holds(i, u, v, r)' <=>
                        \/ Holds(i, u, v, r)
                        \/ <<u, v, r>> = <<c, "item", 0>> /\ i = j
  BY <1>1 DEF Holds
<1>3. ASSUME j # k PROVE NotMore(k) /\ NotLost(k)
  <2>1. \A u, v, r : Holds(k, u, v, r)' => Holds(k, u, v, r)
    BY <1>2, <1>3
  <2>2. ASSUME NEW u, NEW v, NEW r, Holds(k, u, v, r)
        PROVE  \E x, y, z : Holds(k, x, y, z)'
    BY <1>2, <2>2
  <2> QED
    BY <2>1, <2>2, TokensDropped, TokensKept
<1>4. <<c, "item", 0>> \in Tokens(j)'
  BY <1>2, TokenIsNext
<1>5. ASSUME Tokens(j) = {}
      PROVE  IsFiniteSet(Tokens(j)') /\ Cardinality(Tokens(j)') = 1
  <2>1. Tokens(j)' = {<<c, "item", 0>>}
    BY <1>2, <1>4, <1>5, TokenIs, TokenIsNext
  <2> QED
    BY <2>1, FS_Singleton
<1> QED
  BY <1>3, <1>4, <1>5

(* An instruction that is taken off its queue adds at most one item, of    *)
(* the key it names.                                                       *)
LEMMA InstructionTokens ==
  ASSUME TypeOK, PopInstruction, NEW CONSTANT k \in Keys, IsFiniteSet(Tokens(k))
  PROVE  /\ IsFiniteSet(Tokens(k)')
         /\ Cardinality(Tokens(k)') <= Cardinality(Tokens(k)) + 1
         /\ k # Head(instructionQueue).key => NotMore(k)
         /\ NotLost(k)
<1> DEFINE p == "instruction_loop"
<1>1. /\ Head(instructionQueue) \in InstructionItems
      /\ Head(instructionQueue).work \in AllInstructions
  <2>1. Head(instructionQueue) \in InstructionItems
    BY HeadTailProperties DEF PopInstruction, TypeOK
  <2> QED
    BY <2>1 DEF InstructionItems
<1>2. /\ p \in Producers /\ stage[p] = "idle"
      /\ stage'[p] = "push" => item'[p].key = Head(instructionQueue).key
      /\ \A q \in Producers \ {p} : stage'[q] = stage[q] /\ item'[q] = item[q]
      /\ UNCHANGED <<ingress, local, global, hand, armed, fired>>
  <2> PICK j : j = Head(instructionQueue).key
    OBVIOUS
  <2>1. p \in Producers /\ stage[p] = "idle"
    BY DEF PopInstruction, Producers
  <2>2. \/ \E i \in {"Trigger", "Dispatch"} : HandOff(p, Work(j, i))
        \/ UNCHANGED stage /\ \E i : item' = [item EXCEPT ![p] = i]
        \/ UNCHANGED <<stage, item>>
    BY <1>1 DEF PopInstruction, AllInstructions, handoffVars
  <2>3. UNCHANGED <<ingress, local, global, hand, armed, fired>>
    BY DEF PopInstruction, queueVars, workerVars, engineVars
  <2>4. /\ stage'[p] = "push" => item'[p].key = j
        /\ \A q \in Producers \ {p} : stage'[q] = stage[q] /\ item'[q] = item[q]
    <3>1. CASE \E i \in {"Trigger", "Dispatch"} : HandOff(p, Work(j, i))
      BY <2>1, <3>1 DEF HandOff, Work, TypeOK
    <3>2. CASE UNCHANGED stage /\ \E i : item' = [item EXCEPT ![p] = i]
      BY <2>1, <3>2 DEF TypeOK
    <3>3. CASE UNCHANGED <<stage, item>>
      BY <2>1, <3>3
    <3> QED
      BY <2>2, <3>1, <3>2, <3>3
  <2> QED
    BY <2>1, <2>3, <2>4
<1>3. ASSUME NEW u, NEW v, NEW r, Holds(k, u, v, r)'
      PROVE  \/ Holds(k, u, v, r)
             \/ <<u, v, r>> = <<p, "item", 0>> /\ k = Head(instructionQueue).key
  BY <1>2, <1>3 DEF Holds
<1>4. ASSUME NEW u, NEW v, NEW r, Holds(k, u, v, r)
      PROVE  Holds(k, u, v, r)'
  BY <1>2, <1>4 DEF Holds
<1>5. Tokens(k)' \subseteq Tokens(k) \cup {<<p, "item", 0>>}
  BY <1>3, TokenIs, TokenIsNext
<1>6. IsFiniteSet(Tokens(k)') /\ Cardinality(Tokens(k)') <= Cardinality(Tokens(k)) + 1
  <2>1. /\ IsFiniteSet(Tokens(k) \cup {<<p, "item", 0>>})
        /\ Cardinality(Tokens(k)) \in Nat
        /\ Cardinality(Tokens(k) \cup {<<p, "item", 0>>}) \in
             {Cardinality(Tokens(k)), Cardinality(Tokens(k)) + 1}
    BY FS_AddElement, FS_CardinalityType
  <2>2. /\ IsFiniteSet(Tokens(k)') /\ Cardinality(Tokens(k)') \in Nat
        /\ Cardinality(Tokens(k)') <= Cardinality(Tokens(k) \cup {<<p, "item", 0>>})
    BY <1>5, <2>1, FS_Subset, FS_CardinalityType
  <2> QED
    BY <2>1, <2>2
<1>7. ASSUME k # Head(instructionQueue).key PROVE NotMore(k)
  BY <1>3, <1>7, TokensDropped
<1>8. NotLost(k)
  BY <1>4, TokensKept
<1> QED
  BY <1>6, <1>7, <1>8

-----------------------------------------------------------------------------
(* Every other step moves no item.                                         *)

\* The steps that leave every item where it is.
MovesNoItem ==
  \/ Start \/ Abort
  \/ \E ks \in SUBSET store : ClearShard(ks)
  \/ \E k \in Keys :
       Remove(k) \/ \E c \in Clients : \E i \in Instructions : Instruct(c, k, i)
  \/ \E c \in Clients : NotifyWaiters(c)
  \/ \E p \in Producers : FetchAdd(p) \/ NotifyOne(p)
  \/ \E w \in Workers :
       \/ IngressEmpty(w) \/ StealFails(w) \/ GlobalEmpty(w) \/ SwapPending(w)
       \/ Notified(w) \/ Dispatch(w)
  \/ MainLoopCancelled \/ CancelHalted \/ InstructionsDrained \/ AwaitInstructions
  \/ InstructionLoopCancelled
  \/ UNCHANGED vars

(* They leave the queues, the hands and the engine alone, and hand nothing *)
(* over.                                                                   *)
LEMMA QuietStep ==
  ASSUME TypeOK, MovesNoItem
  PROVE  /\ UNCHANGED <<ingress, local, global, hand, armed, fired>>
         /\ \A p \in Producers : /\ stage'[p] = "push" <=> stage[p] = "push"
                                 /\ stage[p] = "push" => item'[p] = item[p]
<1> USE DEF vars, storeVars, queueVars, wakeVars, workerVars, engineVars, handoffVars,
           loopVars, instructionVars, outside
<1>1. UNCHANGED <<ingress, local, global, hand, armed, fired>>
  BY DEF MovesNoItem, Start, Abort, ClearShard, Remove, Instruct, NotifyWaiters, FetchAdd,
         NotifyOne, IngressEmpty, StealFails, GlobalEmpty, SwapPending, Notified, Dispatch,
         MainLoopCancelled, CancelHalted, InstructionsDrained, AwaitInstructions,
         InstructionLoopCancelled, Move
<1> DEFINE Quiet == \A p \in Producers : /\ stage'[p] = "push" <=> stage[p] = "push"
                                         /\ stage[p] = "push" => item'[p] = item[p]
<1>2. Quiet
  <2>1. CASE UNCHANGED <<stage, item>>
    BY <2>1
  <2>2. ASSUME NEW c \in Clients, NEW k1 \in Keys, NEW i \in Instructions, Instruct(c, k1, i)
        PROVE  Quiet
    BY <2>2 DEF Instruct, TypeOK
  <2>3. ASSUME NEW c \in Clients, NotifyWaiters(c) PROVE Quiet
    BY <2>3 DEF NotifyWaiters, TypeOK
  <2>4. ASSUME NEW p \in Producers, FetchAdd(p) PROVE Quiet
    BY <2>4 DEF FetchAdd, EndHandOff, TypeOK
  <2>5. ASSUME NEW p \in Producers, NotifyOne(p) PROVE Quiet
    BY <2>5 DEF NotifyOne, EndHandOff, TypeOK
  <2>6. CASE CancelHalted
    BY <2>6 DEF CancelHalted, TypeOK
  <2> HIDE DEF Quiet
  <2> QED
    BY <2>1, <2>2, <2>3, <2>4, <2>5, <2>6
    DEF MovesNoItem, Start, Abort, ClearShard, Remove, IngressEmpty, StealFails, GlobalEmpty,
        SwapPending, Notified, Dispatch, MainLoopCancelled, InstructionsDrained,
        AwaitInstructions, InstructionLoopCancelled, Move
<1> QED
  BY <1>1, <1>2

(* So the tokens stay.                                                     *)
LEMMA QuietTokens ==
  ASSUME TypeOK, MovesNoItem, NEW CONSTANT k PROVE Tokens(k)' = Tokens(k)
BY QuietStep, TokensQuiet

-----------------------------------------------------------------------------
(* One item for a key, and one more for every instruction: an instruction  *)
(* that is still queued is counted as the item it may become, and a key    *)
(* that was never allocated has none.                                      *)

Counted(k) ==
  /\ IsFiniteSet(Tokens(k))
  /\ Cardinality(Tokens(k)) + Len(instructionQueue) <= 1 + instructed
  /\ k \notin allocated => Tokens(k) = {}

TokenInv ==
  /\ \A k \in Keys : Counted(k)
  /\ \A n \in 1 .. Len(instructionQueue) : instructionQueue[n].key \in allocated
  /\ Len(instructionQueue) <= instructed

(* A step that makes no token keeps the invariant.                         *)
LEMMA TokenInvKept ==
  ASSUME TypeOK, TokenInv, UNCHANGED <<allocated, instructionQueue, instructed>>,
         \A k \in Keys : NotMore(k)
  PROVE  TokenInv'
<1>1. ASSUME NEW k \in Keys PROVE Counted(k)'
  <2>1. /\ IsFiniteSet(Tokens(k)) /\ Cardinality(Tokens(k)) \in Nat
        /\ IsFiniteSet(Tokens(k)') /\ Cardinality(Tokens(k)') \in Nat
        /\ Cardinality(Tokens(k)') <= Cardinality(Tokens(k))
    BY FS_CardinalityType DEF TokenInv, Counted, NotMore
  <2>2. /\ Cardinality(Tokens(k)) + Len(instructionQueue) <= 1 + instructed
        /\ Len(instructionQueue) \in Nat /\ instructed \in Nat
    BY ConstantsAssumption DEF TokenInv, Counted, TypeOK
  <2>3. ASSUME k \notin allocated PROVE Tokens(k)' = {}
    <3>1. Tokens(k) = {} /\ Cardinality(Tokens(k)) = 0
      BY <2>3, FS_EmptySet DEF TokenInv, Counted
    <3> QED
      BY <2>1, <3>1, FS_EmptySet
  <2> QED
    BY <2>1, <2>2, <2>3 DEF Counted
<1> QED
  BY <1>1 DEF TokenInv

(* Every action keeps it.                                                  *)
LEMMA TokenStep == TypeOK /\ WakeProtocol /\ TokenInv /\ [Next]_vars => TokenInv'
<1> SUFFICES ASSUME TypeOK, WakeProtocol, TokenInv, [Next]_vars PROVE TokenInv'
  OBVIOUS
<1> DEFINE Same == UNCHANGED <<allocated, instructionQueue, instructed>>
<1>1. \A k \in Keys : IsFiniteSet(Tokens(k))
  BY DEF TokenInv, Counted
<1>2. ASSUME NEW p \in Producers, NEW w \in Workers, Push(p, w) PROVE TokenInv'
  <2>1. Same
    BY <1>2 DEF Push, storeVars, instructionVars
  <2> QED
    BY <1>1, <1>2, <2>1, PushTokens, TokenInvKept
<1>3. ASSUME NEW w \in Workers, DrainIngress(w) PROVE TokenInv'
  <2>1. Same
    BY <1>3 DEF DrainIngress, outside, instructionVars
  <2> QED
    BY <1>1, <1>3, <2>1, DrainTokens, TokenInvKept
<1>4. ASSUME NEW w \in Workers, PopLocal(w) PROVE TokenInv'
  <2>1. Same
    BY <1>4 DEF PopLocal, outside, instructionVars
  <2> QED
    BY <1>1, <1>4, <2>1, PopTokens, TokenInvKept
<1>5. ASSUME NEW w \in Workers, NEW v \in Workers, Steal(w, v) PROVE TokenInv'
  <2>1. Same
    BY <1>5 DEF Steal, outside, instructionVars
  <2> QED
    BY <1>1, <1>5, <2>1, StealTokens, TokenInvKept
<1>6. ASSUME NEW w \in Workers, StealGlobal(w) PROVE TokenInv'
  <2>1. Same
    BY <1>6 DEF StealGlobal, outside, instructionVars
  <2>2. local[w] = <<>>
    BY <1>6 DEF StealGlobal, WakeProtocol, LocalDone
  <2> QED
    BY <1>1, <1>6, <2>1, <2>2, StealGlobalTokens, TokenInvKept
<1>7. ASSUME NEW w \in Workers, TriggerOk(w) PROVE TokenInv'
  <2>1. Same
    BY <1>7 DEF TriggerOk, outside, instructionVars
  <2> QED
    BY <1>1, <1>7, <2>1, TriggerTokens, TokenInvKept
<1>8. ASSUME NEW w \in Workers, RunOk(w) PROVE TokenInv'
  <2>1. Same
    BY <1>8 DEF RunOk, outside, instructionVars
  <2> QED
    BY <1>1, <1>8, <2>1, RunTokens, TokenInvKept
<1>9. ASSUME NEW w \in Workers, ApplyFailover(w) PROVE TokenInv'
  <2>1. Same
    BY <1>9 DEF ApplyFailover, outside, instructionVars
  <2> QED
    BY <1>1, <1>9, <2>1, FailoverTokens, TokenInvKept
<1>10. ASSUME NEW w \in Workers, Panic(w) \/ Cancelled(w) PROVE TokenInv'
  <2>1. Same
    BY <1>10 DEF Panic, Cancelled, outside, instructionVars
  <2> QED
    BY <1>1, <1>10, <2>1, DeathTokens, TokenInvKept
<1>11. ASSUME NEW j \in Keys, Fire(j) PROVE TokenInv'
  <2>1. Same
    BY <1>11 DEF Fire, storeVars, instructionVars
  <2> QED
    BY <1>1, <1>11, <2>1, FireTokens, TokenInvKept
<1>12. ASSUME Retrieve PROVE TokenInv'
  <2>1. Same
    BY <1>12 DEF Retrieve, storeVars, instructionVars
  <2> QED
    BY <1>1, <1>12, <2>1, RetrieveTokens, TokenInvKept
<1>13. ASSUME NEW c \in Clients, NEW j \in Keys, Schedule(c, j) PROVE TokenInv'
  <2>1. /\ j \notin allocated /\ allocated' = allocated \cup {j}
        /\ UNCHANGED <<instructionQueue, instructed>>
    BY <1>13 DEF Schedule, instructionVars
  <2>2. /\ Len(instructionQueue) \in Nat /\ instructed \in Nat
        /\ Len(instructionQueue) <= instructed
    BY ConstantsAssumption DEF TypeOK, TokenInv
  <2>3. ASSUME NEW k \in Keys PROVE Counted(k)'
    <3>1. CASE k = j
      <4>1. IsFiniteSet(Tokens(k)') /\ Cardinality(Tokens(k)') = 1
        BY <1>1, <1>13, <2>1, <3>1, ScheduleTokens DEF TokenInv, Counted
      <4> QED
        BY <2>1, <2>2, <3>1, <4>1 DEF Counted
    <3>2. CASE k # j
      <4>1. /\ IsFiniteSet(Tokens(k)) /\ Cardinality(Tokens(k)) \in Nat
            /\ IsFiniteSet(Tokens(k)') /\ Cardinality(Tokens(k)') \in Nat
            /\ Cardinality(Tokens(k)') <= Cardinality(Tokens(k))
        BY <1>1, <1>13, <3>2, ScheduleTokens, FS_CardinalityType DEF NotMore
      <4>2. Cardinality(Tokens(k)) + Len(instructionQueue) <= 1 + instructed
        BY DEF TokenInv, Counted
      <4>3. ASSUME k \notin allocated PROVE Tokens(k)' = {}
        <5>1. Cardinality(Tokens(k)) = 0
          BY <4>3, FS_EmptySet DEF TokenInv, Counted
        <5> QED
          BY <4>1, <5>1, FS_EmptySet
      <4> QED
        BY <2>1, <2>2, <4>1, <4>2, <4>3 DEF Counted
    <3> QED
      BY <3>1, <3>2
  <2> QED
    BY <2>1, <2>3 DEF TokenInv
<1>14. ASSUME PopInstruction PROVE TokenInv'
  <2>1. /\ instructionQueue \in Seq(InstructionItems) /\ instructionQueue # <<>>
        /\ instructionQueue' = Tail(instructionQueue)
        /\ UNCHANGED <<allocated, instructed>>
    BY <1>14 DEF PopInstruction, TypeOK
  <2>2. /\ Len(instructionQueue') = Len(instructionQueue) - 1
        /\ Len(instructionQueue) \in Nat \ {0}
        /\ \A n \in 1 .. Len(instructionQueue) - 1 :
             instructionQueue'[n] = instructionQueue[n + 1]
        /\ Head(instructionQueue) = instructionQueue[1]
    BY <2>1, HeadTailProperties, EmptySeq
  <2>3. /\ Head(instructionQueue).key \in allocated
        /\ \A n \in 1 .. Len(instructionQueue') : instructionQueue'[n].key \in allocated
        /\ Len(instructionQueue') <= instructed /\ instructed \in Nat
    <3>1. \A n \in 1 .. Len(instructionQueue) : instructionQueue[n].key \in allocated
      BY DEF TokenInv
    <3>2. Head(instructionQueue).key \in allocated
      BY <2>2, <3>1
    <3>3. ASSUME NEW n \in 1 .. Len(instructionQueue')
          PROVE  instructionQueue'[n].key \in allocated
      <4>1. n + 1 \in 1 .. Len(instructionQueue) /\ instructionQueue'[n] = instructionQueue[n + 1]
        BY <2>2
      <4> QED
        BY <3>1, <4>1
    <3>4. Len(instructionQueue') <= instructed /\ instructed \in Nat
      BY <2>2, ConstantsAssumption DEF TokenInv, TypeOK
    <3> QED
      BY <3>2, <3>3, <3>4
  <2>4. ASSUME NEW k \in Keys PROVE Counted(k)'
    <3>1. /\ IsFiniteSet(Tokens(k)) /\ Cardinality(Tokens(k)) \in Nat
          /\ IsFiniteSet(Tokens(k)') /\ Cardinality(Tokens(k)') \in Nat
          /\ Cardinality(Tokens(k)') <= Cardinality(Tokens(k)) + 1
          /\ k # Head(instructionQueue).key => NotMore(k)
      BY <1>1, <1>14, InstructionTokens, FS_CardinalityType
    <3>2. Cardinality(Tokens(k)) + Len(instructionQueue) <= 1 + instructed
      BY DEF TokenInv, Counted
    <3>3. ASSUME k \notin allocated PROVE Tokens(k)' = {}
      <4>1. NotMore(k) /\ Cardinality(Tokens(k)) = 0
        BY <2>3, <3>1, <3>3, FS_EmptySet DEF TokenInv, Counted
      <4>2. Cardinality(Tokens(k)') = 0
        BY <3>1, <4>1 DEF NotMore
      <4> QED
        BY <3>1, <4>2, FS_EmptySet
    <3> QED
      BY <2>1, <2>2, <2>3, <3>1, <3>2, <3>3 DEF Counted
  <2> QED
    BY <2>1, <2>3, <2>4 DEF TokenInv
<1>15. ASSUME MovesNoItem PROVE TokenInv'
  <2>1. \A k \in Keys : Tokens(k)' = Tokens(k)
    BY <1>15, QuietTokens
  <2>2. CASE Same
    BY <2>1, <2>2 DEF TokenInv, Counted
  <2>3. ASSUME NEW k \in Keys, NEW c \in Clients, NEW i \in Instructions, Instruct(c, k, i)
        PROVE  TokenInv'
    <3>1. /\ k \in allocated /\ UNCHANGED allocated /\ instructed' = instructed + 1
          /\ instructionQueue' = Append(instructionQueue, Work(k, i))
      BY <2>3 DEF Instruct, storeVars
    <3>2. Work(k, i) \in InstructionItems /\ Work(k, i).key = k
      BY ConstantsAssumption DEF Work, InstructionItems
    <3>3. /\ Len(instructionQueue) \in Nat /\ instructed \in Nat
          /\ Len(instructionQueue') = Len(instructionQueue) + 1
          /\ instructionQueue'[Len(instructionQueue) + 1] = Work(k, i)
          /\ \A n \in 1 .. Len(instructionQueue) : instructionQueue'[n] = instructionQueue[n]
      BY <3>1, <3>2, AppendProperties, ConstantsAssumption DEF TypeOK
    <3>4. \A n \in 1 .. Len(instructionQueue') : instructionQueue'[n].key \in allocated
      BY <3>1, <3>2, <3>3 DEF TokenInv
    <3>5. \A j \in Keys : Cardinality(Tokens(j)) \in Nat
      BY <1>1, FS_CardinalityType
    <3>6. ASSUME NEW j \in Keys PROVE Counted(j)'
      <4>1. Tokens(j)' = Tokens(j) /\ Cardinality(Tokens(j)) \in Nat
        BY <2>1, <3>5
      <4>2. Cardinality(Tokens(j)) + Len(instructionQueue') <= 1 + instructed'
        BY <3>1, <3>3, <4>1 DEF TokenInv, Counted
      <4> QED
        BY <3>1, <4>1, <4>2 DEF TokenInv, Counted
    <3> QED
      BY <3>1, <3>3, <3>4, <3>6 DEF TokenInv
  <2> HIDE DEF TokenInv
  <2> QED
    BY <1>15, <2>2, <2>3
    DEF MovesNoItem, Start, Abort, ClearShard, Remove, NotifyWaiters, FetchAdd, NotifyOne,
        IngressEmpty, StealFails, GlobalEmpty, SwapPending, Notified, Dispatch,
        MainLoopCancelled, CancelHalted, InstructionsDrained, AwaitInstructions,
        InstructionLoopCancelled, Move, vars, storeVars, instructionVars, outside
<1> QED
  BY <1>2, <1>3, <1>4, <1>5, <1>6, <1>7, <1>8, <1>9, <1>10, <1>11, <1>12, <1>13, <1>14, <1>15
  DEF Next, ClientStep, HandOffStep, Look, Serve, InstructionStep, MovesNoItem

-----------------------------------------------------------------------------
(* A stored task keeps an item: a worker that takes an item off its deque  *)
(* has nothing in its hand that it would overwrite.                        *)

HandsAreFree ==
  \A w \in Workers : pc[w] \notin {"trigger", "dispatch", "run"} => hand[w] = None

(* Every action keeps the hands of idle workers free.                      *)
LEMMA HandsStep == TypeOK /\ WakeProtocol /\ HandsAreFree /\ [Next]_vars => HandsAreFree'
<1> SUFFICES ASSUME TypeOK, WakeProtocol, HandsAreFree, [Next]_vars PROVE HandsAreFree'
  OBVIOUS
<1> USE DEF vars, storeVars, queueVars, wakeVars, workerVars, engineVars, handoffVars,
           loopVars, instructionVars, outside
<1>1. CASE UNCHANGED <<pc, hand>>
  BY <1>1 DEF HandsAreFree
<1>2. ASSUME Start PROVE HandsAreFree'
  BY <1>2 DEF Start, HandsAreFree, WakeProtocol, GlobalWatched
<1>3. ASSUME NEW w \in Workers,
             \E l \in WorkerStates \ {"trigger", "dispatch", "run"} : Goto(w, l),
             pc[w] \notin {"trigger", "dispatch", "run"}, UNCHANGED hand
      PROVE  HandsAreFree'
  BY <1>3 DEF Goto, HandsAreFree, TypeOK
<1>4. ASSUME NEW w \in Workers, PopLocal(w) PROVE HandsAreFree'
  <2>1. CASE UNCHANGED <<pc, hand>>
    BY <1>1, <2>1
  <2>2. CASE /\ hand' = [hand EXCEPT ![w] = Head(local[w])]
             /\ pc'[w] \in {"trigger", "dispatch"}
             /\ \A v \in Workers \ {w} : pc'[v] = pc[v]
    BY <2>2 DEF HandsAreFree, TypeOK
  <2> QED
    BY <1>4, <2>1, <2>2 DEF PopLocal, Dropped, Goto, TypeOK
<1>5. ASSUME NEW w \in Workers, PutDown(w), \A v \in Workers \ {w} : pc'[v] = pc[v]
      PROVE  HandsAreFree'
  BY <1>5 DEF PutDown, HandsAreFree, TypeOK
<1>6. ASSUME NEW w \in Workers, Dispatch(w) PROVE HandsAreFree'
  BY <1>6 DEF Dispatch, Move, Goto, HandsAreFree, TypeOK
<1>7. ASSUME NEW w \in Workers,
             \/ TriggerOk(w) \/ RunOk(w) \/ ApplyFailover(w) \/ Panic(w) \/ Cancelled(w)
      PROVE  HandsAreFree'
  <2>1. PutDown(w) /\ \A v \in Workers \ {w} : pc'[v] = pc[v]
    BY <1>7 DEF TriggerOk, RunOk, ApplyFailover, Panic, Cancelled, Goto, TypeOK
  <2> QED
    BY <1>5, <2>1
<1>8. ASSUME NEW w \in Workers,
             \/ IngressEmpty(w) \/ (\E v \in Workers : Steal(w, v)) \/ StealFails(w)
             \/ StealGlobal(w) \/ GlobalEmpty(w) \/ SwapPending(w) \/ Notified(w)
      PROVE  HandsAreFree'
  <2>1. /\ \E l \in {"pop", "drain", "global", "swap", "wait"} : Goto(w, l)
        /\ pc[w] \in {"drain", "pop", "global", "swap", "wait"} /\ UNCHANGED hand
    BY <1>8 DEF IngressEmpty, Steal, StealFails, StealGlobal, GlobalEmpty, SwapPending,
                Notified, Move
  <2> QED
    BY <1>3, <2>1 DEF WorkerStates
<1>9. ASSUME NEW w \in Workers, DrainIngress(w) PROVE HandsAreFree'
  BY <1>1, <1>9 DEF DrainIngress
<1>10. ASSUME NEW p \in Producers, HandOffStep(p) PROVE HandsAreFree'
  BY <1>1, <1>10 DEF HandOffStep, Push, FetchAdd, NotifyOne
<1>11. ASSUME Abort \/ (\E ks \in SUBSET store : ClearShard(ks)) \/ Retrieve
              \/ MainLoopCancelled \/ InstructionStep \/ InstructionLoopCancelled
       PROVE  HandsAreFree'
  <2>1. UNCHANGED <<pc, hand>>
    BY <1>11 DEF Abort, ClearShard, Retrieve, MainLoopCancelled, InstructionStep, PopInstruction,
                 CancelHalted, InstructionsDrained, AwaitInstructions, InstructionLoopCancelled
  <2> QED
    BY <1>1, <2>1
<1>12. ASSUME NEW k \in Keys, \/ Remove(k) \/ Fire(k)
                              \/ \E c \in Clients : Schedule(c, k)
                              \/ \E c \in Clients, i \in Instructions : Instruct(c, k, i)
       PROVE  HandsAreFree'
  BY <1>1, <1>12 DEF Remove, Fire, Schedule, Instruct
<1>13. ASSUME NEW c \in Clients, NotifyWaiters(c) PROVE HandsAreFree'
  BY <1>1, <1>13 DEF NotifyWaiters
<1> QED
  BY <1>1, <1>2, <1>4, <1>6, <1>7, <1>8, <1>9, <1>10, <1>11, <1>12, <1>13
  DEF Next, ClientStep, Look, Serve

(* A step that adds no task, loses no item and does not restart anything   *)
(* keeps the stored tasks alive.                                           *)
LEMMA AliveKept ==
  ASSUME StoredTaskIsAlive, store' \subseteq store, policy' = policy,
         process = "drained" => process' = "drained",
         process' # "drained" /\ policy # "Terminate" => \A k \in store' : NotLost(k)
  PROVE  StoredTaskIsAlive'
BY DEF StoredTaskIsAlive, NotLost

(* Every action of a scheduler whose tasks do not panic keeps them alive.  *)
LEMMA AliveStep ==
  ASSUME ~Panics, TypeOK, WakeProtocol, TokenInv, HandsAreFree, StoredTaskIsAlive, [Next]_vars
  PROVE  StoredTaskIsAlive'
<1> USE DEF storeVars
<1>1. /\ store \subseteq Keys
      /\ \A k \in Keys : IsFiniteSet(Tokens(k))
  BY DEF TypeOK, TokenInv, Counted
<1> DEFINE Calm == UNCHANGED <<store, policy, process>>
<1>2. ASSUME NEW p \in Producers, NEW w \in Workers, Push(p, w) PROVE StoredTaskIsAlive'
  <2>1. Calm
    BY <1>2 DEF Push
  <2> QED
    BY <1>1, <1>2, <2>1, PushTokens, AliveKept
<1>3. ASSUME NEW w \in Workers, DrainIngress(w) PROVE StoredTaskIsAlive'
  <2>1. Calm
    BY <1>3 DEF DrainIngress, outside
  <2> QED
    BY <1>1, <1>3, <2>1, DrainTokens, AliveKept
<1>4. ASSUME NEW w \in Workers, PopLocal(w) PROVE StoredTaskIsAlive'
  <2>1. Calm /\ hand[w] = None
    BY <1>4 DEF PopLocal, outside, HandsAreFree
  <2> QED
    BY <1>1, <1>4, <2>1, PopTokens, AliveKept
<1>5. ASSUME NEW w \in Workers, NEW v \in Workers, Steal(w, v) PROVE StoredTaskIsAlive'
  <2>1. Calm
    BY <1>5 DEF Steal, outside
  <2> QED
    BY <1>1, <1>5, <2>1, StealTokens, AliveKept
<1>6. ASSUME NEW w \in Workers, StealGlobal(w) PROVE StoredTaskIsAlive'
  <2>1. Calm /\ local[w] = <<>>
    BY <1>6 DEF StealGlobal, outside, WakeProtocol, LocalDone
  <2> QED
    BY <1>1, <1>6, <2>1, StealGlobalTokens, AliveKept
<1>7. ASSUME NEW w \in Workers, TriggerOk(w) PROVE StoredTaskIsAlive'
  <2>1. Calm
    BY <1>7 DEF TriggerOk, outside
  <2> QED
    BY <1>1, <1>7, <2>1, TriggerTokens, AliveKept
<1>8. ASSUME NEW w \in Workers, RunOk(w) PROVE StoredTaskIsAlive'
  <2>1. Calm
    BY <1>8 DEF RunOk, outside
  <2> QED
    BY <1>1, <1>8, <2>1, RunTokens, AliveKept
<1>9. ASSUME NEW w \in Workers, ApplyFailover(w) PROVE StoredTaskIsAlive'
  <2>1. /\ policy' = policy /\ store' = Forgotten(hand[w].key)
        /\ process # "new"
    BY <1>9 DEF ApplyFailover, outside, WakeProtocol, GlobalWatched
  <2>2. process' = IF policy = "ShutdownScheduler" THEN "drained" ELSE process
    BY <1>9, <2>1 DEF ApplyFailover, DrainProcess, TypeOK
  <2>3. ASSUME process' # "drained", policy # "Terminate", NEW k \in store' PROVE NotLost(k)
    <3>1. policy \in {"Keep", "Deallocate"} /\ k \in Keys
      BY <1>1, <2>1, <2>2, <2>3 DEF TypeOK, Policies, Forgotten
    <3>2. policy = "Keep" \/ hand[w].key # k
      BY <2>1, <2>3, <3>1 DEF Forgotten
    <3> QED
      BY <1>1, <1>9, <3>1, <3>2, FailoverTokens
  <2> QED
    BY <2>1, <2>2, <2>3, AliveKept DEF Forgotten
<1>10. ASSUME NEW w \in Workers, Panic(w) \/ Cancelled(w) PROVE StoredTaskIsAlive'
  <2>1. process = "drained" /\ process' = process
    BY <1>10 DEF Panic, Cancelled
  <2> QED
    BY <2>1 DEF StoredTaskIsAlive
<1>11. ASSUME NEW j \in Keys, Fire(j) PROVE StoredTaskIsAlive'
  <2>1. Calm
    BY <1>11 DEF Fire
  <2> QED
    BY <1>1, <1>11, <2>1, FireTokens, AliveKept
<1>12. ASSUME Retrieve PROVE StoredTaskIsAlive'
  <2>1. Calm
    BY <1>12 DEF Retrieve
  <2> QED
    BY <1>1, <1>12, <2>1, RetrieveTokens, AliveKept
<1>13. ASSUME NEW c \in Clients, NEW j \in Keys, Schedule(c, j) PROVE StoredTaskIsAlive'
  <2>1. /\ j \notin allocated /\ store' = store \cup {j} /\ UNCHANGED <<policy, process>>
    BY <1>13 DEF Schedule
  <2>2. Tokens(j)' # {}
    BY <1>1, <1>13, ScheduleTokens
  <2>3. \A k \in store \ {j} : NotLost(k)
    BY <1>1, <1>13, ScheduleTokens
  <2> QED
    BY <2>1, <2>2, <2>3 DEF StoredTaskIsAlive, NotLost
<1>14. ASSUME PopInstruction PROVE StoredTaskIsAlive'
  <2>1. store' \subseteq store /\ UNCHANGED <<policy, process>>
    BY <1>14 DEF PopInstruction
  <2> QED
    BY <1>1, <1>14, <2>1, InstructionTokens, AliveKept
<1>15. ASSUME MovesNoItem PROVE StoredTaskIsAlive'
  <2>1. \A k \in store' : NotLost(k)
    BY <1>15, QuietTokens DEF NotLost
  <2>2. /\ store' \subseteq store /\ policy' = policy
        /\ process = "drained" => process' = "drained"
    BY <1>15
    DEF MovesNoItem, Start, Abort, DrainProcess, ClearShard, Remove, Instruct, NotifyWaiters,
        FetchAdd, NotifyOne, IngressEmpty, StealFails, GlobalEmpty, SwapPending, Notified,
        Dispatch, MainLoopCancelled, CancelHalted, InstructionsDrained, AwaitInstructions,
        InstructionLoopCancelled, Move, vars, outside
  <2> QED
    BY <2>1, <2>2, AliveKept
<1> QED
  BY <1>2, <1>3, <1>4, <1>5, <1>6, <1>7, <1>8, <1>9, <1>10, <1>11, <1>12, <1>13, <1>14, <1>15
  DEF Next, ClientStep, HandOffStep, Look, Serve, InstructionStep, MovesNoItem

-----------------------------------------------------------------------------

(* Initially no key has an item, nothing is stored and no hand is full.    *)
LEMMA InitTokens == Init => TokenInv /\ HandsAreFree /\ StoredTaskIsAlive
<1> SUFFICES ASSUME Init PROVE TokenInv /\ HandsAreFree /\ StoredTaskIsAlive
  OBVIOUS
<1>1. ASSUME NEW k \in Keys PROVE Tokens(k) = {}
  <2>1. \A a, b, n : ~Holds(k, a, b, n)
    BY DEF Init, Holds, At
  <2> QED
    BY <2>1, TokenIs
<1>2. TokenInv
  <2>1. Len(instructionQueue) = 0 /\ instructed = 0
    BY DEF Init
  <2>2. ASSUME NEW k \in Keys PROVE Counted(k)
    <3>1. IsFiniteSet(Tokens(k)) /\ Cardinality(Tokens(k)) = 0
      BY <1>1, FS_EmptySet
    <3> QED
      BY <1>1, <2>1, <3>1 DEF Counted
  <2> QED
    BY <2>1, <2>2 DEF TokenInv
<1>3. HandsAreFree /\ StoredTaskIsAlive
  BY DEF Init, HandsAreFree, StoredTaskIsAlive
<1> QED
  BY <1>2, <1>3

(* The inductive invariant of both theorems, in every reachable state.     *)
LEMMA TokensAreCounted == Spec => [](TypeOK /\ WakeProtocol /\ TokenInv /\ HandsAreFree)
<1> DEFINE Inv == TypeOK /\ WakeProtocol /\ TokenInv /\ HandsAreFree
<1>1. Inv /\ [Next]_vars => Inv'
  BY TypeStep, WakeStep, TokenStep, HandsStep
<1>2. Init => Inv
  BY InitInvariant, InitTokens
<1> QED
  BY <1>1, <1>2, PTL DEF Spec

(* OneTokenPerCycle: whatever is stolen, failed over, fired or handed over, *)
(* a task has at most one item, and one more for every instruction given.  *)
THEOREM CycleIsNotDuplicated == Spec => []OneTokenPerCycle
<1>1. TypeOK /\ TokenInv => OneTokenPerCycle
  <2> SUFFICES ASSUME TypeOK, TokenInv, NEW k \in Keys
               PROVE  Cardinality(Tokens(k)) <= 1 + instructed
    BY DEF OneTokenPerCycle
  <2>1. /\ Cardinality(Tokens(k)) \in Nat /\ Len(instructionQueue) \in Nat
        /\ Cardinality(Tokens(k)) + Len(instructionQueue) <= 1 + instructed
    BY FS_CardinalityType DEF TypeOK, TokenInv, Counted
  <2>2. instructed \in Nat
    BY ConstantsAssumption DEF TypeOK
  <2> QED
    BY <2>1, <2>2
<1> QED
  BY <1>1, TokensAreCounted, PTL

(* StoredTaskIsAlive: where tasks do not panic, a stored task is never     *)
(* lost by a hand-over, a steal, a failover or the engine.                 *)
THEOREM StoredTaskIsNeverLost == ~Panics => (Spec => []StoredTaskIsAlive)
<1> SUFFICES ASSUME ~Panics PROVE Spec => []StoredTaskIsAlive
  OBVIOUS
<1> DEFINE Inv == TypeOK /\ WakeProtocol /\ TokenInv /\ HandsAreFree
<1>1. Inv /\ StoredTaskIsAlive /\ [Next]_vars => StoredTaskIsAlive'
  BY AliveStep
<1>2. Init => StoredTaskIsAlive
  BY InitTokens
<1>3. Spec => []Inv
  BY TokensAreCounted
<1> HIDE DEF Inv
<1> QED
  BY <1>1, <1>2, <1>3, PTL DEF Spec

-----------------------------------------------------------------------------
(***************************************************************************)
(* The lifecycle.                                                          *)
(***************************************************************************)

(* What a queue holds.                                                     *)

(* After a push.                                                           *)
LEMMA QueuedAppend ==
  ASSUME NEW S, NEW q \in Seq(S), NEW j \in S
  PROVE  \A i : Queued(Append(q, j), i) <=> Queued(q, i) \/ i = j
<1>1. /\ Append(q, j) \in Seq(S) /\ Len(q) \in Nat
      /\ DOMAIN Append(q, j) = 1 .. Len(q) + 1 /\ DOMAIN q = 1 .. Len(q)
      /\ Append(q, j)[Len(q) + 1] = j
      /\ \A n \in 1 .. Len(q) : Append(q, j)[n] = q[n]
  BY AppendProperties
<1>2. ASSUME NEW i, Queued(Append(q, j), i) PROVE Queued(q, i) \/ i = j
  BY <1>1, <1>2 DEF Queued
<1>3. ASSUME NEW i, Queued(q, i) \/ i = j PROVE Queued(Append(q, j), i)
  BY <1>1, <1>3 DEF Queued
<1> QED
  BY <1>2, <1>3

(* After a pop.                                                            *)
LEMMA QueuedTail ==
  ASSUME NEW S, NEW q \in Seq(S), q # <<>>
  PROVE  \A i : Queued(q, i) <=> i = Head(q) \/ Queued(Tail(q), i)
<1>1. /\ Len(q) \in Nat \ {0} /\ DOMAIN q = 1 .. Len(q) /\ Head(q) = q[1]
      /\ DOMAIN Tail(q) = 1 .. Len(q) - 1
      /\ \A n \in 1 .. Len(q) - 1 : Tail(q)[n] = q[n + 1]
  BY HeadTailProperties, EmptySeq
<1>2. ASSUME NEW i, Queued(q, i) PROVE i = Head(q) \/ Queued(Tail(q), i)
  <2>1. PICK n \in 1 .. Len(q) : q[n] = i
    BY <1>1, <1>2 DEF Queued
  <2>2. CASE n # 1
    <3>1. n - 1 \in 1 .. Len(q) - 1 /\ Tail(q)[n - 1] = i
      BY <1>1, <2>1, <2>2
    <3> QED
      BY <1>1, <3>1 DEF Queued
  <2> QED
    BY <1>1, <2>1, <2>2
<1>3. ASSUME NEW i, i = Head(q) \/ Queued(Tail(q), i) PROVE Queued(q, i)
  <2>1. CASE i = Head(q)
    BY <1>1, <2>1 DEF Queued
  <2>2. CASE Queued(Tail(q), i)
    BY <1>1, <2>2 DEF Queued
  <2> QED
    BY <1>3, <2>1, <2>2
<1> QED
  BY <1>2, <1>3

(* After a steal.                                                          *)
LEMMA QueuedTaken ==
  ASSUME NEW S, NEW q \in Seq(S), q # <<>>
  PROVE  \A i : Queued(q, i) <=> Queued(Taken(q), i) \/ Queued(Left(q), i)
<1> PICK half : half = Batch(q)
  OBVIOUS
<1>1. Len(q) \in Nat \ {0} /\ (\A n \in 1 .. Len(q) : q[n] \in S) /\ Head(q) = q[1]
  BY EmptySeq, ElementOfSeq
<1>2. half \in 1 .. Len(q)
  BY <1>1 DEF Batch
<1>3. /\ SubSeq(q, 2, half) \in Seq(S) /\ Len(SubSeq(q, 2, half)) = half - 1
      /\ \A n \in 1 .. half - 1 : SubSeq(q, 2, half)[n] = q[n + 1]
  BY <1>1, <1>2, SubSeqProperties
<1>4. /\ <<Head(q)>> \in Seq(S) /\ Len(<<Head(q)>>) = 1 /\ <<Head(q)>>[1] = q[1]
  BY <1>1
<1>5. /\ DOMAIN Taken(q) = 1 .. half
      /\ \A n \in 1 .. half : Taken(q)[n] = IF n <= half - 1 THEN q[n + 1] ELSE q[1]
  <2> PICK r : r = SubSeq(q, 2, half)
    OBVIOUS
  <2> PICK h : h = <<Head(q)>>
    OBVIOUS
  <2>1. /\ r \o h \in Seq(S) /\ Len(r \o h) = half
        /\ \A n \in 1 .. half : (r \o h)[n] = IF n <= half - 1 THEN q[n + 1] ELSE q[1]
    BY <1>1, <1>2, <1>3, <1>4, ConcatProperties
  <2>2. Taken(q) = r \o h
    BY DEF Taken
  <2> QED
    BY <2>1, <2>2
<1>6. /\ DOMAIN Left(q) = 1 .. Len(q) - half
      /\ \A n \in 1 .. Len(q) - half : Left(q)[n] = q[n + half]
  BY <1>1, <1>2, SubSeqProperties DEF Left
<1>7. ASSUME NEW i, Queued(q, i) PROVE Queued(Taken(q), i) \/ Queued(Left(q), i)
  <2>1. PICK n \in 1 .. Len(q) : q[n] = i
    BY <1>1, <1>7 DEF Queued
  <2>2. CASE n = 1
    <3>1. half \in 1 .. half /\ Taken(q)[half] = i
      BY <1>1, <1>2, <1>5, <2>1, <2>2
    <3> QED
      BY <1>5, <3>1 DEF Queued
  <2>3. CASE n \in 2 .. half
    <3>1. n - 1 \in 1 .. half /\ Taken(q)[n - 1] = i
      BY <1>1, <1>2, <1>5, <2>1, <2>3
    <3> QED
      BY <1>5, <3>1 DEF Queued
  <2>4. CASE n > half
    <3>1. n - half \in 1 .. Len(q) - half /\ Left(q)[n - half] = i
      BY <1>1, <1>2, <1>6, <2>1, <2>4
    <3> QED
      BY <1>6, <3>1 DEF Queued
  <2> QED
    BY <1>1, <1>2, <2>2, <2>3, <2>4
<1>8. ASSUME NEW i, Queued(Taken(q), i) \/ Queued(Left(q), i) PROVE Queued(q, i)
  <2>1. CASE Queued(Taken(q), i)
    BY <1>1, <1>2, <1>5, <2>1 DEF Queued
  <2>2. CASE Queued(Left(q), i)
    BY <1>1, <1>2, <1>6, <2>2 DEF Queued
  <2> QED
    BY <1>8, <2>1, <2>2
<1> QED
  BY <1>7, <1>8

-----------------------------------------------------------------------------
(* The invariant: that of the tokens, a hand holds what its worker is      *)
(* doing, no instruction is given, and what drains a scheduler.            *)

HandsMatch ==
  \A w \in Workers : /\ pc[w] = "trigger" => hand[w].work = "Trigger"
                     /\ pc[w] \in {"dispatch", "run"} => hand[w].work = "Dispatch"

Uninstructed == instructionQueue = <<>> /\ instructed = 0

DrainedForAReason == process = "drained" => Aborts \/ policy = "ShutdownScheduler"

CycleInv ==
  /\ TypeOK /\ WakeProtocol /\ TokenInv /\ HandsAreFree
  /\ HandsMatch /\ Uninstructed /\ DrainedForAReason

(* Every step of a scheduler that is given no instructions keeps it.       *)
LEMMA CycleStep ==
  ASSUME Instructions = {}, CycleInv, [Next]_vars PROVE CycleInv'
<1> USE DEF vars, storeVars, queueVars, wakeVars, workerVars, engineVars, handoffVars,
           loopVars, instructionVars, outside
<1>1. (TypeOK /\ WakeProtocol /\ TokenInv /\ HandsAreFree)'
  BY TypeStep, WakeStep, TokenStep, HandsStep DEF CycleInv
<1>2. Uninstructed'
  <2>1. \A c, k, i : i \in Instructions => ~Instruct(c, k, i)
    OBVIOUS
  <2>2. ~PopInstruction
    BY DEF PopInstruction, CycleInv, Uninstructed
  <2>3. UNCHANGED <<instructionQueue, instructed>>
    BY <2>1, <2>2
    DEF Next, ClientStep, HandOffStep, Look, Serve, InstructionStep, Start, Abort, ClearShard,
        Remove, Schedule, NotifyWaiters, Push, FetchAdd, NotifyOne, DrainIngress, IngressEmpty,
        PopLocal, Steal, StealFails, StealGlobal, GlobalEmpty, SwapPending, Notified, TriggerOk,
        Dispatch, RunOk, ApplyFailover, Panic, Cancelled, Fire, Retrieve, MainLoopCancelled,
        CancelHalted, InstructionsDrained, AwaitInstructions, InstructionLoopCancelled, Move
  <2> QED
    BY <2>3 DEF CycleInv, Uninstructed
<1>3. DrainedForAReason'
  <2>1. /\ policy' = policy
        /\ \/ process' = process
           \/ Start \/ Abort \/ \E w \in Workers : ApplyFailover(w)
    BY DEF Next, ClientStep, HandOffStep, Look, Serve, InstructionStep, Start, Abort, ClearShard,
        Remove, Schedule, Instruct, NotifyWaiters, Push, FetchAdd, NotifyOne, DrainIngress,
        IngressEmpty, PopLocal, Steal, StealFails, StealGlobal, GlobalEmpty, SwapPending, Notified,
        TriggerOk, Dispatch, RunOk, ApplyFailover, Panic, Cancelled, Fire, Retrieve,
        MainLoopCancelled, PopInstruction, CancelHalted, InstructionsDrained, AwaitInstructions,
        InstructionLoopCancelled, Move
  <2>2. ASSUME Start PROVE process' = "running"
    BY <2>2 DEF Start
  <2>3. ASSUME Abort PROVE Aborts
    BY <2>3 DEF Abort
  <2>4. ASSUME NEW w \in Workers, ApplyFailover(w), policy # "ShutdownScheduler"
        PROVE  process' = process
    BY <2>4 DEF ApplyFailover
  <2> QED
    BY <2>1, <2>2, <2>3, <2>4 DEF CycleInv, DrainedForAReason
<1>4. HandsMatch'
  <2> USE DEF CycleInv
  <2>1. CASE UNCHANGED <<pc, hand>>
    BY <2>1 DEF HandsMatch
  <2>2. ASSUME Start PROVE HandsMatch'
    BY <2>2 DEF Start, HandsMatch
  <2>3. ASSUME NEW w \in Workers, \A v \in Workers \ {w} : pc'[v] = pc[v] /\ hand'[v] = hand[v],
               \/ pc'[w] \notin {"trigger", "dispatch", "run"}
               \/ pc'[w] = "trigger" /\ hand'[w].work = "Trigger"
               \/ pc'[w] \in {"dispatch", "run"} /\ hand'[w].work = "Dispatch"
        PROVE  HandsMatch'
    BY <2>3 DEF HandsMatch
  <2>4. ASSUME NEW w \in Workers, PopLocal(w) PROVE HandsMatch'
    <3>1. local[w] \in Seq(WorkItems) /\ local[w] # <<>>
      BY <2>4 DEF PopLocal, TypeOK
    <3>2. Head(local[w]).work \in {"Trigger", "Dispatch"}
      <4>1. Head(local[w]) \in WorkItems
        BY <3>1, HeadTailProperties
      <4> QED
        BY <4>1 DEF WorkItems
    <3>3. CASE UNCHANGED <<pc, hand>>
      BY <2>1, <3>3
    <3>4. CASE /\ hand' = [hand EXCEPT ![w] = Head(local[w])]
               /\ pc' = [pc EXCEPT ![w] = IF Head(local[w]).work = "Trigger"
                                          THEN "trigger" ELSE "dispatch"]
      BY <2>3, <3>2, <3>4 DEF TypeOK
    <3> QED
      BY <2>4, <3>3, <3>4 DEF PopLocal, Goto
  <2>5. ASSUME NEW w \in Workers, Dispatch(w) PROVE HandsMatch'
    BY <2>3, <2>5 DEF Dispatch, Move, Goto, HandsMatch, TypeOK
  <2>6. ASSUME NEW w \in Workers,
               \/ TriggerOk(w) \/ RunOk(w) \/ ApplyFailover(w) \/ Panic(w) \/ Cancelled(w)
        PROVE  HandsMatch'
    <3>1. /\ pc'[w] \in {"pop", "dead"}
          /\ \A v \in Workers \ {w} : pc'[v] = pc[v] /\ hand'[v] = hand[v]
      BY <2>6 DEF TriggerOk, RunOk, ApplyFailover, Panic, Cancelled, Goto, PutDown, TypeOK
    <3> QED
      BY <2>3, <3>1
  <2>7. ASSUME NEW w \in Workers,
               \/ IngressEmpty(w) \/ (\E v \in Workers : Steal(w, v)) \/ StealFails(w)
               \/ StealGlobal(w) \/ GlobalEmpty(w) \/ SwapPending(w) \/ Notified(w)
        PROVE  HandsMatch'
    <3>1. \E l \in {"pop", "drain", "global", "swap", "wait"} : Goto(w, l) /\ UNCHANGED hand
      BY <2>7 DEF IngressEmpty, Steal, StealFails, StealGlobal, GlobalEmpty, SwapPending,
                  Notified, Move
    <3>2. /\ pc'[w] \in {"pop", "drain", "global", "swap", "wait"}
          /\ \A v \in Workers \ {w} : pc'[v] = pc[v] /\ hand'[v] = hand[v]
      BY <3>1 DEF Goto, TypeOK
    <3> QED
      BY <2>3, <3>2
  <2>8. ASSUME NEW w \in Workers, DrainIngress(w) PROVE HandsMatch'
    BY <2>1, <2>8 DEF DrainIngress
  <2>9. ASSUME NEW p \in Producers, HandOffStep(p) PROVE HandsMatch'
    BY <2>1, <2>9 DEF HandOffStep, Push, FetchAdd, NotifyOne
  <2>10. ASSUME Abort \/ (\E ks \in SUBSET store : ClearShard(ks)) \/ Retrieve
                \/ MainLoopCancelled \/ InstructionStep \/ InstructionLoopCancelled
         PROVE  HandsMatch'
    <3>1. UNCHANGED <<pc, hand>>
      BY <2>10 DEF Abort, ClearShard, Retrieve, MainLoopCancelled, InstructionStep,
                   PopInstruction, CancelHalted, InstructionsDrained, AwaitInstructions,
                   InstructionLoopCancelled
    <3> QED
      BY <2>1, <3>1
  <2>11. ASSUME NEW k \in Keys, \/ Remove(k) \/ Fire(k)
                                \/ \E c \in Clients : Schedule(c, k)
                                \/ \E c \in Clients, i \in Instructions : Instruct(c, k, i)
         PROVE  HandsMatch'
    BY <2>1, <2>11 DEF Remove, Fire, Schedule, Instruct
  <2>12. ASSUME NEW c \in Clients, NotifyWaiters(c) PROVE HandsMatch'
    BY <2>1, <2>12 DEF NotifyWaiters
  <2> QED
    BY <2>1, <2>2, <2>4, <2>5, <2>6, <2>7, <2>8, <2>9, <2>10, <2>11, <2>12
    DEF Next, ClientStep, Look, Serve
<1> QED
  BY <1>1, <1>2, <1>3, <1>4 DEF CycleInv

-----------------------------------------------------------------------------
(* A key has one item at most, so that its phase can be read off it.       *)

(* Items are records.                                                      *)
LEMMA WorkIs ==
  /\ \A k, x, j, y : Work(k, x) = Work(j, y) <=> k = j /\ x = y
  /\ \A k, x : Work(k, x).key = k /\ Work(k, x).work = x
  /\ \A k \in Keys, x \in {"Trigger", "Dispatch"} : Work(k, x) \in WorkItems
  /\ \A i \in WorkItems : /\ i.key \in Keys /\ i.work \in {"Trigger", "Dispatch"}
                          /\ i = Work(i.key, i.work) /\ i # None
<1>1. \A k, x, j, y : Work(k, x) = Work(j, y) <=> k = j /\ x = y
  <2>1. \A k, x : Work(k, x).key = k /\ Work(k, x).work = x
    BY DEF Work
  <2> QED
    BY <2>1
<1> QED
  BY <1>1, NoneAssumption DEF Work, WorkItems

(* The tokens of a key are at one place.                                   *)
LEMMA OneItem ==
  ASSUME CycleInv, NEW CONSTANT k \in Keys, NEW a, NEW b, NEW n, NEW c, NEW d, NEW m,
         Holds(k, a, b, n), Holds(k, c, d, m)
  PROVE  <<a, b, n>> = <<c, d, m>>
<1>1. <<a, b, n>> \in Tokens(k) /\ <<c, d, m>> \in Tokens(k)
  BY TokenIs
<1>2. /\ IsFiniteSet(Tokens(k)) /\ Cardinality(Tokens(k)) \in Nat
      /\ Cardinality(Tokens(k)) <= 1
  <2>1. /\ IsFiniteSet(Tokens(k)) /\ Cardinality(Tokens(k)) \in Nat
        /\ Cardinality(Tokens(k)) + Len(instructionQueue) <= 1 + instructed
    BY FS_CardinalityType DEF CycleInv, TokenInv, Counted
  <2>2. instructed = 0 /\ Len(instructionQueue) = 0
    BY DEF CycleInv, Uninstructed
  <2> QED
    BY <2>1, <2>2
<1>3. /\ IsFiniteSet(Tokens(k) \ {<<a, b, n>>})
      /\ Cardinality(Tokens(k) \ {<<a, b, n>>}) = Cardinality(Tokens(k)) - 1
  BY <1>1, <1>2, FS_RemoveElement
<1>4. Tokens(k) \ {<<a, b, n>>} = {}
  BY <1>2, <1>3, FS_EmptySet, FS_CardinalityType
<1> QED
  BY <1>1, <1>4

\* The item at a place.
ItemAt(a, b, n) ==
  IF b = "ingress" THEN ingress[a][n]
  ELSE IF b = "local" THEN local[a][n]
  ELSE IF b = "global" THEN global[n]
  ELSE IF b = "hand" THEN hand[a]
  ELSE item[a]

(* An item that is held is at a place.                                     *)
LEMMA HeldIsAt ==
  ASSUME NEW CONSTANT k \in Keys, NEW CONSTANT x \in {"Trigger", "Dispatch"},
         Held(Work(k, x))
  PROVE  \E a, b, n : /\ Holds(k, a, b, n) /\ ItemAt(a, b, n) = Work(k, x)
                      /\ b \in {"ingress", "local", "global", "hand", "item"}
<1>1. Work(k, x).key = k /\ Work(k, x) # None
  BY WorkIs
<1>2. ASSUME NEW w \in Workers, Queued(ingress[w], Work(k, x))
      PROVE  \E n : Holds(k, w, "ingress", n) /\ ItemAt(w, "ingress", n) = Work(k, x)
  BY <1>1, <1>2 DEF Queued, Holds, At, ItemAt
<1>3. ASSUME NEW w \in Workers, Queued(local[w], Work(k, x))
      PROVE  \E n : Holds(k, w, "local", n) /\ ItemAt(w, "local", n) = Work(k, x)
  BY <1>1, <1>3 DEF Queued, Holds, At, ItemAt
<1>4. ASSUME NEW w \in Workers, hand[w] = Work(k, x)
      PROVE  Holds(k, w, "hand", 0) /\ ItemAt(w, "hand", 0) = Work(k, x)
  BY <1>1, <1>4 DEF Holds, ItemAt
<1>5. ASSUME Queued(global, Work(k, x))
      PROVE  \E n : Holds(k, "queue", "global", n) /\ ItemAt("queue", "global", n) = Work(k, x)
  BY <1>1, <1>5 DEF Queued, Holds, At, ItemAt
<1>6. ASSUME NEW p \in Producers, stage[p] = "push", item[p] = Work(k, x)
      PROVE  Holds(k, p, "item", 0) /\ ItemAt(p, "item", 0) = Work(k, x)
  BY <1>1, <1>6 DEF Holds, ItemAt
<1> QED
  BY <1>2, <1>3, <1>4, <1>5, <1>6 DEF Held

(* A run holds its item in its hand.                                       *)
LEMMA RunningIsHeld ==
  ASSUME CycleInv, NEW CONSTANT k \in Keys, NEW w \in Workers,
         pc[w] = "run", hand[w].key = k
  PROVE  /\ hand[w] = Work(k, "Dispatch") /\ Holds(k, w, "hand", 0)
         /\ Running(k) /\ Held(Work(k, "Dispatch"))
<1>1. hand[w] \in WorkItems /\ hand[w].work = "Dispatch"
  BY DEF CycleInv, TypeOK, HandsMatch
<1>2. hand[w] = Work(k, "Dispatch") /\ hand[w] # None
  BY <1>1, WorkIs
<1> QED
  BY <1>2 DEF Holds, Held, Running

\* What the one item of k says of its phase.
PhaseFacts(k) ==
  /\ Running(k) => PhaseOf(k) = "running"
  /\ Held(Work(k, "Dispatch")) /\ ~Running(k) => PhaseOf(k) = "due"
  /\ Queued(fired, k) => PhaseOf(k) = "due"
  /\ armed[k] > 0 => PhaseOf(k) = "waiting"
  /\ Held(Work(k, "Trigger")) => PhaseOf(k) = "planning"
  /\ (\A a, b, n : ~Holds(k, a, b, n)) =>
        PhaseOf(k) = IF k \in allocated THEN "gone" ELSE "absent"
  /\ k \notin allocated => PhaseOf(k) = "absent"

(* The phase of a key can be read off any of its items.                    *)
LEMMA PhaseIs == CycleInv => \A k \in Keys : PhaseFacts(k)
<1> SUFFICES ASSUME CycleInv, NEW k \in Keys PROVE PhaseFacts(k)
  OBVIOUS
<1> DEFINE T == Held(Work(k, "Trigger"))
           D == Held(Work(k, "Dispatch"))
           F == Queued(fired, k)
           A == armed[k] > 0
           R == Running(k)
<1>1. T => \E a, b, n : /\ Holds(k, a, b, n) /\ ItemAt(a, b, n) = Work(k, "Trigger")
                        /\ b \in {"ingress", "local", "global", "hand", "item"}
  BY HeldIsAt
<1>2. D => \E a, b, n : /\ Holds(k, a, b, n) /\ ItemAt(a, b, n) = Work(k, "Dispatch")
                        /\ b \in {"ingress", "local", "global", "hand", "item"}
  BY HeldIsAt
<1>3. F => \E n : Holds(k, "engine", "fired", n)
  BY DEF Queued, Holds
<1>4. A => Holds(k, "engine", "armed", 1)
  BY DEF Holds, CycleInv, TypeOK
<1>5. R => D
  BY RunningIsHeld DEF Running
<1>6. Work(k, "Trigger") # Work(k, "Dispatch")
  BY WorkIs
<1>7. \A a, b, n, c, d, m : Holds(k, a, b, n) /\ Holds(k, c, d, m) => a = c /\ b = d /\ n = m
  BY OneItem
<1>8. ~(T /\ D)
  BY <1>1, <1>2, <1>6, <1>7
<1>9. ~(F /\ (T \/ D)) /\ ~(A /\ (T \/ D)) /\ ~(A /\ F)
  BY <1>1, <1>2, <1>3, <1>4, <1>7
<1>10. (\A a, b, n : ~Holds(k, a, b, n)) => ~T /\ ~D /\ ~F /\ ~A
  BY <1>1, <1>2, <1>3, <1>4
<1>11. k \notin allocated => \A a, b, n : ~Holds(k, a, b, n)
  BY TokenIs DEF CycleInv, TokenInv, Counted
<1>12. PhaseOf(k) = IF R THEN "running" ELSE IF D \/ F THEN "due" ELSE IF A THEN "waiting"
                    ELSE IF T THEN "planning" ELSE IF k \in allocated THEN "gone" ELSE "absent"
  BY DEF PhaseOf
<1> HIDE DEF T, D, F, A, R
<1>13. PhaseFacts(k) <=>
         /\ R => PhaseOf(k) = "running"
         /\ D /\ ~R => PhaseOf(k) = "due"
         /\ F => PhaseOf(k) = "due"
         /\ A => PhaseOf(k) = "waiting"
         /\ T => PhaseOf(k) = "planning"
         /\ (\A a, b, n : ~Holds(k, a, b, n)) =>
               PhaseOf(k) = IF k \in allocated THEN "gone" ELSE "absent"
         /\ k \notin allocated => PhaseOf(k) = "absent"
  BY DEF PhaseFacts, T, D, F, A, R
<1> QED
  BY <1>5, <1>8, <1>9, <1>10, <1>11, <1>12, <1>13

(* The same after a step.                                                  *)
LEMMA PhaseIsNext == ASSUME CycleInv' PROVE \A k \in Keys : PhaseFacts(k)'
<1>1. (CycleInv => \A k \in Keys : PhaseFacts(k))'
  BY PhaseIs, PTL
<1> QED
  BY <1>1

(* What the phase is made of.                                              *)
LEMMA PhaseSame ==
  ASSUME NEW CONSTANT k \in Keys,
         Running(k)' <=> Running(k),
         (Held(Work(k, "Dispatch")) \/ Queued(fired, k))' <=>
            Held(Work(k, "Dispatch")) \/ Queued(fired, k),
         armed'[k] > 0 <=> armed[k] > 0,
         Held(Work(k, "Trigger"))' <=> Held(Work(k, "Trigger")),
         k \in allocated' <=> k \in allocated
  PROVE  PhaseOf(k)' = PhaseOf(k)
BY DEF PhaseOf

-----------------------------------------------------------------------------
(* Steps that leave every task in its phase.                               *)

(* A step of no task's cycle is a stutter of TaskLifecycle.                *)
LEMMA Stutters ==
  ASSUME UNCHANGED <<policy, store>>, \A k \in Keys : PhaseOf(k)' = PhaseOf(k)
  PROVE  UNCHANGED Lifecycle!vars
BY DEF Lifecycle!vars

(* A step that moves no item and starts no run.                            *)
LEMMA QuietPhases ==
  ASSUME CycleInv, MovesNoItem, allocated' = allocated,
         \A w \in Workers : pc'[w] = "run" <=> pc[w] = "run",
         NEW CONSTANT k \in Keys
  PROVE  PhaseOf(k)' = PhaseOf(k)
<1>1. /\ UNCHANGED <<ingress, local, global, hand, armed, fired>>
      /\ \A p \in Producers : /\ stage'[p] = "push" <=> stage[p] = "push"
                              /\ stage[p] = "push" => item'[p] = item[p]
  BY QuietStep DEF CycleInv
<1>2. \A i : Held(i)' <=> Held(i)
  BY <1>1 DEF Held, Queued
<1>3. Running(k)' <=> Running(k)
  BY <1>1 DEF Running
<1> QED
  BY <1>1, <1>2, <1>3, PhaseSame DEF Queued

(* An item that is pushed is held as before.                               *)
LEMMA PushPhases ==
  ASSUME CycleInv, NEW p \in Producers, NEW w \in Workers, Push(p, w),
         NEW CONSTANT k \in Keys
  PROVE  PhaseOf(k)' = PhaseOf(k)
<1>1. /\ item[p] \in WorkItems /\ stage[p] = "push" /\ stage'[p] # "push"
      /\ ingress[w] \in Seq(WorkItems) /\ ingress'[w] = Append(ingress[w], item[p])
      /\ \A v \in Workers \ {w} : ingress'[v] = ingress[v]
      /\ \A q \in Producers \ {p} : stage'[q] = stage[q] /\ item'[q] = item[q]
      /\ UNCHANGED <<local, global, hand, pc, armed, fired, allocated>>
  BY DEF CycleInv, Push, TypeOK, workerVars, engineVars, storeVars
<1>2. \A i : Queued(ingress'[w], i) <=> Queued(ingress[w], i) \/ i = item[p]
  BY <1>1, QueuedAppend
<1>3. ASSUME NEW i PROVE Held(i)' <=> Held(i)
  <2>1. (\E v \in Workers : Queued(ingress'[v], i)) <=>
          i = item[p] \/ \E v \in Workers : Queued(ingress[v], i)
    BY <1>1, <1>2
  <2>2. (\E q \in Producers : stage[q] = "push" /\ item[q] = i) <=>
          i = item[p] \/ \E q \in Producers : stage'[q] = "push" /\ item'[q] = i
    BY <1>1
  <2>3. \A v \in Workers : Queued(local'[v], i) <=> Queued(local[v], i)
    BY <1>1
  <2>4. Queued(global, i)' <=> Queued(global, i)
    BY <1>1 DEF Queued
  <2> QED
    BY <1>1, <2>1, <2>2, <2>3, <2>4 DEF Held
<1>4. Running(k)' <=> Running(k)
  BY <1>1 DEF Running
<1> QED
  BY <1>1, <1>3, <1>4, PhaseSame DEF Queued

(* What a worker drains it has in its deque.                               *)
LEMMA DrainPhases ==
  ASSUME CycleInv, NEW w \in Workers, DrainIngress(w), NEW CONSTANT k \in Keys
  PROVE  PhaseOf(k)' = PhaseOf(k)
<1>1. /\ ingress[w] \in Seq(WorkItems) /\ ingress[w] # <<>> /\ local[w] \in Seq(WorkItems)
      /\ ingress'[w] = Tail(ingress[w]) /\ local'[w] = Append(local[w], Head(ingress[w]))
      /\ \A v \in Workers \ {w} : ingress'[v] = ingress[v] /\ local'[v] = local[v]
      /\ UNCHANGED <<global, hand, pc, stage, item, armed, fired, allocated>>
  BY DEF CycleInv, DrainIngress, TypeOK, workerVars, engineVars, outside, handoffVars
<1>2. Head(ingress[w]) \in WorkItems
  BY <1>1, HeadTailProperties
<1>3. \A i : /\ Queued(ingress[w], i) <=> i = Head(ingress[w]) \/ Queued(ingress'[w], i)
             /\ Queued(local'[w], i) <=> Queued(local[w], i) \/ i = Head(ingress[w])
  BY <1>1, <1>2, QueuedTail, QueuedAppend
<1>4. ASSUME NEW i PROVE Held(i)' <=> Held(i)
  <2>1. \A v \in Workers :
          Queued(ingress[v], i) \/ Queued(local[v], i) <=>
            Queued(ingress'[v], i) \/ Queued(local'[v], i)
    BY <1>1, <1>3
  <2>2. Queued(global, i)' <=> Queued(global, i)
    BY <1>1 DEF Queued
  <2> QED
    BY <1>1, <2>1, <2>2 DEF Held
<1>5. Running(k)' <=> Running(k)
  BY <1>1 DEF Running
<1> QED
  BY <1>1, <1>4, <1>5, PhaseSame DEF Queued

(* What is stolen is in the thief's deque.                                 *)
LEMMA StealPhases ==
  ASSUME CycleInv, NEW w \in Workers, NEW v \in Workers, Steal(w, v), NEW CONSTANT k \in Keys
  PROVE  PhaseOf(k)' = PhaseOf(k)
<1>1. /\ w # v /\ local[v] \in Seq(WorkItems) /\ local[v] # <<>> /\ local[w] = <<>>
      /\ local'[v] = Left(local[v]) /\ local'[w] = <<>> \o Taken(local[v])
      /\ \A u \in Workers \ {v, w} : local'[u] = local[u]
      /\ UNCHANGED <<ingress, global, hand, stage, item, armed, fired, allocated>>
      /\ pc[w] # "run" /\ pc'[w] # "run" /\ \A u \in Workers \ {w} : pc'[u] = pc[u]
  BY DEF CycleInv, Steal, Goto, TypeOK, engineVars, outside, handoffVars
<1>2. local'[w] = Taken(local[v])
  BY <1>1, BatchType, ConcatProperties
<1>3. \A i : /\ Queued(local[v], i) <=> Queued(local'[w], i) \/ Queued(local'[v], i)
             /\ ~Queued(local[w], i)
  <2>1. \A i : Queued(local[v], i) <=> Queued(Taken(local[v]), i) \/ Queued(Left(local[v]), i)
    BY <1>1, QueuedTaken
  <2>2. \A i : ~Queued(local[w], i)
    BY <1>1 DEF Queued
  <2> QED
    BY <1>1, <1>2, <2>1, <2>2
<1>4. ASSUME NEW i PROVE Held(i)' <=> Held(i)
  <2>1. (\E u \in Workers : Queued(local'[u], i)) <=> \E u \in Workers : Queued(local[u], i)
    BY <1>1, <1>3
  <2>2. Queued(global, i)' <=> Queued(global, i)
    BY <1>1 DEF Queued
  <2>3. \A u \in Workers : Queued(ingress'[u], i) <=> Queued(ingress[u], i)
    BY <1>1
  <2> QED
    BY <1>1, <2>1, <2>2, <2>3 DEF Held
<1>5. Running(k)' <=> Running(k)
  BY <1>1 DEF Running
<1> QED
  BY <1>1, <1>4, <1>5, PhaseSame DEF Queued

(* The same of the global queue.                                           *)
LEMMA StealGlobalPhases ==
  ASSUME CycleInv, NEW w \in Workers, StealGlobal(w), NEW CONSTANT k \in Keys
  PROVE  PhaseOf(k)' = PhaseOf(k)
<1>1. /\ global \in Seq(WorkItems) /\ global # <<>>
      /\ global' = Left(global) /\ local'[w] = local[w] \o Taken(global)
      /\ \A u \in Workers \ {w} : local'[u] = local[u]
      /\ UNCHANGED <<ingress, hand, stage, item, armed, fired, allocated>>
      /\ pc[w] # "run" /\ pc'[w] # "run" /\ \A u \in Workers \ {w} : pc'[u] = pc[u]
  BY DEF CycleInv, StealGlobal, Goto, TypeOK, engineVars, outside, handoffVars
<1>2. local[w] = <<>>
  BY DEF StealGlobal, CycleInv, WakeProtocol, LocalDone
<1>3. local'[w] = Taken(global)
  BY <1>1, <1>2, BatchType, ConcatProperties
<1>4. \A i : /\ Queued(global, i) <=> Queued(local'[w], i) \/ Queued(global', i)
             /\ ~Queued(local[w], i)
  <2>1. \A i : Queued(global, i) <=> Queued(Taken(global), i) \/ Queued(Left(global), i)
    BY <1>1, QueuedTaken
  <2>2. \A i : ~Queued(local[w], i)
    BY <1>2 DEF Queued
  <2>3. global' = Left(global)
    BY <1>1
  <2> QED
    BY <1>3, <2>1, <2>2, <2>3 DEF Queued
<1>5. ASSUME NEW i PROVE Held(i)' <=> Held(i)
  <2>1. (\E u \in Workers : Queued(local'[u], i)) \/ Queued(global', i) <=>
          (\E u \in Workers : Queued(local[u], i)) \/ Queued(global, i)
    BY <1>1, <1>4
  <2>2. \A u \in Workers : Queued(ingress'[u], i) <=> Queued(ingress[u], i)
    BY <1>1
  <2> QED
    BY <1>1, <2>1, <2>2 DEF Held
<1>6. Running(k)' <=> Running(k)
  BY <1>1 DEF Running
<1> QED
  BY <1>1, <1>5, <1>6, PhaseSame DEF Queued

(* A key that is retrieved is due as before.                               *)
LEMMA RetrievePhases ==
  ASSUME CycleInv, Retrieve, NEW CONSTANT k \in Keys
  PROVE  PhaseOf(k)' = PhaseOf(k)
<1> DEFINE p == "main_loop"
<1> PICK j : j = Head(fired)
  OBVIOUS
<1>1. /\ fired \in Seq(Keys) /\ fired # <<>> /\ fired' = Tail(fired)
      /\ p \in Producers /\ stage[p] = "idle" /\ stage'[p] = "push"
      /\ item'[p] = Work(j, "Dispatch")
      /\ \A q \in Producers \ {p} : stage'[q] = stage[q] /\ item'[q] = item[q]
      /\ UNCHANGED <<ingress, local, global, hand, pc, armed, allocated>>
  BY DEF CycleInv, Retrieve, HandOff, TypeOK, Producers, queueVars, workerVars, storeVars
<1>2. Queued(fired, k) <=> k = j \/ Queued(fired', k)
  BY <1>1, QueuedTail
<1>3. ASSUME NEW i PROVE Held(i)' <=> Held(i) \/ i = Work(j, "Dispatch")
  <2>1. (\E q \in Producers : stage'[q] = "push" /\ item'[q] = i) <=>
          i = Work(j, "Dispatch") \/ \E q \in Producers : stage[q] = "push" /\ item[q] = i
    BY <1>1
  <2>2. /\ Queued(global, i)' <=> Queued(global, i)
        /\ \A u \in Workers : /\ Queued(ingress'[u], i) <=> Queued(ingress[u], i)
                              /\ Queued(local'[u], i) <=> Queued(local[u], i)
    BY <1>1 DEF Queued
  <2> QED
    BY <1>1, <2>1, <2>2 DEF Held
<1>4. /\ Work(k, "Trigger") # Work(j, "Dispatch")
      /\ Work(k, "Dispatch") = Work(j, "Dispatch") <=> k = j
  BY WorkIs
<1>5. Running(k)' <=> Running(k)
  BY <1>1 DEF Running
<1>6. (Held(Work(k, "Dispatch")) \/ Queued(fired, k))' <=>
         Held(Work(k, "Dispatch")) \/ Queued(fired, k)
  BY <1>2, <1>3, <1>4
<1> QED
  BY <1>1, <1>3, <1>4, <1>5, <1>6, PhaseSame

-----------------------------------------------------------------------------
(* Steps of one task's cycle.                                              *)

(* Only the phase of k changes.                                            *)
LEMMA Enters ==
  ASSUME NEW CONSTANT k \in Keys, NEW CONSTANT ph, PhaseOf(k)' = ph,
         \A j \in Keys \ {k} : PhaseOf(j)' = PhaseOf(j)
  PROVE  Lifecycle!Enter(k, ph)
BY DEF Lifecycle!Enter

(* A task that is scheduled is planned.                                    *)
LEMMA SchedulePhases ==
  ASSUME CycleInv, CycleInv', NEW c \in Clients, NEW k \in Keys, Schedule(c, k)
  PROVE  Lifecycle!Register(k)
<1>1. /\ c \in Producers /\ stage[c] = "idle" /\ stage'[c] = "push"
      /\ item'[c] = Work(k, "Trigger") /\ k \notin allocated
      /\ \A q \in Producers \ {c} : stage'[q] = stage[q] /\ item'[q] = item[q]
      /\ allocated' = allocated \cup {k} /\ store' = store \cup {k}
      /\ UNCHANGED <<ingress, local, global, hand, pc, armed, fired, policy>>
  BY DEF CycleInv, Schedule, HandOff, TypeOK, Producers, queueVars, workerVars, engineVars
<1>2. ASSUME NEW i PROVE Held(i)' <=> Held(i) \/ i = Work(k, "Trigger")
  <2>1. (\E q \in Producers : stage'[q] = "push" /\ item'[q] = i) <=>
          i = Work(k, "Trigger") \/ \E q \in Producers : stage[q] = "push" /\ item[q] = i
    BY <1>1
  <2>2. /\ Queued(global, i)' <=> Queued(global, i)
        /\ \A u \in Workers : /\ Queued(ingress'[u], i) <=> Queued(ingress[u], i)
                              /\ Queued(local'[u], i) <=> Queued(local[u], i)
    BY <1>1 DEF Queued
  <2> QED
    BY <1>1, <2>1, <2>2 DEF Held
<1>3. ASSUME NEW j \in Keys \ {k} PROVE PhaseOf(j)' = PhaseOf(j)
  <2>1. Work(j, "Trigger") # Work(k, "Trigger") /\ Work(j, "Dispatch") # Work(k, "Trigger")
    BY WorkIs
  <2>2. Running(j)' <=> Running(j)
    BY <1>1 DEF Running
  <2> QED
    BY <1>1, <1>2, <2>1, <2>2, PhaseSame DEF Queued
<1>4. PhaseOf(k)' = "planning"
  BY <1>2, PhaseIsNext DEF PhaseFacts
<1>5. PhaseOf(k) = "absent"
  BY <1>1, PhaseIs DEF PhaseFacts
<1> QED
  BY <1>1, <1>3, <1>4, <1>5, Enters DEF Lifecycle!Register

(* The items when a worker puts down the one in its hand.                  *)
LEMMA PutDownPhases ==
  ASSUME CycleInv, NEW w \in Workers, hand[w] \in WorkItems, PutDown(w), pc'[w] # "run",
         \A v \in Workers \ {w} : pc'[v] = pc[v],
         UNCHANGED <<ingress, stage, item, fired, allocated>>,
         NEW more,
         \A i \in WorkItems :
           (\E v \in Workers : Queued(local'[v], i)) \/ Queued(global', i) <=>
             (\E v \in Workers : Queued(local[v], i)) \/ Queued(global, i) \/ i = more,
         more # None => more.key = hand[w].key,
         \A j \in Keys \ {hand[w].key} : armed'[j] = armed[j]
  PROVE  \A j \in Keys \ {hand[w].key} : PhaseOf(j)' = PhaseOf(j)
<1> SUFFICES ASSUME NEW j \in Keys \ {hand[w].key} PROVE PhaseOf(j)' = PhaseOf(j)
  OBVIOUS
<1>1. hand'[w] = None /\ \A v \in Workers \ {w} : hand'[v] = hand[v]
  BY DEF PutDown, CycleInv, TypeOK
<1>2. ASSUME NEW x \in {"Trigger", "Dispatch"}
      PROVE  Held(Work(j, x))' <=> Held(Work(j, x))
  <2>1. Work(j, x).key = j /\ Work(j, x) # None /\ Work(j, x) \in WorkItems
    BY WorkIs
  <2>2. Work(j, x) # more /\ hand[w] # Work(j, x) /\ hand'[w] # Work(j, x)
    BY <1>1, <2>1
  <2>3. \A v \in Workers : hand'[v] = Work(j, x) <=> hand[v] = Work(j, x)
    BY <1>1, <2>2
  <2> PICK i : i = Work(j, x)
    OBVIOUS
  <2>4. (\E v \in Workers : Queued(local'[v], i)) \/ Queued(global', i) <=>
          (\E v \in Workers : Queued(local[v], i)) \/ Queued(global, i)
    BY <2>1, <2>2
  <2>5. Held(i) <=> \/ \E v \in Workers : Queued(ingress[v], i) \/ hand[v] = i
                    \/ (\E v \in Workers : Queued(local[v], i)) \/ Queued(global, i)
                    \/ \E p \in Producers : stage[p] = "push" /\ item[p] = i
    BY DEF Held
  <2>6. Held(i)' <=> \/ \E v \in Workers : Queued(ingress'[v], i) \/ hand'[v] = i
                     \/ (\E v \in Workers : Queued(local'[v], i)) \/ Queued(global', i)
                     \/ \E p \in Producers : stage'[p] = "push" /\ item'[p] = i
    BY DEF Held, Queued
  <2> QED
    BY <2>3, <2>4, <2>5, <2>6
<1>3. Running(j)' <=> Running(j)
  BY <1>1 DEF Running
<1> QED
  BY <1>2, <1>3, PhaseSame DEF Queued

(* A trigger that returns a time makes the task wait.                      *)
LEMMA TriggerPhases ==
  ASSUME CycleInv, CycleInv', NEW w \in Workers, TriggerOk(w)
  PROVE  Lifecycle!Plan(hand[w].key)
<1> PICK k : k = hand[w].key
  OBVIOUS
<1>1. /\ hand[w] \in WorkItems /\ hand[w].work = "Trigger" /\ pc[w] = "trigger"
      /\ PutDown(w) /\ pc'[w] # "run" /\ \A v \in Workers \ {w} : pc'[v] = pc[v]
      /\ UNCHANGED <<ingress, local, global, stage, item, fired, allocated, policy, store>>
  BY DEF CycleInv, TriggerOk, Goto, HandsMatch, TypeOK, queueVars, outside, handoffVars
<1>2. k \in Keys /\ hand[w] = Work(k, "Trigger")
  BY <1>1, WorkIs
<1>3. armed'[k] > 0 /\ \A j \in Keys \ {k} : armed'[j] = armed[j]
  BY <1>2 DEF CycleInv, TriggerOk, TypeOK
<1>4. PhaseOf(k)' = "waiting"
  BY <1>2, <1>3, PhaseIsNext DEF PhaseFacts
<1>5. PhaseOf(k) = "planning"
  <2>1. Held(Work(k, "Trigger"))
    BY <1>2 DEF Held
  <2> QED
    BY <1>2, <2>1, PhaseIs DEF PhaseFacts
<1>6. \A j \in Keys \ {k} : PhaseOf(j)' = PhaseOf(j)
  <2>1. \A i \in WorkItems :
          (\E v \in Workers : Queued(local'[v], i)) \/ Queued(global', i) <=>
            (\E v \in Workers : Queued(local[v], i)) \/ Queued(global, i) \/ i = None
    BY <1>1, NoneAssumption DEF Queued
  <2> QED
    BY <1>1, <1>3, <2>1, PutDownPhases
<1> QED
  BY <1>1, <1>2, <1>4, <1>5, <1>6, Enters DEF Lifecycle!Plan, Lifecycle!Cycle

(* An entry that the engine releases makes its task due.                   *)
LEMMA FirePhases ==
  ASSUME CycleInv, CycleInv', NEW k \in Keys, Fire(k)
  PROVE  Lifecycle!BecomeDue(k)
<1>1. /\ armed[k] > 0 /\ (\A j \in Keys \ {k} : armed'[j] = armed[j])
      /\ fired \in Seq(Keys) /\ fired' = Append(fired, k)
      /\ UNCHANGED <<ingress, local, global, hand, pc, stage, item, allocated, policy, store>>
  BY DEF CycleInv, Fire, TypeOK, queueVars, workerVars, handoffVars, storeVars
<1>2. \A j : Queued(fired', j) <=> Queued(fired, j) \/ j = k
  BY <1>1, QueuedAppend
<1>3. ASSUME NEW j \in Keys \ {k} PROVE PhaseOf(j)' = PhaseOf(j)
  <2>1. \A i : Held(i)' <=> Held(i)
    BY <1>1 DEF Held, Queued
  <2>2. Running(j)' <=> Running(j)
    BY <1>1 DEF Running
  <2>3. Queued(fired, j)' <=> Queued(fired, j)
    BY <1>2 DEF Queued
  <2> QED
    BY <1>1, <2>1, <2>2, <2>3, PhaseSame
<1>4. PhaseOf(k)' = "due"
  <2>1. Queued(fired, k)'
    BY <1>2 DEF Queued
  <2> QED
    BY <2>1, PhaseIsNext DEF PhaseFacts
<1>5. PhaseOf(k) = "waiting"
  BY <1>1, PhaseIs DEF PhaseFacts
<1> QED
  BY <1>1, <1>3, <1>4, <1>5, Enters DEF Lifecycle!BecomeDue, Lifecycle!Cycle

(* A dispatched task was due: no other worker runs it.                     *)
LEMMA DispatchPhases ==
  ASSUME CycleInv, CycleInv', NEW w \in Workers, Dispatch(w)
  PROVE  Lifecycle!Run(hand[w].key)
<1> PICK k : k = hand[w].key
  OBVIOUS
<1>1. /\ hand[w] \in WorkItems /\ hand[w].work = "Dispatch" /\ pc[w] = "dispatch"
      /\ pc'[w] = "run" /\ \A v \in Workers \ {w} : pc'[v] = pc[v]
      /\ UNCHANGED <<ingress, local, global, hand, stage, item, armed, fired, allocated,
                     policy, store>>
  BY DEF CycleInv, Dispatch, Move, Goto, HandsMatch, TypeOK, queueVars, engineVars, outside,
         handoffVars
<1>2. k \in Keys /\ hand[w] = Work(k, "Dispatch") /\ hand[w] # None
  BY <1>1, WorkIs
<1>3. \A i : Held(i)' <=> Held(i)
  BY <1>1 DEF Held, Queued
<1>4. ASSUME NEW j \in Keys \ {k} PROVE PhaseOf(j)' = PhaseOf(j)
  <2>1. Running(j)' <=> Running(j)
    BY <1>1 DEF Running
  <2> QED
    BY <1>1, <1>3, <2>1, PhaseSame DEF Queued
<1>5. PhaseOf(k)' = "running"
  <2>1. Running(k)'
    BY <1>1 DEF Running
  <2> QED
    BY <1>2, <2>1, PhaseIsNext DEF PhaseFacts
<1>6. PhaseOf(k) = "due"
  <2>1. Held(Work(k, "Dispatch"))
    BY <1>2 DEF Held
  <2>2. ASSUME NEW v \in Workers, pc[v] = "run", hand[v].key = k PROVE FALSE
    <3>1. Holds(k, v, "hand", 0)
      BY <1>2, <2>2, RunningIsHeld
    <3>2. Holds(k, w, "hand", 0)
      BY <1>2 DEF Holds
    <3>3. v = w
      BY <1>2, <3>1, <3>2, OneItem
    <3> QED
      BY <1>1, <2>2, <3>3
  <2>3. ~Running(k)
    BY <2>2 DEF Running
  <2> QED
    BY <1>2, <2>1, <2>3, PhaseIs DEF PhaseFacts
<1> QED
  BY <1>1, <1>2, <1>4, <1>5, <1>6, Enters DEF Lifecycle!Run, Lifecycle!Cycle

(* A run that ends makes its task planned again.                           *)
LEMMA RunPhases ==
  ASSUME CycleInv, CycleInv', NEW w \in Workers, RunOk(w)
  PROVE  Lifecycle!Finish(hand[w].key)
<1> PICK k : k = hand[w].key
  OBVIOUS
<1> PICK more : more = Work(k, "Trigger")
  OBVIOUS
<1>1. /\ hand[w] \in WorkItems /\ pc[w] = "run" /\ local[w] \in Seq(WorkItems)
      /\ PutDown(w) /\ pc'[w] # "run" /\ \A v \in Workers \ {w} : pc'[v] = pc[v]
      /\ local'[w] = Append(local[w], more) /\ \A v \in Workers \ {w} : local'[v] = local[v]
      /\ UNCHANGED <<ingress, global, stage, item, armed, fired, allocated, policy, store>>
  BY DEF CycleInv, RunOk, Goto, TypeOK, engineVars, outside, handoffVars
<1>2. k \in Keys /\ more \in WorkItems /\ more.key = k
  BY <1>1, WorkIs
<1>3. \A i : Queued(local'[w], i) <=> Queued(local[w], i) \/ i = more
  BY <1>1, <1>2, QueuedAppend
<1>4. \A j \in Keys \ {k} : PhaseOf(j)' = PhaseOf(j)
  <2>1. \A i \in WorkItems :
          (\E v \in Workers : Queued(local'[v], i)) \/ Queued(global', i) <=>
            (\E v \in Workers : Queued(local[v], i)) \/ Queued(global, i) \/ i = more
    BY <1>1, <1>3
  <2> QED
    BY <1>1, <1>2, <2>1, PutDownPhases
<1>5. PhaseOf(k)' = "planning"
  <2>1. Held(Work(k, "Trigger"))'
    BY <1>3 DEF Held, Queued
  <2> QED
    BY <1>2, <2>1, PhaseIsNext DEF PhaseFacts
<1>6. PhaseOf(k) = "running"
  BY <1>1, <1>2, PhaseIs DEF PhaseFacts, Running
<1> QED
  BY <1>1, <1>2, <1>4, <1>5, <1>6, Enters DEF Lifecycle!Finish, Lifecycle!Cycle

(* A task that loses its one item is gone.                                 *)
LEMMA GonePhases ==
  ASSUME CycleInv, CycleInv', NEW CONSTANT k \in Keys, NEW a, NEW b, NEW n,
         Holds(k, a, b, n), allocated' = allocated,
         \A u, v, r : ~Holds(k, u, v, r)'
  PROVE  PhaseOf(k)' = "gone"
<1>1. k \in allocated
  <2>1. <<a, b, n>> \in Tokens(k)
    BY TokenIs
  <2> QED
    BY <2>1 DEF CycleInv, TokenInv, Counted
<1> QED
  BY <1>1, PhaseIsNext DEF PhaseFacts

(* A worker that drops the item in its hand ends the cycle of its task.    *)
LEMMA HandGone ==
  ASSUME CycleInv, CycleInv', NEW w \in Workers, hand[w] \in WorkItems, PutDown(w),
         pc'[w] # "run", \A v \in Workers \ {w} : pc'[v] = pc[v],
         UNCHANGED <<ingress, local, global, stage, item, armed, fired, allocated>>
  PROVE  Lifecycle!Enter(hand[w].key, "gone")
<1> PICK k : k = hand[w].key
  OBVIOUS
<1>1. k \in Keys /\ hand[w] # None /\ hand[w].key = k
  BY WorkIs
<1>2. hand'[w] = None /\ \A v \in Workers \ {w} : hand'[v] = hand[v]
  BY DEF PutDown, CycleInv, TypeOK
<1>3. Holds(k, w, "hand", 0)
  BY <1>1 DEF Holds
<1>4. ASSUME NEW u, NEW v, NEW r, Holds(k, u, v, r)' PROVE FALSE
  <2>1. Holds(k, u, v, r) /\ ~(u = w /\ v = "hand")
    BY <1>2, <1>4 DEF Holds
  <2>2. <<u, v, r>> = <<w, "hand", 0>>
    BY <1>1, <1>3, <2>1, OneItem
  <2> QED
    BY <2>1, <2>2
<1>5. PhaseOf(k)' = "gone"
  BY <1>1, <1>3, <1>4, GonePhases
<1>6. \A j \in Keys \ {k} : PhaseOf(j)' = PhaseOf(j)
  <2>1. \A i \in WorkItems :
          (\E v \in Workers : Queued(local'[v], i)) \/ Queued(global', i) <=>
            (\E v \in Workers : Queued(local[v], i)) \/ Queued(global, i) \/ i = None
    BY NoneAssumption DEF Queued
  <2> QED
    BY <2>1, PutDownPhases
<1> QED
  BY <1>1, <1>5, <1>6, Enters

(* The phase of the task a worker is busy with.                            *)
LEMMA HandPhase ==
  ASSUME CycleInv, NEW w \in Workers, pc[w] \in {"trigger", "run"}
  PROVE  /\ hand[w] \in WorkItems /\ hand[w].key \in Keys
         /\ pc[w] = "trigger" => PhaseOf(hand[w].key) = "planning"
         /\ pc[w] = "run" => PhaseOf(hand[w].key) = "running"
<1>1. hand[w] \in WorkItems
  BY DEF CycleInv, TypeOK
<1>2. hand[w].key \in Keys /\ hand[w] = Work(hand[w].key, hand[w].work)
  BY <1>1, WorkIs
<1>3. pc[w] = "trigger" => Held(Work(hand[w].key, "Trigger"))
  BY <1>2 DEF Held, CycleInv, HandsMatch
<1>4. pc[w] = "run" => Running(hand[w].key)
  BY DEF Running
<1> QED
  BY <1>1, <1>2, <1>3, <1>4, PhaseIs DEF PhaseFacts

(* The failover policy answers an error of the trigger or of the run.      *)
LEMMA FailoverPhases ==
  ASSUME CycleInv, CycleInv', NEW w \in Workers, ApplyFailover(w)
  PROVE  Lifecycle!Fail(hand[w].key)
<1> PICK k : k = hand[w].key
  OBVIOUS
<1>1. /\ Failures /\ pc[w] \in {"trigger", "run"} /\ pc'[w] # "run" /\ PutDown(w)
      /\ \A v \in Workers \ {w} : pc'[v] = pc[v]
      /\ global' = Retried(hand[w]) /\ store' = Forgotten(k)
      /\ UNCHANGED <<ingress, local, stage, item, armed, fired, allocated, policy>>
  BY DEF CycleInv, ApplyFailover, Goto, TypeOK, engineVars, outside, handoffVars
<1>2. /\ hand[w] \in WorkItems /\ k \in Keys /\ hand[w].key = k
      /\ pc[w] = "trigger" => PhaseOf(k) = "planning"
      /\ pc[w] = "run" => PhaseOf(k) = "running"
  BY <1>1, HandPhase
<1>3. ASSUME policy # "Keep" PROVE Lifecycle!Enter(k, "gone")
  <2>1. global' = global
    BY <1>1, <1>3 DEF Retried
  <2> QED
    BY <1>1, <1>2, <2>1, HandGone
<1>4. ASSUME policy = "Keep"
      PROVE  Lifecycle!Enter(k, IF PhaseOf(k) = "running" THEN "due" ELSE "planning")
  <2>1. global' = Append(global, hand[w]) /\ global \in Seq(WorkItems)
    BY <1>1, <1>4 DEF Retried, CycleInv, TypeOK
  <2>2. \A i : Queued(global', i) <=> Queued(global, i) \/ i = hand[w]
    BY <1>2, <2>1, QueuedAppend
  <2>3. \A j \in Keys \ {k} : PhaseOf(j)' = PhaseOf(j)
    <3>1. \A i \in WorkItems :
            (\E v \in Workers : Queued(local'[v], i)) \/ Queued(global', i) <=>
              (\E v \in Workers : Queued(local[v], i)) \/ Queued(global, i) \/ i = hand[w]
      BY <1>1, <2>2
    <3> QED
      BY <1>1, <1>2, <3>1, PutDownPhases
  <2>4. PICK x : x = hand[w].work
    OBVIOUS
  <2>5. Held(Work(k, x))'
    <3>1. hand[w] = Work(k, x)
      BY <1>2, <2>4, WorkIs
    <3>2. Queued(global', Work(k, x))
      BY <2>2, <3>1
    <3> QED
      BY <3>2 DEF Held, Queued
  <2>6. CASE pc[w] = "trigger"
    <3>1. x = "Trigger"
      BY <2>4, <2>6 DEF CycleInv, HandsMatch
    <3>2. PhaseOf(k)' = "planning"
      BY <1>2, <2>5, <3>1, PhaseIsNext DEF PhaseFacts
    <3> QED
      BY <1>2, <2>3, <2>6, <3>2, Enters
  <2>7. CASE pc[w] = "run"
    <3>1. x = "Dispatch"
      BY <2>4, <2>7 DEF CycleInv, HandsMatch
    <3>2. ASSUME NEW v \in Workers, pc'[v] = "run", hand'[v].key = k PROVE FALSE
      <4>1. v # w /\ pc[v] = "run" /\ hand[v].key = k
        BY <1>1, <3>2 DEF PutDown, CycleInv, TypeOK
      <4>2. Holds(k, v, "hand", 0) /\ Holds(k, w, "hand", 0)
        BY <1>2, <2>7, <4>1, RunningIsHeld
      <4> QED
        BY <1>2, <4>1, <4>2, OneItem
    <3>3. ~Running(k)'
      BY <3>2 DEF Running
    <3>4. PhaseOf(k)' = "due"
      BY <1>2, <2>5, <3>1, <3>3, PhaseIsNext DEF PhaseFacts
    <3> QED
      BY <1>2, <2>3, <2>7, <3>4, Enters
  <2> QED
    BY <1>1, <2>6, <2>7
<1> QED
  BY <1>1, <1>2, <1>3, <1>4 DEF Lifecycle!Fail, Lifecycle!Enter, Forgotten

(* A panic, and the end of a cancelled worker, cut a cycle short.          *)
LEMMA DeathPhases ==
  ASSUME CycleInv, CycleInv', NEW w \in Workers, Panic(w) \/ Cancelled(w)
  PROVE  \/ Lifecycle!CutShort(hand[w].key) /\ hand[w].key \in Keys
         \/ UNCHANGED Lifecycle!vars
<1>1. /\ Panics \/ Aborts \/ policy = "ShutdownScheduler"
      /\ pc[w] \in {"trigger", "run", "wait"} /\ pc'[w] # "run" /\ PutDown(w)
      /\ \A v \in Workers \ {w} : pc'[v] = pc[v]
      /\ UNCHANGED <<ingress, local, global, stage, item, armed, fired, allocated, policy, store>>
  BY DEF CycleInv, DrainedForAReason, Panic, Cancelled, Goto, TypeOK, queueVars, engineVars,
         outside, handoffVars
<1>2. CASE pc[w] = "wait"
  <2>1. hand' = hand /\ \A v \in Workers : pc'[v] = "run" <=> pc[v] = "run"
    <3>1. hand[w] = None /\ hand' = [hand EXCEPT ![w] = None]
      BY <1>1, <1>2 DEF CycleInv, HandsAreFree, PutDown
    <3>2. hand' = hand
      BY <3>1 DEF CycleInv, TypeOK
    <3>3. \A v \in Workers : pc'[v] = "run" <=> pc[v] = "run"
      BY <1>1, <1>2
    <3> QED
      BY <3>2, <3>3
  <2>2. ASSUME NEW k \in Keys PROVE PhaseOf(k)' = PhaseOf(k)
    <3>1. \A i : Held(i)' <=> Held(i)
      BY <1>1, <2>1 DEF Held, Queued
    <3>2. Running(k)' <=> Running(k)
      BY <2>1 DEF Running
    <3> QED
      BY <1>1, <3>1, <3>2, PhaseSame DEF Queued
  <2> QED
    BY <1>1, <2>2, Stutters
<1>3. CASE pc[w] # "wait"
  <2>1. /\ hand[w] \in WorkItems /\ hand[w].key \in Keys
        /\ PhaseOf(hand[w].key) \in {"planning", "running"}
    BY <1>1, <1>3, HandPhase
  <2>2. Lifecycle!Enter(hand[w].key, "gone")
    BY <1>1, <2>1, HandGone
  <2> QED
    BY <1>1, <2>1, <2>2 DEF Lifecycle!CutShort
<1> QED
  BY <1>2, <1>3

(* A popped item goes to the hand, or ends the cycle of a task that is no  *)
(* longer stored.                                                          *)
LEMMA PopPhases ==
  ASSUME CycleInv, CycleInv', NEW w \in Workers, PopLocal(w)
  PROVE  \/ Lifecycle!Drop(Head(local[w]).key) /\ Head(local[w]).key \in Keys
         \/ UNCHANGED Lifecycle!vars
<1> PICK i : i = Head(local[w])
  OBVIOUS
<1> PICK k : k = i.key
  OBVIOUS
<1>1. /\ local[w] \in Seq(WorkItems) /\ local[w] # <<>> /\ local'[w] = Tail(local[w])
      /\ \A v \in Workers \ {w} : local'[v] = local[v]
      /\ UNCHANGED <<ingress, global, stage, item, armed, fired, allocated, policy, store>>
      /\ pc[w] = "pop" /\ hand[w] = None
  BY DEF CycleInv, PopLocal, TypeOK, engineVars, outside, handoffVars, HandsAreFree
<1>2. /\ i \in WorkItems /\ k \in Keys /\ i # None /\ i = Work(k, i.work)
      /\ i.work \in {"Trigger", "Dispatch"}
  <2>1. i \in WorkItems
    BY <1>1, HeadTailProperties
  <2> QED
    BY <2>1, WorkIs
<1>3. \A j : Queued(local[w], j) <=> j = i \/ Queued(local'[w], j)
  BY <1>1, QueuedTail
<1>4. CASE k \in store
  <2>1. /\ hand'[w] = i /\ pc'[w] # "run"
        /\ \A v \in Workers \ {w} : hand'[v] = hand[v] /\ pc'[v] = pc[v]
    BY <1>4 DEF PopLocal, Dropped, Goto, CycleInv, TypeOK
  <2>2. ASSUME NEW j \in WorkItems PROVE Held(j)' <=> Held(j)
    <3>1. (\E v \in Workers : Queued(local'[v], j) \/ hand'[v] = j) <=>
            \E v \in Workers : Queued(local[v], j) \/ hand[v] = j
      BY <1>1, <1>3, <2>1, NoneAssumption
    <3>2. Queued(global, j)' <=> Queued(global, j)
      BY <1>1 DEF Queued
    <3> QED
      BY <1>1, <3>1, <3>2 DEF Held
  <2>3. ASSUME NEW l \in Keys PROVE PhaseOf(l)' = PhaseOf(l)
    <3>1. Running(l)' <=> Running(l)
      BY <1>1, <2>1 DEF Running
    <3> QED
      BY <1>1, <2>2, <3>1, WorkIs, PhaseSame DEF Queued
  <2> QED
    BY <1>1, <2>3, Stutters
<1>5. CASE k \notin store
  <2>1. UNCHANGED <<pc, hand>>
    BY <1>5 DEF PopLocal, Dropped, workerVars
  <2>2. PhaseOf(k) \in {"planning", "due"}
    <3>1. PICK x \in {"Trigger", "Dispatch"} : i = Work(k, x)
      BY <1>2
    <3>2. Held(Work(k, x))
      BY <1>3, <3>1 DEF Held
    <3>3. ASSUME NEW v \in Workers, pc[v] = "run", hand[v].key = k PROVE FALSE
      <4>1. Holds(k, v, "hand", 0)
        BY <1>2, <3>3, RunningIsHeld
      <4>2. Holds(k, w, "local", 1)
        BY <1>1, AtTail DEF Holds
      <4> QED
        BY <1>2, <4>1, <4>2, OneItem
    <3>4. ~Running(k)
      BY <3>3 DEF Running
    <3> QED
      BY <1>2, <3>1, <3>2, <3>4, PhaseIs DEF PhaseFacts
  <2>3. \A j \in Keys \ {k} : PhaseOf(j)' = PhaseOf(j)
    <3>1. ASSUME NEW j \in Keys \ {k} PROVE PhaseOf(j)' = PhaseOf(j)
      <4>1. ASSUME NEW x \in {"Trigger", "Dispatch"}
            PROVE  Held(Work(j, x))' <=> Held(Work(j, x))
        <5>1. Work(j, x) # i
          BY <1>2, WorkIs
        <5>2. \A v \in Workers : Queued(local'[v], Work(j, x)) <=> Queued(local[v], Work(j, x))
          BY <1>1, <1>3, <5>1
        <5> QED
          BY <1>1, <2>1, <5>2 DEF Held, Queued
      <4>2. Running(j)' <=> Running(j)
        BY <2>1 DEF Running
      <4> QED
        BY <1>1, <4>1, <4>2, PhaseSame DEF Queued
    <3> QED
      BY <3>1
  <2>4. PhaseOf(k)' = "gone"
    <3>1. /\ \A n : n \in At(local'[w], k) <=> n \in Nat \ {0} /\ n + 1 \in At(local[w], k)
          /\ 1 \in At(local[w], k)
      BY <1>1, AtTail
    <3>2. Holds(k, w, "local", 1)
      BY <3>1 DEF Holds
    <3>3. ASSUME NEW u, NEW v, NEW r, Holds(k, u, v, r)' PROVE FALSE
      <4>1. CASE u = w /\ v = "local"
        <5>1. r \in Nat \ {0} /\ Holds(k, w, "local", r + 1)
          BY <3>1, <3>3, <4>1 DEF Holds
        <5>2. r + 1 = 1
          BY <1>2, <3>2, <5>1, OneItem
        <5> QED
          BY <5>1, <5>2
      <4>2. CASE ~(u = w /\ v = "local")
        <5>1. Holds(k, u, v, r)
          BY <1>1, <2>1, <3>3, <4>2 DEF Holds
        <5> QED
          BY <1>2, <3>2, <4>2, <5>1, OneItem
      <4> QED
        BY <4>1, <4>2
    <3> QED
      BY <1>1, <1>2, <3>2, <3>3, GonePhases
  <2>5. Lifecycle!Enter(k, "gone")
    BY <1>2, <2>3, <2>4, Enters
  <2> QED
    BY <1>1, <1>2, <1>5, <2>2, <2>5 DEF Lifecycle!Drop
<1> QED
  BY <1>4, <1>5

(* A task that is removed is no longer registered, whatever its phase.     *)
LEMMA RemovalPhases ==
  ASSUME CycleInv,
         (\E k \in Keys : Remove(k)) \/ (\E ks \in SUBSET store : ClearShard(ks))
  PROVE  \E ks \in SUBSET store : Lifecycle!Unregister(ks)
<1>1. /\ \E ks \in SUBSET store : store' = store \ ks
      /\ UNCHANGED <<pc, allocated, policy>>
  <2>1. ASSUME NEW k \in Keys, Remove(k)
        PROVE  \E ks \in SUBSET store : store' = store \ ks
    <3>1. store' = store \ ({k} \cap store) /\ {k} \cap store \in SUBSET store
      BY <2>1 DEF Remove
    <3> QED
      BY <3>1
  <2> QED
    BY <2>1 DEF Remove, ClearShard, workerVars
<1>2. MovesNoItem
  BY DEF MovesNoItem
<1>3. \A k \in Keys : PhaseOf(k)' = PhaseOf(k)
  BY <1>1, <1>2, QuietPhases
<1> QED
  BY <1>1, <1>3 DEF Lifecycle!Unregister

(* Every step is a step of one task's cycle, a removal or a stutter.       *)
LEMMA LifecycleStep ==
  ASSUME Instructions = {}, CycleInv, CycleInv', [Next]_vars
  PROVE  [Lifecycle!Next]_(Lifecycle!vars)
<1> DEFINE Step == [Lifecycle!Next]_(Lifecycle!vars)
<1>1. ASSUME \A k \in Keys : PhaseOf(k)' = PhaseOf(k), UNCHANGED <<policy, store>>
      PROVE  Step
  BY <1>1, Stutters
<1>2. ASSUME NEW w \in Workers, TriggerOk(w) \/ Dispatch(w) \/ RunOk(w) \/ ApplyFailover(w)
      PROVE  hand[w].key \in Keys
  <2>1. hand[w] \in WorkItems
    BY <1>2 DEF TriggerOk, Dispatch, RunOk, ApplyFailover, CycleInv, TypeOK
  <2> QED
    BY <2>1, WorkIs
<1>3. ASSUME NEW w \in Workers, Serve(w) \/ Cancelled(w) PROVE Step
  BY <1>2, <1>3, TriggerPhases, DispatchPhases, RunPhases, FailoverPhases, DeathPhases
  DEF Serve, Lifecycle!Next
<1>4. ASSUME NEW w \in Workers, PopLocal(w) PROVE Step
  BY <1>4, PopPhases DEF Lifecycle!Next
<1>5. ASSUME NEW w \in Workers,
             DrainIngress(w) \/ StealGlobal(w) \/ \E v \in Workers : Steal(w, v)
      PROVE  Step
  <2>1. UNCHANGED <<policy, store>>
    BY <1>5 DEF DrainIngress, StealGlobal, Steal, outside
  <2> QED
    BY <1>1, <1>5, <2>1, DrainPhases, StealGlobalPhases, StealPhases
<1>6. ASSUME NEW p \in Producers, NEW w \in Workers, Push(p, w) PROVE Step
  <2>1. UNCHANGED <<policy, store>>
    BY <1>6 DEF Push, storeVars
  <2> QED
    BY <1>1, <1>6, <2>1, PushPhases
<1>7. ASSUME Retrieve PROVE Step
  <2>1. UNCHANGED <<policy, store>>
    BY <1>7 DEF Retrieve, storeVars
  <2> QED
    BY <1>1, <1>7, <2>1, RetrievePhases
<1>8. ASSUME NEW k \in Keys, Fire(k) \/ \E c \in Clients : Schedule(c, k) PROVE Step
  BY <1>8, FirePhases, SchedulePhases DEF Lifecycle!Next
<1>9. ASSUME (\E k \in Keys : Remove(k)) \/ (\E ks \in SUBSET store : ClearShard(ks))
      PROVE  Step
  BY <1>9, RemovalPhases DEF Lifecycle!Next
<1>10. ASSUME MovesNoItem, UNCHANGED <<policy, store>>, allocated' = allocated,
              \A w \in Workers : pc'[w] = "run" <=> pc[w] = "run"
       PROVE  Step
  BY <1>1, <1>10, QuietPhases
<1>11. ASSUME NEW w \in Workers,
              \/ IngressEmpty(w) \/ StealFails(w) \/ GlobalEmpty(w) \/ SwapPending(w)
              \/ Notified(w)
       PROVE  Step
  <2>1. /\ \E l \in {"pop", "drain", "global", "swap", "wait"} : Goto(w, l)
        /\ pc[w] \in {"pop", "drain", "global", "swap", "wait"}
        /\ UNCHANGED <<policy, store, allocated>>
    BY <1>11 DEF IngressEmpty, StealFails, GlobalEmpty, SwapPending, Notified, Move, outside
  <2>2. \A v \in Workers : pc'[v] = "run" <=> pc[v] = "run"
    BY <2>1 DEF Goto, CycleInv, TypeOK
  <2>3. MovesNoItem
    BY <1>11 DEF MovesNoItem
  <2> QED
    BY <1>10, <2>1, <2>2, <2>3
<1>12. ASSUME Start PROVE Step
  <2>1. \A w \in Workers : pc[w] = "off" /\ pc'[w] = "drain"
    BY <1>12 DEF Start, CycleInv, WakeProtocol, GlobalWatched
  <2> QED
    BY <1>10, <1>12, <2>1 DEF Start, MovesNoItem, storeVars
<1>13. ASSUME \/ Abort
              \/ \E c \in Clients : NotifyWaiters(c)
              \/ \E p \in Producers : FetchAdd(p) \/ NotifyOne(p)
              \/ MainLoopCancelled \/ CancelHalted \/ InstructionsDrained \/ AwaitInstructions
              \/ InstructionLoopCancelled \/ UNCHANGED vars
       PROVE  Step
  <2>1. UNCHANGED <<policy, store, allocated, pc>>
    BY <1>13 DEF Abort, NotifyWaiters, FetchAdd, NotifyOne, MainLoopCancelled, CancelHalted,
                 InstructionsDrained, AwaitInstructions, InstructionLoopCancelled, vars,
                 storeVars, workerVars
  <2>2. MovesNoItem
    BY <1>13 DEF MovesNoItem
  <2> QED
    BY <1>10, <2>1, <2>2
<1>14. ~PopInstruction
  BY DEF PopInstruction, CycleInv, Uninstructed
<1> HIDE DEF Step
<1>15. ASSUME ClientStep PROVE Step
  BY <1>8, <1>9, <1>12, <1>13, <1>15 DEF ClientStep
<1>16. ASSUME NEW p \in Producers, HandOffStep(p) PROVE Step
  BY <1>6, <1>13, <1>16 DEF HandOffStep
<1>17. ASSUME NEW w \in Workers, Look(w) PROVE Step
  BY <1>4, <1>5, <1>11, <1>17 DEF Look
<1>18. ASSUME InstructionStep PROVE Step
  BY <1>13, <1>14, <1>18 DEF InstructionStep
<1>19. ASSUME Next PROVE Step
  BY <1>3, <1>7, <1>8, <1>13, <1>15, <1>16, <1>17, <1>18, <1>19 DEF Next
<1>20. Step
  BY <1>13, <1>19
<1> QED
  BY <1>20 DEF Step

(* Initially every task is absent.                                         *)
LEMMA LifecycleInit == Init => CycleInv /\ Lifecycle!Init
<1> SUFFICES ASSUME Init PROVE CycleInv /\ Lifecycle!Init
  OBVIOUS
<1>1. HandsMatch /\ Uninstructed /\ DrainedForAReason
  BY DEF Init, HandsMatch, Uninstructed, DrainedForAReason
<1>2. CycleInv
  BY <1>1, InitInvariant, InitTokens DEF CycleInv
<1>3. \A k \in Keys : PhaseOf(k) = "absent"
  BY <1>2, PhaseIs DEF PhaseFacts, Init
<1>4. policy \in Lifecycle!Policies
  BY ConstantsAssumption DEF Init, Policies, Lifecycle!Policies
<1> QED
  BY <1>2, <1>3, <1>4 DEF Lifecycle!Init, Init

(* ImplementsLifecycle: a scheduler that is given no instructions, however *)
(* its clients, workers, thieves, main loop and engine interleave, runs    *)
(* every task in the cycle of TaskLifecycle: planned, waiting, due, running*)
(* and planned again.                                                      *)
THEOREM SchedulerImplementsLifecycle ==
  Instructions = {} => (Spec => ImplementsLifecycle)
<1> SUFFICES ASSUME Instructions = {} PROVE Spec => ImplementsLifecycle
  OBVIOUS
<1>1. CycleInv /\ [Next]_vars => CycleInv'
  BY CycleStep
<1>2. CycleInv /\ CycleInv' /\ [Next]_vars => [Lifecycle!Next]_(Lifecycle!vars)
  BY LifecycleStep
<1> QED
  BY <1>1, <1>2, LifecycleInit, PTL DEF Spec, ImplementsLifecycle, Lifecycle!Spec
=============================================================================
